----------------------------- MODULE ConfigSpec -----------------------------
(***************************************************************************)
(* What the operator writes (internal/spec): workflow files, reusable      *)
(* connections, stores, management users and the leader-election session,  *)
(* and the names the tool derives from theirs.                             *)
(*                                                                         *)
(* A name is the sequence of its words and separators: a-b.1 is            *)
(* <<"a", "-", "b", ".", "1">>.  The name <<>> and the value "" stand for  *)
(* a key that is not written.                                              *)
(***************************************************************************)
EXTENDS Selections, TLC

CONSTANTS Upper(_),     \* a word or number in upper case
          Digit(_),     \* whether a word begins with a digit
          Tcps(_),      \* whether a broker is a tcps:// host
          Canonical(_)  \* CanonicalKey: a property name without case, '-' and '_'

Separators == {"-", "_", "."}

NoName == <<>>

-----------------------------------------------------------------------------
(***************************************************************************)
(* Names.                                                                  *)
(***************************************************************************)
Sanitize(name) == [i \in DOMAIN name |-> IF name[i] \in Separators THEN "-" ELSE name[i]]

\* stableToken folds case, and every run of separators to one '_', none at either
\* end; a number in front is prefixed.
StableToken(name) ==
    LET Word(i)  == name[i] \notin Separators
        Stays(i) == \/ Word(i)
                    \/ i > 1 /\ Word(i - 1) /\ \E j \in i..Len(name) : Word(j)
        folded == Only([i \in DOMAIN name |-> IF Word(i) THEN Upper(name[i]) ELSE "_"], {i \in DOMAIN name : Stays(i)})
    IN  IF folded = <<>> THEN <<"X">>
        ELSE IF Digit(folded[1]) THEN <<"X">> \o folded ELSE folded

\* GeneratedNamePrefix, reserved for the mount names the tool derives itself.
Prefix == "_GEN_"

StableName(binder, suffix) == <<Prefix>> \o StableToken(binder) \o suffix

StorePasswordName(store) ==
    <<Prefix, "TLS", "_">>
        \o [i \in DOMAIN store |-> IF store[i] \in Separators THEN "_" ELSE Upper(store[i])]
        \o <<"_", "PASSWORD">>

SecurityUserPasswordName(user) ==
    <<Prefix, "SECURITY", "_", "USER", "_">> \o StableToken(user) \o <<"_", "PASSWORD">>

UserSuffix(system) ==
    IF system = "solace" THEN <<"_", "CLIENT", "_", "USERNAME">> ELSE <<"_", "USER">>
PassSuffix(system) ==
    IF system = "solace" THEN <<"_", "CLIENT", "_", "PASSWORD">> ELSE <<"_", "PASSWORD">>

LeaderName(suffix) == <<Prefix, "LEADER", "_", "ELECTION">> \o suffix

-----------------------------------------------------------------------------
(***************************************************************************)
(* Credentials: a literal, or the name of a host variable.                 *)
(***************************************************************************)
NoCred == [lit |-> "", env |-> NoName]
Empty(c) == c.lit = "" /\ c.env = NoName
Both(c)  == c.lit # "" /\ c.env # NoName

\* Cred.Key: two positions with one key ask for the same credential.
CredKey(c) == IF c.env # NoName THEN [c EXCEPT !.lit = ""] ELSE c

\* secretRef: the name a credential is mounted as; a literal has only the one
\* its position gives it.
Mount(stable, c) == IF c.env # NoName THEN c.env ELSE stable

-----------------------------------------------------------------------------
(***************************************************************************)
(* Sides, connections and stores.                                          *)
(***************************************************************************)
Systems == {"solace", "mq"}

HasSystem(s) == s.system \in Systems

\* A connection's TLS, written for MQ and read off the host for Solace.
UsesTLS(s) == IF s.system = "solace" THEN Tcps(s.broker) ELSE s.tls

SetsConnFields(s) ==
    \/ s.broker # "" \/ s.tls \/ s.cipher # "" \/ s.alias # "" \/ s.trust # NoName \/ s.key # NoName
    \/ s.api # <<>> \/ s.extra # <<>> \/ ~Empty(s.user) \/ ~Empty(s.pass)

\* Binder identity; the password is left out.
DedupKey(s) == <<s.system, s.broker, CredKey(s.user)>>

\* A side with a known conn-ref is that connection with the side's own binding.
Resolve(conns, s) ==
    IF s.ref \in DOMAIN conns \ {NoName}
    THEN [conns[s.ref] EXCEPT !.ref = s.ref, !.kind = s.kind, !.dest = s.dest, !.tuned = s.tuned]
    ELSE s

\* Source, then target, of every file in order.
RawSides(in) == [i \in 1..(2 * Len(in.wfs)) |->
    IF i % 2 = 1 THEN in.wfs[(i + 1) \div 2].source ELSE in.wfs[i \div 2].target]

IsSource(i) == i % 2 = 1

Sides(in) == [i \in DOMAIN RawSides(in) |-> Resolve(in.conns, RawSides(in)[i])]

\* A store: the PKCS12 it names (path), what it is created from ("" if it is
\* not), and whether a kubernetes Secret holds it.
NoStore == [path |-> "", create |-> "", secret |-> FALSE, pass |-> NoCred]

Store(in, name) == IF name \in DOMAIN in.stores \ {NoName} THEN in.stores[name] ELSE NoStore
Created(st)     == st.create # ""
Configured(st)  == Created(st) \/ st.path # "" \/ st.secret

\* The stores a connection's configuration refers to.
Selected(in, s) ==
    {n \in {s.trust, s.key} : UsesTLS(s) /\ Configured(Store(in, n))}

-----------------------------------------------------------------------------
(***************************************************************************)
(* Leader election: a session of its own, or a connection's.               *)
(***************************************************************************)
ActiveModes == {"active_active", "active_standby"}

HasSession(in) == in.leader.session.system # "none"

InlineSession(in) ==
    /\ in.leader.mode \in ActiveModes /\ in.leader.ref = NoName
    /\ in.leader.session.system = "solace"

LeaderConnRef(in) == IF in.leader.mode \in ActiveModes THEN in.leader.ref ELSE NoName

\* leaderSession: the connection of the conn-ref when there is one, else the
\* inline block; none ("none" for a system) when neither is, or the ref dangles.
LeaderSession(in) ==
    IF in.leader.ref = NoName THEN in.leader.session
    ELSE IF in.leader.ref \in DOMAIN in.conns THEN in.conns[in.leader.ref]
    ELSE [in.leader.session EXCEPT !.system = "none"]

-----------------------------------------------------------------------------
(***************************************************************************)
(* Properties: sequences of key and value, in the order written.           *)
(***************************************************************************)
KnownKeys(system) ==
    IF system = "solace"
    THEN {"connref", "host", "msgvpn", "clientusername", "clientusernameenv", "clientpassword",
          "clientpasswordenv", "keyalias", "truststore", "keystore", "queue", "topic",
          "apiproperties", "consumer", "producer"}
    ELSE {"connref", "connname", "queuemanager", "channel", "user", "userenv", "password",
          "passwordenv", "tls", "cipher", "keyalias", "truststore", "keystore", "queue", "topic",
          "additionalproperties", "consumer", "producer"}

ToolManagedKeys(system) ==
    IF system = "solace"
    THEN {"host", "msgvpn", "clientusername", "clientpassword", "apiproperties"}
    ELSE {"queuemanager", "channel", "connname", "user", "password", "sslbundle", "additionalproperties"}

Keys(props) == {props[i].key : i \in DOMAIN props}

ValidateKey == "SSL_VALIDATE_CERTIFICATE"

\* Where a side's api-properties speak of certificate validation, and what the
\* first of them says, which is what validate reads; {} if there is none.
SaysAt(s) == {i \in DOMAIN s.api : s.api[i].key = ValidateKey}

Stated(s) == {s.api[i].val : i \in {j \in SaysAt(s) : \A k \in SaysAt(s) : j <= k}}

-----------------------------------------------------------------------------
(***************************************************************************)
(* What the files decode to once the host's variables are expanded in      *)
(* them, whatever is written: a block that is neither broker's has the     *)
(* system "none", and so has a session that is not there; a session is     *)
(* never MQ's.  statusPassword is the environment's override of the status *)
(* account's password, "" when it is unset or empty.                       *)
(***************************************************************************)
Names == Seq(STRING)

Credentials == [lit : STRING, env : Names]

Properties == Seq([key : STRING, val : STRING])

SideBlocks ==
    [system : Systems \cup {"none"}, ref : Names, broker : STRING, user : Credentials, pass : Credentials,
     tls : BOOLEAN, cipher : STRING, trust : Names, key : Names, alias : STRING, kind : STRING,
     dest : STRING, api : Properties, extra : Properties, tuned : BOOLEAN]

StoreBlocks == [path : STRING, create : STRING, secret : BOOLEAN, pass : Credentials]

Decoded(in) ==
    /\ in.wfs \in Seq([source : SideBlocks, target : SideBlocks])
    /\ in.conns \in [DOMAIN in.conns -> SideBlocks]
    /\ in.stores \in [DOMAIN in.stores -> StoreBlocks]
    /\ in.leader \in [mode : STRING, queue : BOOLEAN, ref : Names, session : SideBlocks]
    /\ in.leader.session.system # "mq"
    /\ in.users \in Seq([name : Names, pass : Credentials])
    /\ in.statusPassword \in {"", "safe", "unsafe"}
    /\ in.mqDefaults \in Properties /\ in.solaceDefaults \in Properties
=============================================================================
