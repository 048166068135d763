---------------------------- MODULE Consolidate -----------------------------
(***************************************************************************)
(* From the operator's files to the model that is rendered: validate.Run,  *)
(* consolidate.Build and the refusal of gen.build, one side, one binder,   *)
(* one credential and one workflow at a time, in the order of the code.    *)
(*                                                                         *)
(* A placeholder ${NAME} in the rendered configuration is kept with the    *)
(* credential of the position it stands at; secrets is what is mounted.    *)
(***************************************************************************)
EXTENDS ConfigChecks

CONSTANT Inputs  \* the specs an operator may write

ASSUME InputsAssumption == \A in \in Inputs : Decoded(in)

VARIABLES input, phase,
          at,         \* the side, binder or workflow the phase has come to
          accs,       \* binders being accumulated, in order of appearance
          binders,    \* Model.Binders, without the internal last one
          claims,     \* credentials of the current position still to be recorded
          refs,       \* the placeholders written: name, and the position's credential
          secrets,    \* Model.Secrets: mount name to the position that has it
          conflicts,  \* Model.SecretConflicts: the two positions that claim one name
          stores,     \* Model.Stores: how each is used
          bindings,   \* Model.Bindings with their jms/solace options
          session     \* Model.LeaderElection.Session, or NoSession

vars == <<input, phase, at, accs, binders, claims, refs, secrets, conflicts, stores, bindings, session>>

NoSession == [key |-> <<>>, api |-> <<>>, extras |-> <<>>]

-----------------------------------------------------------------------------
(***************************************************************************)
(* Merging properties.                                                     *)
(***************************************************************************)
\* One block laid over another, whose keys go by the names given: the last entry of
\* a name takes the place of the first that goes by it, and is added at the end,
\* once, where there is none.
Lay(base, over, name) ==
    LET Same(p, q)   == name[p.key] = name[q.key]
        In(p, s)     == \E j \in DOMAIN s : Same(s[j], p)
        First(i, s)  == \A j \in 1..(i - 1) : ~Same(s[j], s[i])
        Latest(p)    == over[CHOOSE j \in DOMAIN over : Same(over[j], p) /\ \A k \in DOMAIN over : Same(over[k], p) => k <= j]
    IN  [i \in DOMAIN base |-> IF In(base[i], over) /\ First(i, base) THEN Latest(base[i]) ELSE base[i]]
            \o Only([i \in DOMAIN over |-> Latest(over[i])], {i \in DOMAIN over : ~In(over[i], base) /\ First(i, over)})

\* mergeProp for every property of a block: the later value wins, in place.
Merge(list, props) == Lay(list, props, [k \in Keys(list) \cup Keys(props) |-> k])

\* Mutant of OverlayExtras: a key is replaced only if it is spelled the same.
OverlayExact(base, over) == Merge(base, over)

\* overlayExtras: over replaces, in any spelling, what base says.
OverlayExtras(base, over) == Lay(base, over, [k \in Keys(base) \cup Keys(over) |-> Canonical(k)])

DropManaged(props, system) ==
    Only(props, {i \in DOMAIN props : Canonical(props[i].key) \notin ToolManagedKeys(system)})

AppendPassthrough(tool, pass) == tool \o Only(pass, {i \in DOMAIN pass : pass[i].key \notin Keys(tool)})

\* tls.SolaceProps: the keys that wire the selected stores; where each is
\* mounted stands for the value.
SolaceProps(in, s) ==
    LET Prop(k, v) == [key |-> k, val |-> v]
        trusts == Configured(Store(in, s.trust))
        keys   == Configured(Store(in, s.key))
    IN  (IF trusts THEN <<Prop("SSL_TRUST_STORE", "mount"), Prop("SSL_TRUST_STORE_PASSWORD", "ref"),
                          Prop("SSL_TRUST_STORE_FORMAT", "PKCS12")>> ELSE <<>>)
        \o (IF keys THEN <<Prop("SSL_KEY_STORE", "mount"), Prop("SSL_KEY_STORE_PASSWORD", "ref"),
                           Prop("SSL_KEY_STORE_FORMAT", "PKCS12")>> ELSE <<>>)
        \o (IF keys /\ s.alias # "" THEN <<Prop("SSL_PRIVATE_KEY_ALIAS", s.alias)>> ELSE <<>>)

-----------------------------------------------------------------------------
Init ==
    /\ input \in Inputs /\ phase = "check" /\ at = 1
    /\ accs = <<>> /\ binders = <<>>
    /\ claims = <<>> /\ refs = {} /\ secrets = <<>> /\ conflicts = {}
    /\ stores = <<>> /\ bindings = <<>> /\ session = NoSession

Validate ==
    /\ phase = "check"
    /\ phase' = IF Accepted(input) THEN "register" ELSE "rejected"
    /\ UNCHANGED <<input, at, accs, binders, claims, refs, secrets, conflicts, stores, bindings, session>>

(***************************************************************************)
(* Pass 1: one binder for every key, with what its sides add to it.        *)
(***************************************************************************)
\* The accumulator of a side's first appearance: the tuple and both credentials.
NewAcc(s) == [key |-> DedupKey(s), system |-> s.system, name |-> NoName,
              user |-> s.user, pass |-> s.pass, tls |-> UsesTLS(s),
              conn |-> NoName, trust |-> NoName, store |-> NoName, alias |-> "", cipher |-> "",
              api |-> <<>>, extra |-> <<>>]

Accumulate(a, s) ==
    [a EXCEPT !.conn   = IF @ = NoName THEN s.ref ELSE @,
              !.trust  = IF @ = NoName THEN s.trust ELSE @,
              !.store  = IF @ = NoName THEN s.key ELSE @,
              !.alias  = IF @ = "" THEN s.alias ELSE @,
              !.tls    = @ \/ (s.system = "mq" /\ s.tls),
              !.cipher = IF s.cipher # "" THEN s.cipher ELSE @,
              !.api    = Merge(@, s.api),
              !.extra  = Merge(@, s.extra)]

\* Mutant of Register: a side is compared with the last binder only.
RegisterLast ==
    /\ phase = "register" /\ at <= Len(Sides(input))
    /\ LET s == Sides(input)[at]
       IN  accs' = IF accs # <<>> /\ accs[Len(accs)].key = DedupKey(s)
                   THEN [accs EXCEPT ![Len(accs)] = Accumulate(@, s)]
                   ELSE Append(accs, Accumulate(NewAcc(s), s))
    /\ at' = at + 1
    /\ UNCHANGED <<input, phase, binders, claims, refs, secrets, conflicts, stores, bindings, session>>

Register ==
    /\ phase = "register" /\ at <= Len(Sides(input))
    /\ LET s == Sides(input)[at]
       IN  accs' = IF \E i \in DOMAIN accs : accs[i].key = DedupKey(s)
                   THEN [i \in DOMAIN accs |-> IF accs[i].key = DedupKey(s) THEN Accumulate(accs[i], s) ELSE accs[i]]
                   ELSE Append(accs, Accumulate(NewAcc(s), s))
    /\ at' = at + 1
    /\ UNCHANGED <<input, phase, binders, claims, refs, secrets, conflicts, stores, bindings, session>>

\* The base of a binder's name: its first connection's, or a number of its own
\* among the unnamed of its system.
BaseName(i) ==
    LET unnamed == {j \in 1..i : accs[j].conn = NoName /\ accs[j].system = accs[i].system}
    IN  IF accs[i].conn # NoName THEN Sanitize(accs[i].conn)
        ELSE <<IF accs[i].system = "solace" THEN "sol" ELSE "mq", "-", "conn", "-", ToString(Cardinality(unnamed))>>

\* Mutant of BinderName: binders of one connection name share it.
BinderBase(i) == BaseName(i)

\* assignBinderNames: a later binder of the same base gets -2, -3, ...
BinderName(i) ==
    LET before == {j \in 1..(i - 1) : BaseName(j) = BaseName(i)}
    IN  IF before = {} THEN BaseName(i)
        ELSE BaseName(i) \o <<"-", ToString(Cardinality(before) + 1)>>

NameBinders ==
    /\ phase = "register" /\ at > Len(Sides(input))
    /\ accs' = [i \in DOMAIN accs |-> [accs[i] EXCEPT !.name = BinderName(i)]]
    /\ phase' = "wire" /\ at' = 1
    /\ UNCHANGED <<input, binders, claims, refs, secrets, conflicts, stores, bindings, session>>

-----------------------------------------------------------------------------
(***************************************************************************)
(* Credentials.                                                            *)
(***************************************************************************)
\* The placeholders a position writes: none for a credential that is not set.
\* from is the name in the spec that its mount name would be derived from.
Position(from, stable, c) ==
    IF Empty(c) THEN <<>> ELSE <<[name |-> Mount(stable, c), cred |-> c, from |-> from]>>

StorePositions(s) ==
    LET Of(n) == IF UsesTLS(s) /\ Configured(Store(input, n))
                 THEN Position(<<"store", n>>, StorePasswordName(n), Store(input, n).pass) ELSE <<>>
    IN  Of(s.trust) \o Of(s.key)

Write(positions) ==
    /\ claims' = positions
    /\ refs' = refs \cup {positions[i] : i \in DOMAIN positions}

UseStores(s) ==
    LET sel == Selected(input, s)
        Use(n) == [trusted |-> n = s.trust \/ (n \in DOMAIN stores /\ stores[n].trusted),
                   private |-> n = s.key \/ (n \in DOMAIN stores /\ stores[n].private)]
    IN  stores' = [n \in DOMAIN stores \cup sel |-> IF n \in sel THEN Use(n) ELSE stores[n]]

\* secretRef: the first position to claim a name has it; a later one with
\* another credential is a conflict, the first of the name.
Claim ==
    /\ claims # <<>>
    /\ LET c == Head(claims)
       IN  IF c.name \notin DOMAIN secrets
           THEN /\ secrets' = [n \in DOMAIN secrets \cup {c.name} |-> IF n = c.name THEN c ELSE secrets[n]]
                /\ UNCHANGED conflicts
           ELSE /\ conflicts' = IF secrets[c.name].cred # c.cred /\ \A d \in conflicts : d[1].name # c.name
                                THEN conflicts \cup {<<secrets[c.name], c>>} ELSE conflicts
                /\ UNCHANGED secrets
    /\ claims' = Tail(claims)
    /\ UNCHANGED <<input, phase, at, accs, binders, refs, stores, bindings, session>>

(***************************************************************************)
(* Finalizing one binder: its credentials, its TLS wiring and its keys.    *)
(***************************************************************************)
\* What an accumulator connects as, read as a side.
AsSide(a) == [system |-> a.system, broker |-> a.key[2], tls |-> a.tls, trust |-> a.trust,
              key |-> a.store, alias |-> a.alias]

ToolProps(a) ==
    IF a.system = "solace"
    THEN IF a.tls THEN SolaceProps(input, AsSide(a)) ELSE <<>>
    ELSE IF a.cipher # "" THEN <<[key |-> "WMQ_SSL_CIPHER_SUITE", val |-> a.cipher]>> ELSE <<>>

Binder(a) ==
    [name |-> a.name, key |-> a.key, system |-> a.system, pass |-> a.pass,
     trust |-> IF a.tls /\ Configured(Store(input, a.trust)) THEN a.trust ELSE NoName,
     store |-> IF a.tls /\ Configured(Store(input, a.store)) THEN a.store ELSE NoName,
     alias |-> IF a.tls /\ Configured(Store(input, a.store)) THEN a.alias ELSE "",
     tls |-> a.tls,
     extras |-> IF a.system = "solace"
                THEN OverlayExtras(input.solaceDefaults, DropManaged(a.extra, "solace"))
                ELSE OverlayExtras(DropManaged(input.mqDefaults, "mq"), DropManaged(a.extra, "mq")),
     api |-> AppendPassthrough(ToolProps(a), a.api)]

Wire ==
    /\ phase = "wire" /\ claims = <<>> /\ at <= Len(accs)
    /\ LET a == accs[at]
       IN  /\ binders' = Append(binders, Binder(a))
           /\ Write(Position(<<"user of", a.name>>, StableName(a.name, UserSuffix(a.system)), a.user)
                    \o Position(<<"password of", a.name>>, StableName(a.name, PassSuffix(a.system)), a.pass)
                    \o StorePositions(AsSide(a)))
           /\ UseStores(AsSide(a))
    /\ at' = at + 1
    /\ UNCHANGED <<input, phase, accs, secrets, conflicts, bindings, session>>

StartBinding ==
    /\ phase = "wire" /\ claims = <<>> /\ at > Len(accs)
    /\ phase' = "bind" /\ at' = 1
    /\ UNCHANGED <<input, accs, binders, claims, refs, secrets, conflicts, stores, bindings, session>>

(***************************************************************************)
(* Pass 2: input-N and output-N of each workflow.                          *)
(***************************************************************************)
BinderOf(s) == binders[CHOOSE i \in DOMAIN accs : accs[i].key = DedupKey(s)].name

\* Binding and emitBindingOptions: a Solace side says its destination type when
\* it is not its role's default; an MQ topic source is a durable subscription,
\* named for the broker, the topic and the file.
Binding(i) ==
    LET s == Sides(input)[i]
        odd == IsSource(i) = (s.kind = "topic")
    IN  [side |-> i, binder |-> BinderOf(s), dest |-> s.dest,
         type |-> IF s.system = "mq" \/ odd THEN s.kind ELSE "",
         durable |-> IF s.system = "mq" /\ IsSource(i) /\ s.kind = "topic"
                     THEN <<s.broker, s.dest, (i + 1) \div 2>> ELSE <<>>]

Bind ==
    /\ phase = "bind" /\ at <= Len(input.wfs)
    /\ bindings' = bindings \o <<Binding(2 * at - 1), Binding(2 * at)>>
    /\ at' = at + 1
    /\ UNCHANGED <<input, phase, accs, binders, claims, refs, secrets, conflicts, stores, session>>

(***************************************************************************)
(* The leader-election session, the users, and what gen makes of it.       *)
(***************************************************************************)
\* A session on a broker the workflows use takes that binder's names.
Shared(s) == \E i \in DOMAIN accs : accs[i].key = DedupKey(s) /\ accs[i].system = "solace"

SessionName(s, suffix) == IF Shared(s) THEN StableName(BinderOf(s), suffix) ELSE LeaderName(suffix)

SessionFrom(s) == IF Shared(s) THEN BinderOf(s) ELSE NoName

Elect ==
    /\ phase = "bind" /\ at > Len(input.wfs)
    /\ LET s == LeaderSession(input)
       IN  IF input.leader.mode \in {"absent", "standalone"} \/ ~HasSystem(s)
           THEN UNCHANGED <<claims, refs, stores, session>>
           ELSE /\ session' = [key |-> DedupKey(s),
                               api |-> AppendPassthrough(IF UsesTLS(s) THEN SolaceProps(input, s) ELSE <<>>, s.api),
                               extras |-> OverlayExtras(input.solaceDefaults, DropManaged(s.extra, "solace"))]
                /\ Write(Position(<<"user of", SessionFrom(s)>>, SessionName(s, UserSuffix("solace")), s.user)
                         \o Position(<<"password of", SessionFrom(s)>>, SessionName(s, PassSuffix("solace")), s.pass)
                         \o StorePositions(s))
                /\ UseStores(s)
    /\ phase' = "users" /\ at' = 1
    /\ UNCHANGED <<input, accs, binders, secrets, conflicts, bindings>>

\* applyStatusAccess: the users' passwords; the reserved account's is a literal
\* in the configuration and is no placeholder.
User ==
    /\ phase = "users" /\ claims = <<>> /\ at <= Len(input.users)
    /\ LET u == input.users[at]
       IN  Write(Position(<<"user", u.name>>, SecurityUserPasswordName(u.name), u.pass))
    /\ at' = at + 1
    /\ UNCHANGED <<input, phase, accs, binders, secrets, conflicts, stores, bindings, session>>

\* Mutant of Gate: conflicts are not looked at.
GateOpen ==
    /\ phase = "users" /\ claims = <<>> /\ at > Len(input.users)
    /\ phase' = "built"
    /\ UNCHANGED <<input, at, accs, binders, claims, refs, secrets, conflicts, stores, bindings, session>>

\* gen.build renders, unless two credentials compete for one name.
Gate ==
    /\ phase = "users" /\ claims = <<>> /\ at > Len(input.users)
    /\ phase' = IF conflicts = {} THEN "built" ELSE "refused"
    /\ UNCHANGED <<input, at, accs, binders, claims, refs, secrets, conflicts, stores, bindings, session>>

Rest == phase \in {"rejected", "built", "refused"} /\ UNCHANGED vars

Next ==
    \/ Validate \/ Register \/ NameBinders \/ Wire \/ Claim \/ StartBinding \/ Bind \/ Elect \/ User \/ Gate
    \/ Rest

Spec == Init /\ [][Next]_vars
-----------------------------------------------------------------------------
(***************************************************************************)
(* Properties.                                                             *)
(***************************************************************************)
\* Every variable keeps its range; a binder is accumulated once for every key.
TypeOK ==
    /\ phase \in {"check", "rejected", "register", "wire", "bind", "users", "built", "refused"}
    /\ at \in 1..(Len(Sides(input)) + Len(input.users) + 1)
    /\ \A i, j \in DOMAIN accs : accs[i].key = accs[j].key => i = j
    /\ {claims[i] : i \in DOMAIN claims} \subseteq refs
    /\ \A n \in DOMAIN secrets : secrets[n].name = n /\ secrets[n] \in refs
    /\ UNION {{c[1], c[2]} : c \in conflicts} \subseteq refs
    /\ DOMAIN stores \subseteq DOMAIN input.stores
    /\ {bindings[i].side : i \in DOMAIN bindings} \subseteq DOMAIN Sides(input)

Built == phase = "built"

\* Every side's binding names a binder, and whatever it names connects to the side's
\* broker as the side's user, trusts and presents what the side selects, and
\* does not authenticate with another side's password.
SidesReachTheirBroker ==
    Built => \A i \in DOMAIN Sides(input) :
        LET s     == Sides(input)[i]
            named == {j \in DOMAIN binders : binders[j].name = bindings[i].binder}
        IN  /\ named # {}
            /\ \A j \in named :
                /\ binders[j].key = DedupKey(s)
                /\ <<binders[j].trust, binders[j].store, binders[j].alias>> = <<s.trust, s.key, s.alias>>
                /\ UsesTLS(s) => binders[j].tls
                /\ Empty(binders[j].pass) \/ SamePassword([pass |-> binders[j].pass], s)

\* secretRef and gen.build: a placeholder that is rendered has its own position's
\* credential mounted under its name, whatever other positions share the name.
PlaceholdersResolve ==
    Built => \A r \in refs : r.name \in DOMAIN secrets /\ secrets[r.name].cred = r.cred

\* What secretConflictError tells the operator is true: a conflict is between two
\* literals whose names in the spec fold together, so renaming one of them helps;
\* it is never a host variable, nor two passwords of one connection, store or
\* session.  Only a management user listed twice is reported so too.
ConflictsAreFolds ==
    \A c \in conflicts :
        /\ c[1].cred.env = NoName /\ c[2].cred.env = NoName
        /\ c[1].from # c[2].from \/ c[1].from \in {<<"user", input.users[i].name>> : i \in DOMAIN input.users}

\* The platform checks rest on what validate says the build will select: the
\* stores with their roles, whether anything needs the credentials mounted, and
\* which queues two inputs of one binder share.
ValidatorPredicts ==
    Built =>
        /\ DOMAIN stores = SelectedStoreNames(input)
        /\ \A n \in DOMAIN stores :
              /\ stores[n].trusted = \E s \in RenderedSides(input) : UsesTLS(s) /\ s.trust = n
              /\ stores[n].private = \E s \in RenderedSides(input) : UsesTLS(s) /\ s.key = n
        /\ DOMAIN secrets # {} => UsesCredentials(input)
        /\ \A i, j \in DOMAIN bindings :
              (/\ IsSource(i) /\ IsSource(j) /\ j < i
               /\ bindings[i].binder = bindings[j].binder /\ bindings[i].dest = bindings[j].dest)
                    => i \in DuplicateSources(input)

\* The certificate validation a connection states is the one it gets, though its
\* binder's properties are merged and the last file wins.  A block that states it
\* twice is the exception: validate reads the first, the merge keeps the last.
PostureKept ==
    (Built /\ \A s \in RenderedSides(input) : \A i, j \in SaysAt(s) : i = j) =>
        /\ \A i \in DOMAIN Sides(input), j \in DOMAIN binders :
              LET s == Sides(input)[i]
              IN  (s.system = "solace" /\ UsesTLS(s) /\ Stated(s) # {} /\ binders[j].key = DedupKey(s))
                    => Stated(binders[j]) = Stated(s)
        /\ session # NoSession => Stated(session) = Stated(LeaderSession(input))

Once(props) == \A i, j \in DOMAIN props : Canonical(props[i].key) = Canonical(props[j].key) => i = j

\* The connector is never given a property twice, in whatever spellings the files,
\* the connections and the defaults write it, unless a defaults block does so.
KeysOnce ==
    Built =>
        /\ \A j \in DOMAIN binders :
              LET b == binders[j]
                  managed == b.system = "mq" \/ DropManaged(input.solaceDefaults, "solace") = input.solaceDefaults
              IN  /\ Once(IF b.system = "mq" THEN input.mqDefaults ELSE input.solaceDefaults) => Once(b.extras)
                  /\ managed => DropManaged(b.extras, b.system) = b.extras
                  /\ \A m, n \in DOMAIN b.api : b.api[m].key = b.api[n].key => m = n
        /\ Once(input.solaceDefaults) => Once(session.extras)

\* DedupKey: two sides may repeat a connection without repeating its password, so
\* the binder has the one that is written.
PasswordKept ==
    Built => \A i \in DOMAIN Sides(input), j \in DOMAIN binders :
        (binders[j].key = DedupKey(Sides(input)[i]) /\ ~Empty(Sides(input)[i].pass)) => ~Empty(binders[j].pass)

\* assignBinderNames: a suffix tells apart any two binders.
BindersDiffer == \A i, j \in DOMAIN binders : binders[i].name = binders[j].name => i = j
=============================================================================
