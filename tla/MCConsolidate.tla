--------------------------- MODULE MCConsolidate ----------------------------
(***************************************************************************)
(* The specs TLC builds: families that each vary one concern of the input  *)
(* and fix the rest, so that together they hold every way two sides, two   *)
(* names or two credentials can meet.                                      *)
(***************************************************************************)
EXTENDS Consolidate

MCUpper(w) ==
    CASE w = "a" -> "A" [] w = "b" -> "B" [] w = "m" -> "M" [] w = "ops" -> "OPS" [] w = "t" -> "T"
      [] w = "k" -> "K" [] w = "p" -> "P" [] w = "mq" -> "MQ" [] w = "sol" -> "SOL" [] w = "conn" -> "CONN"
      [] w = "solmq" -> "SOLMQ" [] w = "status" -> "STATUS" [] OTHER -> w
MCDigit(w) == w \in {"1", "2", "3"}
MCTcps(b)  == b = "tcps"
MCCanonical(k) ==
    CASE k = "poll-rate" -> "pollrate" [] k = "POLL_RATE" -> "pollrate" [] k = "Queue-Manager" -> "queuemanager"
      [] k = "msg_vpn" -> "msgvpn" [] OTHER -> k

A1 == <<"a", "-", "b">>
A2 == <<"a", ".", "b">>
A3 == <<"A", "-", "B">>
A4 == <<"a", "-", "b", "-", "2">>
M  == <<"m">>
Q1 == <<"mq", "-", "conn", "-", "1">>
T  == <<"t">>
K  == <<"k">>
P  == <<"p">>

Lit(v) == [lit |-> v, env |-> NoName]
Env(n) == [lit |-> "", env |-> n]

Blank == [system |-> "none", ref |-> NoName, broker |-> "", user |-> NoCred, pass |-> NoCred, tls |-> FALSE,
          cipher |-> "", trust |-> NoName, key |-> NoName, alias |-> "", kind |-> "", dest |-> "",
          api |-> <<>>, extra |-> <<>>, tuned |-> FALSE]

Conn(system, broker, user, pass) ==
    [Blank EXCEPT !.system = system, !.broker = broker, !.user = user, !.pass = pass]

Side(c, kind, dest)      == [c EXCEPT !.kind = kind, !.dest = dest]
ByRef(system, ref, dest) == [Blank EXCEPT !.system = system, !.ref = ref, !.kind = "queue", !.dest = dest]

Wf(s, t) == [source |-> s, target |-> t]

NoLeader == [mode |-> "absent", queue |-> FALSE, ref |-> NoName, session |-> Blank]

\* No connection and no store: a function of nothing.
None == <<>>

Spec1(wfs) == [wfs |-> wfs, conns |-> None, stores |-> None, leader |-> NoLeader, users |-> <<>>, statusPassword |-> "",
               mqDefaults |-> <<>>, solaceDefaults |-> <<>>]

Mq  == Side(Conn("mq", "qm", Lit("u"), Lit("p")), "queue", "Q")
Sol == Side(Conn("solace", "tcp", Lit("u"), Lit("p")), "queue", "Q")

-----------------------------------------------------------------------------
(***************************************************************************)
(* Names: connections whose names fold together, and inline sides that     *)
(* join their binders with a password, another one, or none.               *)
(***************************************************************************)
Reserved == <<Prefix, "A", "_", "B", "_", "CLIENT", "_", "PASSWORD">>

ConnsWith(cred) ==
    A1 :> Conn("solace", "tcp", Lit("u"), Lit("p")) @@ A2 :> Conn("solace", "tcp", Env(<<"V">>), Env(<<"W">>))
        @@ A3 :> Conn("solace", "tcp", Lit("w"), cred) @@ M :> Conn("mq", "qm", Lit("u"), cred)
        @@ Q1 :> Conn("mq", "qn", Lit("u"), Lit("p"))

SolSides == {ByRef("solace", n, "Q") : n \in {A1, A2, A3}}
    \cup {Side(Conn("solace", "tcp", Lit("u"), c), "queue", "Q") : c \in {NoCred, Lit("p"), Lit("q")}}
MqSides == {ByRef("mq", M, "Q"), ByRef("mq", Q1, "Q"), Mq}

ByName ==
    {[Spec1(<<Wf(s1, t1), Wf(s2, t2)>>) EXCEPT !.conns = ConnsWith(Lit("q"))] :
        s1 \in SolSides, t1 \in MqSides, s2 \in SolSides \cup MqSides, t2 \in SolSides}

Creds == {NoCred, Lit("q"), Env(<<"E">>), [lit |-> "q", env |-> <<"E">>], Env(Reserved)}

ByCredential ==
    {[Spec1(<<Wf(s1, Mq), Wf(ByRef("mq", M, "Q"), s2)>>) EXCEPT !.conns = ConnsWith(c)] :
        s1 \in SolSides, s2 \in SolSides, c \in Creds}

-----------------------------------------------------------------------------
(***************************************************************************)
(* TLS: the stores two sides of a binder select, and the certificate       *)
(* validation each of them and the session state.                          *)
(***************************************************************************)
StoreFiles ==
    T :> [path |-> "", create |-> "certs", secret |-> FALSE, pass |-> Lit("t")]
        @@ K :> [path |-> "", create |-> "keys", secret |-> FALSE, pass |-> Env(<<"K">>)]
        @@ P :> [path |-> "p.p12", create |-> "", secret |-> TRUE, pass |-> NoCred]

State(v) == IF v = "" THEN <<>> ELSE <<[key |-> ValidateKey, val |-> v]>>

Tls(broker, trust, key, alias, v) ==
    [Conn("solace", broker, Lit("u"), Lit("p")) EXCEPT
        !.trust = trust, !.key = key, !.alias = alias, !.api = State(v), !.kind = "queue", !.dest = "Q"]

TlsSides == {Tls("tcps", x[1], x[2], x[3], v) : v \in {"", "true", "false"},
                x \in {<<NoName, NoName, "">>, <<T, NoName, "">>, <<T, K, "">>, <<P, P, "one">>, <<K, NoName, "">>}}
    \cup {[Tls("tcps", T, NoName, "", "") EXCEPT !.api = State("true") \o State("false")]}
    \cup {Tls("tcp", T, NoName, "", ""), Tls("tcps", T, K, "one", ""), Tls("tcps", <<"x">>, NoName, "", "")}

MqTls == [Mq EXCEPT !.broker = "qn", !.tls = TRUE, !.cipher = "SUITE", !.trust = T]

Sessions == {Blank, [Conn("solace", "tcps", Lit("u"), Lit("p")) EXCEPT !.trust = P, !.api = State("false")]}

ByTls ==
    {[Spec1(<<Wf(s1, Mq), Wf(MqTls, s2)>>) EXCEPT !.stores = StoreFiles,
        !.leader = IF e = Blank THEN NoLeader
                   ELSE [mode |-> "active_standby", queue |-> TRUE, ref |-> NoName, session |-> e]] :
        s1 \in TlsSides, s2 \in TlsSides, e \in Sessions}

\* Stores that are wrong in themselves.
BadStores == {[path |-> "", create |-> "", secret |-> FALSE, pass |-> NoCred],
              [path |-> "p.p12", create |-> "jks", secret |-> FALSE, pass |-> Lit("t")],
              [path |-> "", create |-> "jks", secret |-> FALSE, pass |-> NoCred],
              [path |-> "", create |-> "jks", secret |-> FALSE, pass |-> Env(Reserved)]}

ByStore == {[Spec1(<<Wf(Sol, Mq)>>) EXCEPT !.stores = T :> st] : st \in BadStores}

-----------------------------------------------------------------------------
(***************************************************************************)
(* Leader election and management users.                                   *)
(***************************************************************************)
Inline == {Blank, Conn("solace", "tcp", Lit("u"), Lit("p")), Conn("solace", "tcp", Lit("u"), Lit("q")),
           Conn("solace", "tcp", Lit("u"), NoCred), Conn("solace", "tcps", NoCred, Lit("p"))}

Leaders == [mode : {"standalone", "active_active", "other"}, queue : BOOLEAN, ref : {NoName, A1, M},
            session : Inline]

UserLists ==
    LET User1(n, p) == [name |-> n, pass |-> p]
        Dot == <<"ops", ".", "1">>  Dash == <<"ops", "-", "1">>
    IN  {<<>>, <<User1(Dot, Lit("p")), User1(Dash, Lit("p"))>>, <<User1(Dot, Lit("p")), User1(Dash, Lit("q"))>>,
         <<User1(Dot, Lit("p")), User1(Dot, Lit("q"))>>, <<User1(StatusUser, Lit("p"))>>,
         <<User1(<<"1", "-">>, Lit("p")), User1(<<"-">>, Env(<<"E">>))>>}

ByLeader ==
    {[Spec1(<<Wf(s, Mq)>>) EXCEPT !.conns = ConnsWith(Lit("q")), !.leader = le] :
        s \in SolSides, le \in Leaders}
    \cup {[Spec1(<<Wf(Mq, Sol)>>) EXCEPT !.leader = [le EXCEPT !.mode = "active_standby"], !.users = us,
                                         !.statusPassword = p] :
            le \in {l \in Leaders : l.ref = NoName}, us \in UserLists, p \in {"", "safe", "unsafe"}}

\* Binders without credentials: only the session, or only a store, has one.
Anonymous ==
    LET bare(c) == [c EXCEPT !.user = NoCred, !.pass = NoCred]
    IN  {[Spec1(<<Wf(bare(s), bare(Mq))>>) EXCEPT !.stores = StoreFiles, !.leader = le] :
            s \in {Sol, Tls("tcps", T, NoName, "", ""), Tls("tcps", P, NoName, "", "")},
            le \in {l \in Leaders : l.ref = NoName /\ l.queue}}

-----------------------------------------------------------------------------
(***************************************************************************)
(* Properties in several spellings, and the bindings.                      *)
(***************************************************************************)
Kv(k, v) == [key |-> k, val |-> v]

Extras == {<<>>, <<Kv("poll-rate", "1")>>, <<Kv("POLL_RATE", "2")>>, <<Kv("poll-rate", "3"), Kv("pollrate", "4")>>,
           <<Kv("other", "5"), Kv("poll-rate", "6")>>, <<Kv("Queue-Manager", "7")>>}

ByExtra ==
    {[Spec1(<<Wf([Mq EXCEPT !.extra = x], [Sol EXCEPT !.extra = x]), Wf([Mq EXCEPT !.extra = y], Sol)>>)
        EXCEPT !.mqDefaults = d, !.solaceDefaults = e] :
        x \in Extras, y \in Extras, d \in Extras, e \in Extras \cup {<<Kv("msg_vpn", "8")>>}}

Dests == {[c EXCEPT !.kind = k, !.dest = d] : c \in {Sol, Mq}, k \in {"", "queue", "topic"}, d \in {"Q", "R"}}

ByDest == {Spec1(<<Wf(s1, Sol), Wf(s2, Mq)>>) : s1 \in Dests, s2 \in Dests}
    \cup {Spec1(<<Wf(Sol, Mq), Wf(Mq, Sol), Wf(Sol, Mq)>>), Spec1(<<Wf(Blank, Mq)>>)}

MCInputs == UNION {ByName, ByCredential, ByTls, ByStore, ByLeader, Anonymous, ByExtra, ByDest}

\* A connection whose name is the one assignBinderNames makes for another binder.
MCNumbered ==
    {[Spec1(<<Wf(ByRef("solace", A1, "Q"), Mq), Wf(ByRef("solace", n, "Q"), Mq), Wf(ByRef("solace", A4, "Q"), Mq)>>)
        EXCEPT !.conns = ConnsWith(Lit("q")) @@ A4 :> Conn("solace", "tcp", Lit("x"), Lit("p"))] : n \in {A2, M}}
=============================================================================
