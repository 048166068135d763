---------------------------- MODULE ConfigChecks ----------------------------
(***************************************************************************)
(* What validate.Run refuses, and what it predicts, of the part of the     *)
(* input every platform shares (internal/validate): the workflows, the     *)
(* connections, the stores, the users and the leader election.  Each       *)
(* operator is one check, true when it reports no error; findings are      *)
(* collected, so a run is accepted when every check is content.            *)
(*                                                                         *)
(* Left out: the syntax of hosts, names and numbers, which the inputs obey,*)
(* the shape of transform blocks, which are passed through, and every      *)
(* warning but the one a property is about.                                *)
(***************************************************************************)
EXTENDS ConfigSpec

CONSTANT MaxWorkflows  \* 20 in the code

CheckWorkflowCount(in) == Len(in.wfs) <= MaxWorkflows

\* A host variable inside the reserved prefix would share a mount name with a
\* credential the tool names itself.
CheckCred(c) == ~Both(c) /\ (c.env # NoName => c.env[1] # Prefix)

CheckSideCredentials(s) == CheckCred(s.user) /\ CheckCred(s.pass)

\* createdRole: certificates make a truststore, a key a keystore; a JKS is either.
CheckCreatedSelection(in, s) ==
    /\ Store(in, s.trust).create # "keys"
    /\ Store(in, s.key).create # "certs"
    /\ s.alias # "" => ~Created(Store(in, s.key))

CheckStoreSelection(in, s) ==
    /\ {s.trust, s.key} \ {NoName} \subseteq DOMAIN in.stores
    /\ s.alias # "" => s.key # NoName
    /\ CheckCreatedSelection(in, s)

CheckTuple(in, s) ==
    /\ s.broker # ""
    /\ ~UsesTLS(s) => s.alias = "" /\ s.trust = NoName /\ s.key = NoName /\ s.cipher = ""
    /\ CheckStoreSelection(in, s)

\* A side that refers to a connection carries a destination and nothing else.
CheckSide(in, s, isSource) ==
    /\ HasSystem(s) /\ CheckSideCredentials(s)
    /\ s.kind # ""
    /\ ~(isSource /\ s.system = "solace" /\ s.kind = "topic")
    /\ IF s.ref # NoName
       THEN /\ ~SetsConnFields(s)
            /\ s.ref \in DOMAIN in.conns /\ in.conns[s.ref].system = s.system
       ELSE CheckTuple(in, s)

CheckWorkflowSides(in) == \A i \in DOMAIN RawSides(in) : CheckSide(in, RawSides(in)[i], IsSource(i))

CheckConnections(in) == \A n \in DOMAIN in.conns :
    LET c == in.conns[n]
    IN  /\ HasSystem(c) /\ c.ref = NoName /\ c.kind = ""
        /\ CheckTuple(in, c) /\ CheckSideCredentials(c)

CheckStoreDefinition(st) ==
    /\ Configured(st)
    /\ ~(Created(st) /\ st.path # "")
    /\ Created(st) => ~Empty(st.pass)

CheckStoreFiles(in) == \A n \in DOMAIN in.stores : CheckStoreDefinition(in.stores[n])

CheckDefaultsCredentials(in) ==
    /\ \A n \in DOMAIN in.stores : CheckCred(in.stores[n].pass)
    /\ \A i \in DOMAIN in.users : CheckCred(in.users[i].pass)
    /\ HasSession(in) => CheckSideCredentials(in.leader.session)

\* A block's other keys may not spell, any way Spring reads it, a key the tool
\* handles.
CheckExtraKeys(system, cipher, extra) ==
    LET used == {Canonical(k) : k \in Keys(extra)}
    IN  /\ used \cap KnownKeys(system) = {}
        /\ system = "mq" => "sslbundle" \notin used
        /\ system = "mq" /\ cipher # "" => "sslciphersuite" \notin used

CheckAllExtraKeys(in) ==
    /\ \A n \in DOMAIN in.conns : CheckExtraKeys(in.conns[n].system, in.conns[n].cipher, in.conns[n].extra)
    /\ \A i \in DOMAIN RawSides(in) :
          LET s == RawSides(in)[i]
          IN  HasSystem(s) => CheckExtraKeys(s.system, s.cipher, s.extra)
    /\ HasSession(in) => CheckExtraKeys("solace", "", in.leader.session.extra)
    /\ CheckExtraKeys("mq", "", in.mqDefaults)

-----------------------------------------------------------------------------
(***************************************************************************)
(* The checks over several files: sides of one binder, found as Build      *)
(* finds them, by their key.                                               *)
(***************************************************************************)
SameBinder(s, t) == HasSystem(s) /\ HasSystem(t) /\ DedupKey(s) = DedupKey(t)

CheckStoreSelectionConflicts(in) ==
    \A i, j \in DOMAIN Sides(in) :
        LET s == Sides(in)[i]  t == Sides(in)[j]
        IN  SameBinder(s, t) => s.trust = t.trust /\ s.key = t.key /\ s.alias = t.alias

\* Two passwords of one binder must be one; a side may leave it out.
SamePassword(s, t) == Empty(s.pass) \/ Empty(t.pass) \/ CredKey(s.pass) = CredKey(t.pass)

CheckPasswordConflicts(in) ==
    \A i, j \in DOMAIN Sides(in) : SameBinder(Sides(in)[i], Sides(in)[j]) => SamePassword(Sides(in)[i], Sides(in)[j])

\* Mutant of CheckValidateConflicts: the sides of one file only.
CheckValidateInFile(in) ==
    \A i, j \in DOMAIN Sides(in) :
        LET s == Sides(in)[i]  t == Sides(in)[j]
        IN  SameBinder(s, t) /\ s.system = "solace" /\ (i + 1) \div 2 = (j + 1) \div 2
                => Stated(s) = {} \/ Stated(t) = {} \/ Stated(s) = Stated(t)

\* P2: sides of one binder that state certificate validation state it alike.
CheckValidateConflicts(in) ==
    \A i, j \in DOMAIN Sides(in) :
        LET s == Sides(in)[i]  t == Sides(in)[j]
        IN  SameBinder(s, t) /\ s.system = "solace" /\ UsesTLS(s)
                => Stated(s) = {} \/ Stated(t) = {} \/ Stated(s) = Stated(t)

\* checkDuplicateSources: the sources that an earlier file consumes too.
DuplicateSources(in) == {i \in DOMAIN Sides(in) : IsSource(i) /\ \E j \in 1..(i - 1) :
    IsSource(j) /\ SameBinder(Sides(in)[i], Sides(in)[j]) /\ Sides(in)[i].dest = Sides(in)[j].dest}

-----------------------------------------------------------------------------
(***************************************************************************)
(* Leader election and management users.                                   *)
(***************************************************************************)
CheckLeaderElection(in) ==
    LET le == in.leader
    IN  le.mode \notin {"absent", "standalone"} =>
            /\ le.mode \in ActiveModes
            /\ le.queue
            /\ ~(le.ref # NoName /\ HasSession(in))
            /\ IF le.ref # NoName
               THEN le.ref \in DOMAIN in.conns /\ in.conns[le.ref].system = "solace"
               ELSE HasSession(in) /\ CheckTuple(in, le.session)
            /\ HasSession(in) => le.session.kind = "" /\ ~le.session.tuned

\* Mutant of CheckLeaderSessionPassword: an inline session only.
CheckInlineSessionPassword(in) ==
    InlineSession(in) =>
        \A i \in DOMAIN Sides(in) :
            SameBinder(in.leader.session, Sides(in)[i]) => SamePassword(in.leader.session, Sides(in)[i])

CheckLeaderSessionPassword(in) ==
    LET sess == LeaderSession(in)
    IN  in.leader.mode \notin {"absent", "standalone"} /\ sess.system = "solace" =>
            \A i \in DOMAIN Sides(in) : SameBinder(sess, Sides(in)[i]) => SamePassword(sess, Sides(in)[i])

\* The reserved account of the status script, whose password the environment may
\* override with one that can be read back out of application.yml.
StatusUser == <<"solmq", "-", "status">>

CheckStatusUser(in) ==
    /\ \A i \in DOMAIN in.users : in.users[i].name # StatusUser
    /\ in.statusPassword # "unsafe"

Accepted(in) ==
    /\ CheckWorkflowCount(in) /\ CheckConnections(in) /\ CheckWorkflowSides(in) /\ CheckAllExtraKeys(in)
    /\ CheckStoreFiles(in) /\ CheckDefaultsCredentials(in)
    /\ CheckStoreSelectionConflicts(in) /\ CheckPasswordConflicts(in) /\ CheckValidateConflicts(in)
    /\ CheckLeaderElection(in) /\ CheckLeaderSessionPassword(in) /\ CheckStatusUser(in)

-----------------------------------------------------------------------------
(***************************************************************************)
(* What validate predicts of the build, for the checks of one platform.    *)
(***************************************************************************)
\* The sides something renders: every workflow's, and the session.
RenderedSides(in) ==
    {Sides(in)[i] : i \in DOMAIN Sides(in)}
        \cup (IF InlineSession(in) THEN {in.leader.session} ELSE {})
        \cup (IF LeaderConnRef(in) \in DOMAIN in.conns \ {NoName} THEN {in.conns[LeaderConnRef(in)]} ELSE {})

SelectedStoreNames(in) ==
    UNION {{s.trust, s.key} \ {NoName} : s \in {t \in RenderedSides(in) : UsesTLS(t)}}

\* Mutant of UsesCredentials: the workflows' sides, the users and the stores.
UsesCredentialsNoSession(in) ==
    \/ \E i \in DOMAIN Sides(in) : ~Empty(Sides(in)[i].user) \/ ~Empty(Sides(in)[i].pass)
    \/ \E i \in DOMAIN in.users : ~Empty(in.users[i].pass)
    \/ \E n \in SelectedStoreNames(in) : ~Empty(Store(in, n).pass)

UsesCredentials(in) ==
    \/ \E s \in RenderedSides(in) : ~Empty(s.user) \/ ~Empty(s.pass)
    \/ \E i \in DOMAIN in.users : ~Empty(in.users[i].pass)
    \/ \E n \in SelectedStoreNames(in) : ~Empty(Store(in, n).pass)
=============================================================================
