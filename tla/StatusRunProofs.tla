---------------------------- MODULE StatusRunProofs ----------------------------
(***************************************************************************)
(* Theorems about StatusRun, for any instances, order, command lines and   *)
(* number of events.                                                       *)
(***************************************************************************)
EXTENDS StatusRun, TLAPS

(***************************************************************************)
(* The inductive invariant                                                 *)
(***************************************************************************)
Flags ==
  /\ do \in BOOLEAN /\ failed \in BOOLEAN /\ prompted \in BOOLEAN
  /\ pending \in BOOLEAN /\ pressed \in BOOLEAN /\ quiet \in BOOLEAN
  /\ agreed \in BOOLEAN

Data ==
  /\ live \subseteq Names /\ script \in [Names -> Scripts]
  /\ opt \in Options /\ names \subseteq Names
  /\ pc \in {"start", "resolve", "list", "inspect", "probe", "ask", "install",
             "run", "report", "wait", "done"}
  /\ listed \subseteq Names /\ todo \subseteq listed
  /\ missing \subseteq listed /\ present \subseteq listed
  /\ pc = "inspect" => missing = {} /\ present = {}
  /\ app \in [Names -> Scripts]
  /\ error \in [Names -> {"none", "probe", "missing", "declined", "install", "run"}]
  /\ exit \in {"none", "killed", "failed", "ok"}
  /\ shown \subseteq Names /\ wrote \subseteq Names
  /\ events \in 0..MaxEvents

\* The question is asked of an operator who was not asked before, so its answer
\* never replaces the consent that something was already written under; and a
\* loop that installs goes over the instances the question named.
Consent ==
  /\ asked = 0 \/ (asked = 1 /\ prompted)
  /\ ~prompted => shown = {}
  /\ pc = "ask" => prompted /\ ~opt.install /\ shown = {}
  /\ pc = "install" /\ do /\ ~opt.install => todo \subseteq shown
  /\ wrote \subseteq (IF opt.install THEN Names ELSE shown)

Asking == {"probe", "ask", "install"}

Shape ==
  /\ pc = "inspect" => \A n \in Names : app[n] = "none" /\ error[n] = "none"
  /\ pc = "probe" => todo \cap missing = {}
  /\ pc = "ask" => todo = {} /\ missing # {}
  /\ pc = "run" => todo \subseteq present
  /\ pc \in Asking \cup {"run"} => opt.view = "application"

\* The listed instances that have neither an error nor a script to run.
Undecided == todo \cup (IF pc \in {"probe", "ask"} THEN missing ELSE {})

\* Until the scripts are run each listed instance is undecided, present or in
\* error; from then on each that was run has an answer or an error.
Accounted ==
  /\ pc \in Asking =>
       /\ Undecided \cap present = {}
       /\ \A n \in listed : /\ app[n] = "none"
                            /\ error[n] = "none" <=> n \in Undecided \cup present
  /\ pc = "run" =>
       \A n \in listed : IF n \in todo THEN app[n] = "none" /\ error[n] = "none"
                                       ELSE app[n] = "none" <=> error[n] # "none"
  /\ pc = "report" /\ opt.view = "application" =>
       \A n \in listed : app[n] = "none" <=> error[n] # "none"

Counted ==
  /\ pc = "inspect" => ~failed
  /\ pc \in Asking \cup {"run", "report"} =>
       (failed <=> \E n \in listed : error[n] # "none")

\* A yes is this collection's, and no loop forgets it or the flag.
Agreement ==
  /\ pc \in {"inspect", "probe", "ask"} => ~agreed
  /\ pc = "install" /\ (opt.install \/ agreed) => do

\* While nothing happens the listed instances are there, and so is the script of
\* each that is present.
Quiet ==
  quiet /\ pc \in Asking \cup {"run", "report"} =>
    /\ listed \subseteq live
    /\ \A n \in present : script[n] # "none"
    /\ \A n \in listed : error[n] \in {"none", "missing", "declined"}
                         \/ (error[n] = "run" /\ script[n] = "half")
    /\ pc \in {"probe", "ask"} => \A n \in listed : error[n] = "none"
    /\ opt.install \/ agreed =>
         \A n \in listed : error[n] \notin {"missing", "declined"}

IInv ==
  Flags /\ Data /\ Consent /\ Shape /\ Accounted /\ Counted /\ Agreement /\ Quiet

(***************************************************************************)
(* Facts about the constants                                               *)
(***************************************************************************)
\* What the actions use of the assumption.
LEMMA Bound == MaxEvents \in Nat /\ Configured \in Names
BY StatusAssumption

LEMMA View ==
  ASSUME opt \in Options
  PROVE  opt.view \in {"application", "container"} /\ opt.install \in BOOLEAN
BY StatusAssumption DEF CommandLines

\* What an entry stands for is a set of instances.
LEMMA ResolvedAreNames ==
  ASSUME Data, NEW e \in Spellings
  PROVE  ResolveOneIndex(e, Candidates) \subseteq Names
BY StatusAssumption DEF Data, ResolveOneIndex, Candidates

(***************************************************************************)
(* Every step keeps the invariant                                          *)
(***************************************************************************)

\* Every flag is a Boolean.
LEMMA FlagsStep ==
  ASSUME Flags, opt.install \in BOOLEAN, [Next]_vars PROVE Flags'
<1> USE DEF Flags, Goes, Ends, Fault, NoFault, Collected, world, report,
       ghosts
<1>1. CASE Start
  BY <1>1 DEF Start
<1>2. CASE ResolveIndexes
  BY <1>2 DEF ResolveIndexes
<1>3. CASE ListPods
  BY <1>3 DEF ListPods, Listed, NotListed, Blank
<1>4. CASE EngineNames
  BY <1>4 DEF EngineNames, NotListed, Blank
<1>5. CASE Inspect
  BY <1>5 DEF Inspect, Listed, NotListed
<1>6. ASSUME NEW n \in Names, ScriptInstalled(n) PROVE Flags'
  BY <1>6 DEF ScriptInstalled, IsFirst, Fails
<1>7. CASE Decide
  BY <1>7 DEF Decide, BeginRuns, BeginInstalls
<1>8. CASE Answer
  BY <1>8 DEF Answer
<1>9. CASE Unanswered
  BY <1>9 DEF Unanswered, BeginRuns
<1>10. ASSUME NEW n \in Names, Decline(n) PROVE Flags'
  BY <1>10 DEF Decline, IsFirst, Fails
<1>11. ASSUME NEW n \in Names, InstallScript(n) PROVE Flags'
  BY <1>11 DEF InstallScript, IsFirst, Fails, Writes
<1>12. CASE Installed
  BY <1>12 DEF Installed, BeginRuns
<1>13. ASSUME NEW n \in Names, RunStatusScript(n) PROVE Flags'
  BY <1>13 DEF RunStatusScript, IsFirst, Fails
<1>14. CASE Ran
  BY <1>14 DEF Ran
<1>15. CASE RenderOnce
  BY <1>15 DEF RenderOnce
<1>16. CASE Tick
  BY <1>16 DEF Tick
<1>17. CASE Stop
  BY <1>17 DEF Stop
<1>18. CASE Interrupt
  BY <1>18 DEF Interrupt, Notify
<1>19. CASE Kill
  BY <1>19 DEF Kill, Writes, IsFirst
<1>20. ASSUME NEW n \in Names, Recreate(n) PROVE Flags'
  BY <1>20 DEF Recreate, Changes
<1>21. ASSUME NEW n \in Names, Come(n) PROVE Flags'
  BY <1>21 DEF Come, Changes
<1>22. ASSUME NEW n \in Names, Go(n) PROVE Flags'
  BY <1>22 DEF Go, Changes
<1>23. CASE UNCHANGED vars
  BY <1>23 DEF vars
<1> QED
  BY <1>1, <1>2, <1>3, <1>4, <1>5, <1>6, <1>7, <1>8, <1>9, <1>10, <1>11,
     <1>12, <1>13, <1>14, <1>15, <1>16, <1>17, <1>18, <1>19, <1>20, <1>21,
     <1>22, <1>23 DEF Next, Moves

\* Every other variable keeps its type, and what an engine is about to inspect
\* belongs to a report that is still empty.
LEMMA DataStep ==
  ASSUME Data, [Next]_vars PROVE Data'
<1> USE DEF Data, Scripts, Settings, Goes, Ends, Fault, NoFault, Collected,
       world, report, ghosts
<1>1. CASE Start
  BY <1>1, Bound DEF Start
<1>2. CASE ResolveIndexes
  <2>1. opt.typed \subseteq Spellings
    BY StatusAssumption DEF Data, CommandLines
  <2>2. UNION {ResolveOneIndex(e, Candidates) : e \in opt.typed} \subseteq Names
    BY <2>1, ResolvedAreNames
  <2>3. ~AnyIndex => opt.typed \subseteq Names
    BY <2>1 DEF AnyIndex, Spellings
  <2>4. names' \subseteq Names
    BY <1>2, <2>2, <2>3 DEF ResolveIndexes
  <2> QED
    BY <1>2, <2>4, Bound DEF ResolveIndexes
<1>3. CASE ListPods
  BY <1>3, Bound DEF ListPods, Listed, NotListed, Blank
<1>4. CASE EngineNames
  BY <1>4, Bound DEF EngineNames, NotListed, Blank
<1>5. CASE Inspect
  BY <1>5, Bound DEF Inspect, Listed, NotListed
<1>6. ASSUME NEW n \in Names, ScriptInstalled(n) PROVE Data'
  BY <1>6, Bound DEF ScriptInstalled, IsFirst, Fails
<1>7. CASE Decide
  BY <1>7, Bound DEF Decide, BeginRuns, BeginInstalls
<1>8. CASE Answer
  BY <1>8, Bound DEF Answer
<1>9. CASE Unanswered
  BY <1>9, Bound DEF Unanswered, BeginRuns
<1>10. ASSUME NEW n \in Names, Decline(n) PROVE Data'
  BY <1>10, Bound DEF Decline, IsFirst, Fails
<1>11. ASSUME NEW n \in Names, InstallScript(n) PROVE Data'
  BY <1>11, Bound DEF InstallScript, IsFirst, Fails, Writes
<1>12. CASE Installed
  BY <1>12, Bound DEF Installed, BeginRuns
<1>13. ASSUME NEW n \in Names, RunStatusScript(n) PROVE Data'
  BY <1>13, Bound DEF RunStatusScript, IsFirst, Fails
<1>14. CASE Ran
  BY <1>14, Bound DEF Ran
<1>15. CASE RenderOnce
  BY <1>15, Bound DEF RenderOnce
<1>16. CASE Tick
  BY <1>16, Bound DEF Tick
<1>17. CASE Stop
  BY <1>17, Bound DEF Stop
<1>18. CASE Interrupt
  BY <1>18, Bound DEF Interrupt, Notify
<1>19. CASE Kill
  BY <1>19, Bound DEF Kill, Writes, IsFirst
<1>20. ASSUME NEW n \in Names, Recreate(n) PROVE Data'
  BY <1>20, Bound DEF Recreate, Changes
<1>21. ASSUME NEW n \in Names, Come(n) PROVE Data'
  BY <1>21, Bound DEF Come, Changes
<1>22. ASSUME NEW n \in Names, Go(n) PROVE Data'
  BY <1>22, Bound DEF Go, Changes
<1>23. CASE UNCHANGED vars
  BY <1>23 DEF vars
<1> QED
  BY <1>1, <1>2, <1>3, <1>4, <1>5, <1>6, <1>7, <1>8, <1>9, <1>10, <1>11,
     <1>12, <1>13, <1>14, <1>15, <1>16, <1>17, <1>18, <1>19, <1>20, <1>21,
     <1>22, <1>23 DEF Next, Moves

\* The question is asked once, and covers what is written.
LEMMA ConsentStep ==
  ASSUME Data, Consent, [Next]_vars PROVE Consent'
<1> USE DEF Data, Consent, Goes, Ends, Fault, NoFault, Collected, world,
       report, ghosts
<1>1. CASE Start
  BY <1>1 DEF Start
<1>2. CASE ResolveIndexes
  BY <1>2 DEF ResolveIndexes
<1>3. CASE ListPods
  BY <1>3 DEF ListPods, Listed, NotListed, Blank
<1>4. CASE EngineNames
  BY <1>4 DEF EngineNames, NotListed, Blank
<1>5. CASE Inspect
  BY <1>5 DEF Inspect, Listed, NotListed
<1>6. ASSUME NEW n \in Names, ScriptInstalled(n) PROVE Consent'
  BY <1>6 DEF ScriptInstalled, IsFirst, Fails
<1>7. CASE Decide
  BY <1>7 DEF Decide, BeginRuns, BeginInstalls
<1>8. CASE Answer
  BY <1>8 DEF Answer
<1>9. CASE Unanswered
  BY <1>9 DEF Unanswered, BeginRuns
<1>10. ASSUME NEW n \in Names, Decline(n) PROVE Consent'
  BY <1>10 DEF Decline, IsFirst, Fails
<1>11. ASSUME NEW n \in Names, InstallScript(n) PROVE Consent'
  BY <1>11 DEF InstallScript, IsFirst, Fails, Writes
<1>12. CASE Installed
  BY <1>12 DEF Installed, BeginRuns
<1>13. ASSUME NEW n \in Names, RunStatusScript(n) PROVE Consent'
  BY <1>13 DEF RunStatusScript, IsFirst, Fails
<1>14. CASE Ran
  BY <1>14 DEF Ran
<1>15. CASE RenderOnce
  BY <1>15 DEF RenderOnce
<1>16. CASE Tick
  BY <1>16 DEF Tick
<1>17. CASE Stop
  BY <1>17 DEF Stop
<1>18. CASE Interrupt
  BY <1>18 DEF Interrupt, Notify
<1>19. CASE Kill
  BY <1>19 DEF Kill, Writes, IsFirst
<1>20. ASSUME NEW n \in Names, Recreate(n) PROVE Consent'
  BY <1>20 DEF Recreate, Changes
<1>21. ASSUME NEW n \in Names, Come(n) PROVE Consent'
  BY <1>21 DEF Come, Changes
<1>22. ASSUME NEW n \in Names, Go(n) PROVE Consent'
  BY <1>22 DEF Go, Changes
<1>23. CASE UNCHANGED vars
  BY <1>23 DEF vars
<1> QED
  BY <1>1, <1>2, <1>3, <1>4, <1>5, <1>6, <1>7, <1>8, <1>9, <1>10, <1>11,
     <1>12, <1>13, <1>14, <1>15, <1>16, <1>17, <1>18, <1>19, <1>20, <1>21,
     <1>22, <1>23 DEF Next, Moves

\* Every loop begins with what it has to handle.
LEMMA ShapeStep ==
  ASSUME Data, Shape, [Next]_vars PROVE Shape'
<1> USE DEF Data, Shape, Asking, Goes, Ends, Fault, NoFault, Collected, world,
       report, ghosts
<1>1. CASE Start
  BY <1>1, View DEF Start
<1>2. CASE ResolveIndexes
  BY <1>2, View DEF ResolveIndexes
<1>3. CASE ListPods
  BY <1>3, View DEF ListPods, Listed, NotListed, Blank
<1>4. CASE EngineNames
  BY <1>4, View DEF EngineNames, NotListed, Blank
<1>5. CASE Inspect
  BY <1>5, View DEF Inspect, Listed, NotListed
<1>6. ASSUME NEW n \in Names, ScriptInstalled(n) PROVE Shape'
  BY <1>6, View DEF ScriptInstalled, IsFirst, Fails
<1>7. CASE Decide
  BY <1>7, View DEF Decide, BeginRuns, BeginInstalls
<1>8. CASE Answer
  BY <1>8, View DEF Answer
<1>9. CASE Unanswered
  BY <1>9, View DEF Unanswered, BeginRuns
<1>10. ASSUME NEW n \in Names, Decline(n) PROVE Shape'
  BY <1>10, View DEF Decline, IsFirst, Fails
<1>11. ASSUME NEW n \in Names, InstallScript(n) PROVE Shape'
  BY <1>11, View DEF InstallScript, IsFirst, Fails, Writes
<1>12. CASE Installed
  BY <1>12, View DEF Installed, BeginRuns
<1>13. ASSUME NEW n \in Names, RunStatusScript(n) PROVE Shape'
  BY <1>13, View DEF RunStatusScript, IsFirst, Fails
<1>14. CASE Ran
  BY <1>14, View DEF Ran
<1>15. CASE RenderOnce
  BY <1>15, View DEF RenderOnce
<1>16. CASE Tick
  BY <1>16, View DEF Tick
<1>17. CASE Stop
  BY <1>17, View DEF Stop
<1>18. CASE Interrupt
  BY <1>18, View DEF Interrupt, Notify
<1>19. CASE Kill
  BY <1>19, View DEF Kill, Writes, IsFirst
<1>20. ASSUME NEW n \in Names, Recreate(n) PROVE Shape'
  BY <1>20, View DEF Recreate, Changes
<1>21. ASSUME NEW n \in Names, Come(n) PROVE Shape'
  BY <1>21, View DEF Come, Changes
<1>22. ASSUME NEW n \in Names, Go(n) PROVE Shape'
  BY <1>22, View DEF Go, Changes
<1>23. CASE UNCHANGED vars
  BY <1>23 DEF vars
<1> QED
  BY <1>1, <1>2, <1>3, <1>4, <1>5, <1>6, <1>7, <1>8, <1>9, <1>10, <1>11,
     <1>12, <1>13, <1>14, <1>15, <1>16, <1>17, <1>18, <1>19, <1>20, <1>21,
     <1>22, <1>23 DEF Next, Moves

\* No listed instance is lost, and none is answered twice.
LEMMA AccountedStep ==
  ASSUME Data, Shape, Accounted, [Next]_vars PROVE Accounted'
<1> USE DEF Data, Shape, Accounted, Undecided, Asking, Goes, Ends, Fault,
       NoFault, Collected, world, report, ghosts
<1>1. CASE Start
  BY <1>1, View DEF Start
<1>2. CASE ResolveIndexes
  BY <1>2, View DEF ResolveIndexes
<1>3. CASE ListPods
  BY <1>3, View DEF ListPods, Listed, NotListed, Blank
<1>4. CASE EngineNames
  BY <1>4, View DEF EngineNames, NotListed, Blank
<1>5. CASE Inspect
  BY <1>5, View DEF Inspect, Listed, NotListed
<1>6. ASSUME NEW n \in Names, ScriptInstalled(n) PROVE Accounted'
  BY <1>6, View DEF ScriptInstalled, IsFirst, Fails
<1>7. CASE Decide
  BY <1>7, View DEF Decide, BeginRuns, BeginInstalls
<1>8. CASE Answer
  BY <1>8, View DEF Answer
<1>9. CASE Unanswered
  BY <1>9, View DEF Unanswered, BeginRuns
<1>10. ASSUME NEW n \in Names, Decline(n) PROVE Accounted'
  BY <1>10, View DEF Decline, IsFirst, Fails
<1>11. ASSUME NEW n \in Names, InstallScript(n) PROVE Accounted'
  BY <1>11, View DEF InstallScript, IsFirst, Fails, Writes
<1>12. CASE Installed
  BY <1>12, View DEF Installed, BeginRuns
<1>13. ASSUME NEW n \in Names, RunStatusScript(n) PROVE Accounted'
  BY <1>13, View DEF RunStatusScript, IsFirst, Fails
<1>14. CASE Ran
  BY <1>14, View DEF Ran
<1>15. CASE RenderOnce
  BY <1>15, View DEF RenderOnce
<1>16. CASE Tick
  BY <1>16, View DEF Tick
<1>17. CASE Stop
  BY <1>17, View DEF Stop
<1>18. CASE Interrupt
  BY <1>18, View DEF Interrupt, Notify
<1>19. CASE Kill
  BY <1>19, View DEF Kill, Writes, IsFirst
<1>20. ASSUME NEW n \in Names, Recreate(n) PROVE Accounted'
  BY <1>20, View DEF Recreate, Changes
<1>21. ASSUME NEW n \in Names, Come(n) PROVE Accounted'
  BY <1>21, View DEF Come, Changes
<1>22. ASSUME NEW n \in Names, Go(n) PROVE Accounted'
  BY <1>22, View DEF Go, Changes
<1>23. CASE UNCHANGED vars
  BY <1>23 DEF vars
<1> QED
  BY <1>1, <1>2, <1>3, <1>4, <1>5, <1>6, <1>7, <1>8, <1>9, <1>10, <1>11,
     <1>12, <1>13, <1>14, <1>15, <1>16, <1>17, <1>18, <1>19, <1>20, <1>21,
     <1>22, <1>23 DEF Next, Moves

\* failed is set with every error and with nothing else.
LEMMA CountedStep ==
  ASSUME Data, Flags, Shape, Accounted, Counted, [Next]_vars PROVE Counted'
<1> USE DEF Data, Flags, Shape, Accounted, Undecided, Counted, Asking, Goes,
       Ends, Fault, NoFault, Collected, world, report, ghosts
<1>1. CASE Start
  BY <1>1, View DEF Start
<1>2. CASE ResolveIndexes
  BY <1>2, View DEF ResolveIndexes
<1>3. CASE ListPods
  BY <1>3, View DEF ListPods, Listed, NotListed, Blank
<1>4. CASE EngineNames
  BY <1>4, View DEF EngineNames, NotListed, Blank
<1>5. CASE Inspect
  BY <1>5, View DEF Inspect, Listed, NotListed
<1>6. ASSUME NEW n \in Names, ScriptInstalled(n) PROVE Counted'
  BY <1>6, View DEF ScriptInstalled, IsFirst, Fails
<1>7. CASE Decide
  BY <1>7, View DEF Decide, BeginRuns, BeginInstalls
<1>8. CASE Answer
  BY <1>8, View DEF Answer
<1>9. CASE Unanswered
  BY <1>9, View DEF Unanswered, BeginRuns
<1>10. ASSUME NEW n \in Names, Decline(n) PROVE Counted'
  BY <1>10, View DEF Decline, IsFirst, Fails
<1>11. ASSUME NEW n \in Names, InstallScript(n) PROVE Counted'
  BY <1>11, View DEF InstallScript, IsFirst, Fails, Writes
<1>12. CASE Installed
  BY <1>12, View DEF Installed, BeginRuns
<1>13. ASSUME NEW n \in Names, RunStatusScript(n) PROVE Counted'
  BY <1>13, View DEF RunStatusScript, IsFirst, Fails
<1>14. CASE Ran
  BY <1>14, View DEF Ran
<1>15. CASE RenderOnce
  BY <1>15, View DEF RenderOnce
<1>16. CASE Tick
  BY <1>16, View DEF Tick
<1>17. CASE Stop
  BY <1>17, View DEF Stop
<1>18. CASE Interrupt
  BY <1>18, View DEF Interrupt, Notify
<1>19. CASE Kill
  BY <1>19, View DEF Kill, Writes, IsFirst
<1>20. ASSUME NEW n \in Names, Recreate(n) PROVE Counted'
  BY <1>20, View DEF Recreate, Changes
<1>21. ASSUME NEW n \in Names, Come(n) PROVE Counted'
  BY <1>21, View DEF Come, Changes
<1>22. ASSUME NEW n \in Names, Go(n) PROVE Counted'
  BY <1>22, View DEF Go, Changes
<1>23. CASE UNCHANGED vars
  BY <1>23 DEF vars
<1> QED
  BY <1>1, <1>2, <1>3, <1>4, <1>5, <1>6, <1>7, <1>8, <1>9, <1>10, <1>11,
     <1>12, <1>13, <1>14, <1>15, <1>16, <1>17, <1>18, <1>19, <1>20, <1>21,
     <1>22, <1>23 DEF Next, Moves

\* A collection that was told to install does.
LEMMA AgreementStep ==
  ASSUME Flags, Consent, Agreement, [Next]_vars PROVE Agreement'
<1> USE DEF Flags, Consent, Agreement, Goes, Ends, Fault, NoFault, Collected,
       world, report, ghosts
<1>1. CASE Start
  BY <1>1 DEF Start
<1>2. CASE ResolveIndexes
  BY <1>2 DEF ResolveIndexes
<1>3. CASE ListPods
  BY <1>3 DEF ListPods, Listed, NotListed, Blank
<1>4. CASE EngineNames
  BY <1>4 DEF EngineNames, NotListed, Blank
<1>5. CASE Inspect
  BY <1>5 DEF Inspect, Listed, NotListed
<1>6. ASSUME NEW n \in Names, ScriptInstalled(n) PROVE Agreement'
  BY <1>6 DEF ScriptInstalled, IsFirst, Fails
<1>7. CASE Decide
  BY <1>7 DEF Decide, BeginRuns, BeginInstalls
<1>8. CASE Answer
  BY <1>8 DEF Answer
<1>9. CASE Unanswered
  BY <1>9 DEF Unanswered, BeginRuns
<1>10. ASSUME NEW n \in Names, Decline(n) PROVE Agreement'
  BY <1>10 DEF Decline, IsFirst, Fails
<1>11. ASSUME NEW n \in Names, InstallScript(n) PROVE Agreement'
  BY <1>11 DEF InstallScript, IsFirst, Fails, Writes
<1>12. CASE Installed
  BY <1>12 DEF Installed, BeginRuns
<1>13. ASSUME NEW n \in Names, RunStatusScript(n) PROVE Agreement'
  BY <1>13 DEF RunStatusScript, IsFirst, Fails
<1>14. CASE Ran
  BY <1>14 DEF Ran
<1>15. CASE RenderOnce
  BY <1>15 DEF RenderOnce
<1>16. CASE Tick
  BY <1>16 DEF Tick
<1>17. CASE Stop
  BY <1>17 DEF Stop
<1>18. CASE Interrupt
  BY <1>18 DEF Interrupt, Notify
<1>19. CASE Kill
  BY <1>19 DEF Kill, Writes, IsFirst
<1>20. ASSUME NEW n \in Names, Recreate(n) PROVE Agreement'
  BY <1>20 DEF Recreate, Changes
<1>21. ASSUME NEW n \in Names, Come(n) PROVE Agreement'
  BY <1>21 DEF Come, Changes
<1>22. ASSUME NEW n \in Names, Go(n) PROVE Agreement'
  BY <1>22 DEF Go, Changes
<1>23. CASE UNCHANGED vars
  BY <1>23 DEF vars
<1> QED
  BY <1>1, <1>2, <1>3, <1>4, <1>5, <1>6, <1>7, <1>8, <1>9, <1>10, <1>11,
     <1>12, <1>13, <1>14, <1>15, <1>16, <1>17, <1>18, <1>19, <1>20, <1>21,
     <1>22, <1>23 DEF Next, Moves

\* While nothing happens every call on an instance succeeds.
LEMMA QuietStep ==
  ASSUME Data, Consent, Shape, Accounted, Agreement, Quiet, [Next]_vars
  PROVE  Quiet'
<1> USE DEF Data, Consent, Shape, Accounted, Undecided, Agreement, Quiet,
       Asking, Goes, Ends, Fault, NoFault, Collected, world, report, ghosts
<1>1. CASE Start
  BY <1>1, View DEF Start
<1>2. CASE ResolveIndexes
  BY <1>2, View DEF ResolveIndexes
<1>3. CASE ListPods
  BY <1>3, View DEF ListPods, Listed, NotListed, Blank
<1>4. CASE EngineNames
  BY <1>4, View DEF EngineNames, NotListed, Blank
<1>5. CASE Inspect
  BY <1>5, View DEF Inspect, Listed, NotListed
<1>6. ASSUME NEW n \in Names, ScriptInstalled(n) PROVE Quiet'
  <2>1. CASE quiet' = FALSE
    BY <2>1
  <2>2. CASE UNCHANGED quiet /\ quiet
    <3>1. n \in listed /\ n \in live
      BY <1>6, <2>2 DEF ScriptInstalled, IsFirst
    <3>2. error[n] = "none"
      BY <1>6, <3>1 DEF ScriptInstalled, IsFirst
    <3> QED
      BY <1>6, <2>2, <3>1, <3>2 DEF ScriptInstalled, IsFirst, Fails
  <2>3. CASE UNCHANGED quiet /\ ~quiet
    BY <2>3
  <2> QED
    BY <1>6, <2>1, <2>2, <2>3 DEF ScriptInstalled
<1>7. CASE Decide
  BY <1>7, View DEF Decide, BeginRuns, BeginInstalls
<1>8. CASE Answer
  BY <1>8, View DEF Answer
<1>9. CASE Unanswered
  BY <1>9, View DEF Unanswered, BeginRuns
<1>10. ASSUME NEW n \in Names, Decline(n) PROVE Quiet'
  BY <1>10, View DEF Decline, IsFirst, Fails
<1>11. ASSUME NEW n \in Names, InstallScript(n) PROVE Quiet'
  <2>1. CASE quiet' = FALSE
    BY <2>1
  <2>2. CASE UNCHANGED quiet /\ quiet
    <3>1. n \in listed /\ n \in live
      BY <1>11, <2>2 DEF InstallScript, IsFirst
    <3>2. error[n] = "none"
      BY <1>11, <3>1 DEF InstallScript, IsFirst
    <3> QED
      BY <1>11, <2>2, <3>1, <3>2 DEF InstallScript, IsFirst, Fails, Writes
  <2>3. CASE UNCHANGED quiet /\ ~quiet
    BY <2>3
  <2> QED
    BY <1>11, <2>1, <2>2, <2>3 DEF InstallScript
<1>12. CASE Installed
  BY <1>12, View DEF Installed, BeginRuns
<1>13. ASSUME NEW n \in Names, RunStatusScript(n) PROVE Quiet'
  <2>1. CASE quiet' = FALSE
    BY <2>1
  <2>2. CASE UNCHANGED quiet /\ quiet
    <3>1. n \in listed /\ n \in live
      BY <1>13, <2>2 DEF RunStatusScript, IsFirst
    <3>2. error[n] = "none"
      BY <1>13, <3>1 DEF RunStatusScript, IsFirst
    <3> QED
      BY <1>13, <2>2, <3>1, <3>2 DEF RunStatusScript, IsFirst, Fails
  <2>3. CASE UNCHANGED quiet /\ ~quiet
    BY <2>3
  <2> QED
    BY <1>13, <2>1, <2>2, <2>3 DEF RunStatusScript
<1>14. CASE Ran
  BY <1>14, View DEF Ran
<1>15. CASE RenderOnce
  BY <1>15, View DEF RenderOnce
<1>16. CASE Tick
  BY <1>16, View DEF Tick
<1>17. CASE Stop
  BY <1>17, View DEF Stop
<1>18. CASE Interrupt
  BY <1>18, View DEF Interrupt, Notify
<1>19. CASE Kill
  BY <1>19, View DEF Kill, Writes, IsFirst
<1>20. ASSUME NEW n \in Names, Recreate(n) PROVE Quiet'
  BY <1>20, View DEF Recreate, Changes
<1>21. ASSUME NEW n \in Names, Come(n) PROVE Quiet'
  BY <1>21, View DEF Come, Changes
<1>22. ASSUME NEW n \in Names, Go(n) PROVE Quiet'
  BY <1>22, View DEF Go, Changes
<1>23. CASE UNCHANGED vars
  BY <1>23 DEF vars
<1> QED
  BY <1>1, <1>2, <1>3, <1>4, <1>5, <1>6, <1>7, <1>8, <1>9, <1>10, <1>11,
     <1>12, <1>13, <1>14, <1>15, <1>16, <1>17, <1>18, <1>19, <1>20, <1>21,
     <1>22, <1>23 DEF Next, Moves

LEMMA InitInv == Init => IInv
<1> SUFFICES ASSUME Init PROVE IInv
  OBVIOUS
<1>1. Flags
  BY DEF Init, Flags
<1>2. Data
  BY Bound DEF Init, Data, Scripts, Settings
<1>3. Consent /\ Shape /\ Accounted /\ Counted /\ Agreement /\ Quiet
  BY DEF Init, Consent, Shape, Accounted, Counted, Agreement, Quiet, Asking
<1> QED
  BY <1>1, <1>2, <1>3 DEF IInv

LEMMA NextInv == IInv /\ [Next]_vars => IInv'
<1> SUFFICES ASSUME IInv, [Next]_vars PROVE IInv'
  OBVIOUS
<1>1. opt.install \in BOOLEAN
  BY View DEF IInv, Data
<1> QED
  BY <1>1, FlagsStep, DataStep, ConsentStep, ShapeStep, AccountedStep,
     CountedStep, AgreementStep, QuietStep DEF IInv

(***************************************************************************)
(* Theorems                                                                *)
(***************************************************************************)
\* Every variable of a status run keeps its type, whatever happens to the
\* instances and the calls (statusCollector, status.go).
THEOREM TypeCorrect == Spec => []TypeOK
<1>1. IInv => TypeOK
  BY DEF IInv, Flags, Data, Consent, TypeOK
<1> QED
  BY InitInv, NextInv, <1>1, PTL DEF Spec

\* A watch asks at most once, and writes only into the instances the operator
\* agreed to (promptedInstall and confirmInstall, status.go).
THEOREM ConsentHolds == Spec => []ConsentCovers
<1>1. IInv => ConsentCovers
  BY DEF IInv, Consent, ConsentCovers
<1> QED
  BY InitInv, NextInv, <1>1, PTL DEF Spec

\* A report accounts for every instance it lists, a failed collection has an
\* error to show, and with leave to install and nothing in the way only an
\* unfinished script is an error (collectApplication, status.go).
THEOREM EveryReportAccounts == Spec => []ReportAccounts
<1>1. ASSUME IInv, pc = "report", opt.view = "application", quiet,
             opt.install \/ agreed
      PROVE  \A n \in listed : error[n] = "none"
                               \/ (error[n] = "run" /\ script[n] = "half")
  BY <1>1 DEF IInv, Quiet
<1>2. IInv => ReportAccounts
  BY <1>1 DEF IInv, Accounted, Counted, ReportAccounts
<1> QED
  BY InitInv, NextInv, <1>2, PTL DEF Spec
=============================================================================
