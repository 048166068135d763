------------------------------- MODULE StatusRun -------------------------------
(***************************************************************************)
(* A status run (cmd/solmq-conn-util/status.go and instances.go): the      *)
(* names the operator typed are resolved once, and every collection lists  *)
(* the instances, asks each for the status script, asks the operator once  *)
(* what to do where it is missing, installs it, and runs it.  Each of      *)
(* these is one call of the engine, and instances come, go, and are made   *)
(* anew without the script between any two.  Under --watch collections     *)
(* follow one another until Ctrl-C.                                        *)
(*                                                                         *)
(* Abstracted: a script is the settings (port and account) it was rendered *)
(* with, or what an install that was cut short left of it; an application  *)
(* block is the script that printed it.  The reads that only add columns   *)
(* or notes to a report (workload, resource use, digests, restart counts,  *)
(* referenced objects) cannot change the course of a run and are left out. *)
(* A name typed twice is one name.                                         *)
(***************************************************************************)
EXTENDS Naturals, FiniteSets

CONSTANTS
  Names,       \* instances there may be
  Rank,        \* their alphabetical order
  Digits,      \* what the all-digit spellings are as indices
  Configured,  \* the container env.yaml describes
  Options,     \* the command lines considered
  MaxEvents    \* bound on the changes and failed calls of a run

Spellings == Names \cup DOMAIN Digits
Settings  == {"own", "other"}
Scripts   == Settings \cup {"none", "half"}
CommandLines ==
  [platform : {"kubernetes", "engine"}, view : {"application", "container"},
   typed : SUBSET Spellings, all : BOOLEAN,
   install : BOOLEAN, watch : BOOLEAN, tty : BOOLEAN]

ASSUME StatusAssumption ==
  /\ Rank \in [Names -> Nat]
  /\ \A m, n \in Names : Rank[m] = Rank[n] => m = n
  /\ \A e \in DOMAIN Digits : Digits[e] \in Nat
  /\ Configured \in Names
  /\ Options \subseteq CommandLines
  /\ \A o \in Options : /\ o.all => o.typed = {}
                        /\ o.view = "container" => ~o.install
  /\ MaxEvents \in Nat

VARIABLES
  live,       \* the instances that exist
  script,     \* script[n]: the file at ContainerPath in n
  opt,        \* o: the command line
  names,      \* o.pods or o.conts, resolved
  pc,         \* where the run is
  listed,     \* rep.Instances
  todo,       \* those of them the current loop has still to handle
  missing,    \* missing
  present,    \* present
  do,         \* doInstall
  app,        \* app[n]: n's application block, or none
  error,      \* error[n]: n's error, or none
  failed,     \* failed
  prompted,   \* c.promptedInstall
  pending,    \* the stop channel holds an interrupt
  exit,       \* the exit code, or why there is none
  asked,      \* ghost: the questions asked
  shown,      \* ghost: the instances a question named that was answered yes
  wrote,      \* ghost: the instances this run wrote a script in
  pressed,    \* ghost: Ctrl-C was pressed
  quiet,      \* ghost: no event since the listing
  agreed,     \* ghost: this collection's question was answered yes
  events      \* changes and failed calls so far

world  == <<live, script>>
report == <<listed, todo, missing, present, do, app, error, failed>>
ghosts == <<asked, shown, wrote, pressed, quiet, agreed, events>>
vars   == <<world, opt, names, pc, report, prompted, pending, exit, ghosts>>

(***************************************************************************)
(* Order and indices                                                       *)
(***************************************************************************)
IsFirst(n, S) == n \in S /\ \A m \in S : Rank[n] <= Rank[m]
Position(n, S) == Cardinality({m \in S : Rank[m] < Rank[n]})

\* What a typed entry stands for among the candidates: an exact name wins over
\* the index it spells, and an index out of range stands for nothing.
ResolveOneIndex(e, S) ==
  IF e \in S \/ e \notin DOMAIN Digits THEN {e} \cap Names
  ELSE {n \in S : Position(n, S) = Digits[e]}

\* The instances an index counts in, before any is queried by name.
Candidates == IF opt.platform = "kubernetes" THEN live ELSE {Configured}

(***************************************************************************)
(* Steps                                                                   *)
(***************************************************************************)
\* A call of the engine fails.
Fault == events < MaxEvents /\ events' = events + 1 /\ quiet' = FALSE
NoFault == UNCHANGED <<events, quiet>>

Ends(code) == pc' = "done" /\ exit' = code
Goes(place) == pc' = place /\ UNCHANGED exit

\* A collection is over: watchStatus drops its exit code.
Collected(code) == IF opt.watch THEN Goes("wait") ELSE Ends(code)

Start ==
  /\ pc = "start"
  /\ \/ Goes("resolve") /\ NoFault
     \/ Ends("failed") /\ Fault
  /\ UNCHANGED <<world, opt, names, report, prompted, pending,
                 asked, shown, wrote, pressed, agreed>>

AnyIndex == opt.typed \cap DOMAIN Digits # {}

ResolveIndexes ==
  /\ pc = "resolve"
  /\ LET resolved == UNION {ResolveOneIndex(e, Candidates) : e \in opt.typed}
         strays == \E e \in opt.typed : ResolveOneIndex(e, Candidates) = {}
     IN  \/ ~AnyIndex /\ names' = opt.typed /\ Goes("list") /\ NoFault
         \/ AnyIndex /\ ~strays /\ names' = resolved /\ Goes("list") /\ NoFault
         \/ AnyIndex /\ strays /\ UNCHANGED names /\ Ends("failed") /\ NoFault
         \/ /\ AnyIndex /\ opt.platform = "kubernetes"
            /\ UNCHANGED names /\ Ends("failed") /\ Fault
  /\ UNCHANGED <<world, opt, report, prompted, pending,
                 asked, shown, wrote, pressed, agreed>>

\* A report starts empty.
Blank ==
  /\ app' = [n \in Names |-> "none"] /\ error' = [n \in Names |-> "none"]
  /\ failed' = FALSE /\ missing' = {} /\ present' = {} /\ do' = FALSE
  /\ agreed' = FALSE

\* The instances are known: the container view is complete.
Listed(S) ==
  /\ listed' = S
  /\ IF opt.view = "container" THEN todo' = {} /\ Goes("report")
                               ELSE todo' = S /\ Goes("probe")

NotListed == listed' = {} /\ todo' = {} /\ Collected("failed")

\* `get pods`: all that match, or the named ones, all of which must exist.
ListPods ==
  /\ pc = "list" /\ opt.platform = "kubernetes"
  /\ LET found == IF names = {} THEN live ELSE names
     IN  \/ found # {} /\ found \subseteq live /\ Listed(found)
            /\ quiet' = TRUE /\ UNCHANGED events
         \/ (found = {} \/ ~found \subseteq live) /\ NotListed /\ NoFault
         \/ NotListed /\ Fault
  /\ Blank
  /\ UNCHANGED <<world, opt, names, prompted, pending,
                 asked, shown, wrote, pressed>>

\* Only --all asks the engine which containers there are.
EngineNames ==
  /\ pc = "list" /\ opt.platform = "engine"
  /\ \/ ~opt.all /\ listed' = (IF names = {} THEN {Configured} ELSE names)
        /\ todo' = {} /\ Goes("inspect") /\ NoFault
     \/ opt.all /\ live # {} /\ listed' = live
        /\ todo' = {} /\ Goes("inspect") /\ NoFault
     \/ opt.all /\ live = {} /\ NotListed /\ NoFault
     \/ opt.all /\ NotListed /\ Fault
  /\ Blank
  /\ UNCHANGED <<world, opt, names, prompted, pending,
                 asked, shown, wrote, pressed>>

\* One inspect for all, which fails when any of them is gone.
Inspect ==
  /\ pc = "inspect"
  /\ \/ listed \subseteq live /\ Listed(listed)
        /\ quiet' = TRUE /\ UNCHANGED events
     \/ ~listed \subseteq live /\ NotListed /\ NoFault
     \/ NotListed /\ Fault
  /\ UNCHANGED <<world, opt, names, prompted, pending, missing, present, do,
                 app, error, failed, asked, shown, wrote, pressed, agreed>>

Fails(n, why) == error' = [error EXCEPT ![n] = why] /\ failed' = TRUE

ScriptInstalled(n) ==
  /\ pc = "probe" /\ IsFirst(n, todo)
  /\ todo' = todo \ {n}
  /\ \/ /\ n \in live /\ script[n] # "none"
        /\ present' = present \cup {n}
        /\ UNCHANGED <<missing, error, failed>> /\ NoFault
     \/ /\ n \in live /\ script[n] = "none"
        /\ missing' = missing \cup {n}
        /\ UNCHANGED <<present, error, failed>> /\ NoFault
     \/ n \notin live /\ Fails(n, "probe")
        /\ UNCHANGED <<present, missing>> /\ NoFault
     \/ Fails(n, "probe") /\ UNCHANGED <<present, missing>> /\ Fault
  /\ UNCHANGED <<world, opt, names, pc, listed, do, app, prompted, pending,
                 exit, asked, shown, wrote, pressed, agreed>>

BeginRuns == todo' = present /\ Goes("run")

\* The slip of a run that remembers that it was told to install.
BeginInstallsAgain ==
  todo' = missing /\ do' = (opt.install \/ shown # {}) /\ Goes("install")

\* An operator is asked once in a run; a collection that finds the script
\* missing afterwards goes on with doInstall false.
BeginInstalls == todo' = missing /\ do' = opt.install /\ Goes("install")

Decide ==
  /\ pc = "probe" /\ todo = {}
  /\ \/ missing = {} /\ BeginRuns /\ UNCHANGED <<do, prompted, asked>>
     \/ missing # {} /\ (opt.install \/ prompted)
        /\ BeginInstalls /\ UNCHANGED <<prompted, asked>>
     \/ missing # {} /\ ~opt.install /\ ~prompted
        /\ prompted' = TRUE /\ asked' = asked + 1
        /\ Goes("ask") /\ UNCHANGED <<todo, do>>
  /\ UNCHANGED <<world, opt, names, listed, missing, present, app, error,
                 failed, pending, shown, wrote, pressed, quiet, agreed, events>>

\* Only y and yes install.
Answer ==
  /\ pc = "ask" /\ opt.tty
  /\ \/ do' = TRUE /\ shown' = missing /\ agreed' = TRUE
     \/ do' = FALSE /\ UNCHANGED <<shown, agreed>>
  /\ todo' = missing /\ Goes("install")
  /\ UNCHANGED <<world, opt, names, listed, missing, present, app, error,
                 failed, prompted, pending, asked, wrote, pressed, quiet, events>>

\* The question cannot be asked, or its input ends: the instances that have the
\* script are still run.
Unanswered ==
  /\ pc = "ask"
  /\ error' = [n \in Names |-> IF n \in missing THEN "missing" ELSE error[n]]
  /\ failed' = TRUE /\ missing' = {}
  /\ BeginRuns
  /\ UNCHANGED <<world, opt, names, listed, present, do, app, prompted,
                 pending, ghosts>>

Decline(n) ==
  /\ pc = "install" /\ IsFirst(n, todo) /\ ~do
  /\ todo' = todo \ {n}
  /\ Fails(n, "declined")
  /\ UNCHANGED <<world, opt, names, pc, listed, missing, present, do, app,
                 prompted, pending, exit, ghosts>>

Writes(n, s) == script' = [script EXCEPT ![n] = s] /\ wrote' = wrote \cup {n}

\* The slip of an install that does not count its instance as present.
InstallScriptOnly(n) ==
  /\ pc = "install" /\ IsFirst(n, todo) /\ do
  /\ todo' = todo \ {n}
  /\ \/ n \in live /\ Writes(n, "own")
        /\ UNCHANGED <<error, failed>> /\ NoFault
     \/ n \notin live /\ Fails(n, "install")
        /\ UNCHANGED <<script, wrote>> /\ NoFault
  /\ UNCHANGED <<live, opt, names, pc, listed, missing, present, do, app,
                 prompted, pending, exit, asked, shown, pressed, agreed>>

InstallScript(n) ==
  /\ pc = "install" /\ IsFirst(n, todo) /\ do
  /\ todo' = todo \ {n}
  /\ \/ n \in live /\ Writes(n, "own") /\ present' = present \cup {n}
        /\ UNCHANGED <<error, failed>> /\ NoFault
     \/ n \notin live /\ Fails(n, "install")
        /\ UNCHANGED <<script, wrote, present>> /\ NoFault
     \/ /\ Fails(n, "install") /\ UNCHANGED present /\ Fault
        /\ \/ UNCHANGED <<script, wrote>>
           \/ n \in live /\ \E s \in {"half", "own"} : Writes(n, s)
  /\ UNCHANGED <<live, opt, names, pc, listed, missing, do, app, prompted,
                 pending, exit, asked, shown, pressed, agreed>>

Installed ==
  /\ pc = "install" /\ todo = {}
  /\ BeginRuns
  /\ UNCHANGED <<world, opt, names, listed, missing, present, do, app, error,
                 failed, prompted, pending, ghosts>>

\* The script always exits 0, so an error is the exec's: nothing to run, or no
\* shell that gets through what is left of it.
RunStatusScript(n) ==
  /\ pc = "run" /\ IsFirst(n, todo)
  /\ todo' = todo \ {n}
  /\ \/ n \in live /\ script[n] # "none"
        /\ app' = [app EXCEPT ![n] = script[n]]
        /\ UNCHANGED <<error, failed>> /\ NoFault
     \/ (n \notin live \/ script[n] \in {"none", "half"}) /\ Fails(n, "run")
        /\ UNCHANGED app /\ NoFault
     \/ Fails(n, "run") /\ UNCHANGED app /\ Fault
  /\ UNCHANGED <<world, opt, names, pc, listed, missing, present, do, prompted,
                 pending, exit, asked, shown, wrote, pressed, agreed>>

Ran ==
  /\ pc = "run" /\ todo = {}
  /\ Goes("report")
  /\ UNCHANGED <<world, opt, names, report, prompted, pending, ghosts>>

RenderOnce ==
  /\ pc = "report"
  /\ Collected(IF failed THEN "failed" ELSE "ok")
  /\ UNCHANGED <<world, opt, names, report, prompted, pending, ghosts>>

(***************************************************************************)
(* The watch loop                                                          *)
(***************************************************************************)
Tick ==
  /\ pc = "wait" /\ Goes("list")
  /\ UNCHANGED <<world, opt, names, report, prompted, pending, ghosts>>

Stop ==
  /\ pc = "wait" /\ pending /\ Ends("ok")
  /\ UNCHANGED <<world, opt, names, report, prompted, pending, ghosts>>

\* The loop has taken over the signal.
Watching == opt.watch /\ pc \notin {"start", "resolve", "done"}
\* The slip of a channel without a buffer: a signal nobody waits for is lost.
NotifyUnbuffered == pending' = (pc = "wait")

\* The channel holds one signal until the loop looks.
Notify == pending' = TRUE

Interrupt ==
  /\ Watching /\ ~pressed
  /\ Notify /\ pressed' = TRUE
  /\ UNCHANGED <<world, opt, names, pc, report, prompted, exit, asked, shown,
                 wrote, quiet, agreed, events>>

\* Outside the loop Ctrl-C ends the program, and with it an install.
Kill ==
  /\ ~Watching /\ pc # "done"
  /\ pressed' = TRUE /\ Ends("killed")
  /\ \/ UNCHANGED <<script, wrote>>
     \/ \E n \in todo \cap live : pc = "install" /\ IsFirst(n, todo) /\ do
                                  /\ Writes(n, "half")
  /\ UNCHANGED <<live, opt, names, report, prompted, pending, asked, shown,
                 quiet, agreed, events>>

(***************************************************************************)
(* The instances                                                           *)
(***************************************************************************)
Changes ==
  /\ events < MaxEvents /\ events' = events + 1 /\ quiet' = FALSE
  /\ UNCHANGED <<opt, names, pc, report, prompted, pending, exit, asked, shown,
                 wrote, pressed, agreed>>

\* A container is made anew: its script is the one its artifact mounts, if any.
\* Or the script of another operator's run arrives.
Recreate(n) ==
  /\ n \in live /\ Changes
  /\ \E s \in {"none", "other"} : script' = [script EXCEPT ![n] = s]
  /\ UNCHANGED live

Come(n) ==
  /\ n \notin live /\ Changes
  /\ live' = live \cup {n}
  /\ \E s \in {"none", "other"} : script' = [script EXCEPT ![n] = s]

Go(n) ==
  /\ n \in live /\ Changes
  /\ live' = live \ {n} /\ UNCHANGED script

Init ==
  /\ live \in SUBSET Names
  /\ script \in [Names -> Scripts]
  /\ opt \in Options
  /\ names = {} /\ pc = "start"
  /\ listed = {} /\ todo = {} /\ missing = {} /\ present = {} /\ do = FALSE
  /\ app = [n \in Names |-> "none"] /\ error = [n \in Names |-> "none"]
  /\ failed = FALSE /\ prompted = FALSE /\ pending = FALSE /\ exit = "none"
  /\ asked = 0 /\ shown = {} /\ wrote = {} /\ pressed = FALSE
  /\ quiet = TRUE /\ agreed = FALSE /\ events = 0

\* Steps of the run itself, each of which returns.
Moves ==
  \/ Start \/ ResolveIndexes \/ ListPods \/ EngineNames \/ Inspect
  \/ Decide \/ Unanswered \/ Installed \/ Ran \/ RenderOnce \/ Tick
  \/ \E n \in Names : \/ ScriptInstalled(n) \/ Decline(n)
                      \/ InstallScript(n) \/ RunStatusScript(n)

Next ==
  \/ Moves \/ Answer \/ Stop \/ Interrupt \/ Kill
  \/ \E n \in Names : Recreate(n) \/ Come(n) \/ Go(n)

Spec == Init /\ [][Next]_vars

\* Every call returns and every question is answered or its input ends; a
\* select that finds both a tick and an interrupt ready takes either at random,
\* and so not the tick for ever.
FairSpec == Spec /\ WF_vars(Moves \/ Answer) /\ SF_vars(Stop)
(***************************************************************************)
(* Properties                                                              *)
(***************************************************************************)
TypeOK ==
  /\ live \subseteq Names /\ script \in [Names -> Scripts]
  /\ opt \in Options /\ names \subseteq Names
  /\ pc \in {"start", "resolve", "list", "inspect", "probe", "ask", "install",
             "run", "report", "wait", "done"}
  /\ listed \subseteq Names /\ todo \subseteq listed
  /\ missing \subseteq listed /\ present \subseteq listed /\ do \in BOOLEAN
  /\ app \in [Names -> Scripts]
  /\ error \in [Names -> {"none", "probe", "missing", "declined", "install", "run"}]
  /\ failed \in BOOLEAN /\ prompted \in BOOLEAN /\ pending \in BOOLEAN
  /\ exit \in {"none", "killed", "failed", "ok"}
  /\ asked \in 0..1 /\ shown \subseteq Names /\ wrote \subseteq Names
  /\ pressed \in BOOLEAN /\ quiet \in BOOLEAN /\ agreed \in BOOLEAN
  /\ events \in 0..MaxEvents

\* A report accounts for every instance it lists: with what its script printed
\* or with why there is none, never both and never neither, and the collection
\* has failed exactly when some instance has an error.  When the script may be
\* installed, and nothing happens meanwhile, the only instance without an answer
\* is one whose script an earlier install left unfinished (collectApplication,
\* status.go).
ReportAccounts ==
  pc = "report" /\ opt.view = "application" =>
    /\ \A n \in listed : app[n] = "none" <=> error[n] # "none"
    /\ failed <=> \E n \in listed : error[n] # "none"
    /\ quiet /\ (opt.install \/ agreed) =>
         \A n \in listed : error[n] = "none" \/ (error[n] = "run" /\ script[n] = "half")

\* However long a watch lasts the operator is asked at most once, and unless
\* --install was given the run writes only into instances that were named in the
\* question when it was answered yes (promptedInstall, status.go).
ConsentCovers ==
  /\ asked <= 1
  /\ wrote \subseteq (IF opt.install THEN Names ELSE shown)

\* A run that is not a watch ends, and Ctrl-C ends a watch: one pressed in the
\* middle of a collection is kept until the loop looks for it, also when the
\* next tick is due by then (watchStatus, status.go).
RunEnds == (pressed \/ ~opt.watch) ~> pc = "done"
=============================================================================
