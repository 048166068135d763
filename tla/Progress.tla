------------------------------- MODULE Progress -------------------------------
(***************************************************************************)
(* The progress line of a status run (cmd/solmq-conn-util/progress.go, and *)
(* its callers in status.go): the one goroutine this tool runs beside a    *)
(* signal watcher, which redraws a line of the terminal the run itself     *)
(* asks its question and prints its report on.                             *)
(*                                                                         *)
(* A run calls step before each slow call, pause around the one question,  *)
(* and stop before the report and at its end.  Each ends the step in       *)
(* flight: it closes the frame goroutine's quit channel, waits for it to   *)
(* exit, and then blanks the line.                                         *)
(*                                                                         *)
(* Abstracted: a label is its length, the elapsed seconds the length of    *)
(* their text, and what is on the terminal's current row the number of     *)
(* columns of it that a live line has written.  The off mode draws nothing *)
(* and has no states of its own.                                           *)
(***************************************************************************)
EXTENDS Naturals, FiniteSets

CONSTANTS
  Labels,     \* lengths of the labels of steps
  MaxSteps,   \* bound on the steps of a run
  HeadLen,    \* length of a frame and its space
  MaxTail,    \* bound on the length of the elapsed seconds
  LineWidth   \* progressLineWidth: the row of the narrowest terminal

ASSUME ProgressAssumption ==
  /\ Labels \subseteq Nat \ {0} /\ MaxSteps \in Nat \ {0}
  /\ HeadLen \in Nat \ {0} /\ MaxTail \in Nat /\ LineWidth \in Nat
  /\ HeadLen + MaxTail < LineWidth

VARIABLES
  mode,     \* spinner or steps (--verbose)
  label,    \* p.label's length, 0 when no step is in flight
  tail,     \* the length of the elapsed seconds of the step
  width,    \* p.width: the widest live line since the last erase
  shown,    \* columns of the terminal's row a live line has written
  last,     \* the length of the live line written last
  quit,     \* p.quit: the goroutine it belongs to, 0 for nil
  closed,   \* the goroutines whose quit channel is closed
  frames,   \* frames[g]: where goroutine g is
  lock,     \* p.mu: who holds it
  main,     \* where the run is
  call,     \* the progress method it is in, and what it returns to
  steps,    \* steps so far; the n-th starts goroutine n, if any
  spoiled,  \* text was written on a row that still held a live line
  asked,    \* c.promptedInstall: the one question has been asked
  failed    \* the run ended with an error before the collection

vars == <<mode, label, tail, width, shown, last, quit, closed, frames, lock,
          main, call, steps, spoiled, asked, failed>>

line   == <<label, tail, width, shown, last>>
others == <<mode, steps, spoiled, asked, failed>>

Frames == 1..MaxSteps
Alive(g) == frames[g] \notin {"unborn", "exited"}

(***************************************************************************)
(* The line                                                                *)
(***************************************************************************)
Least(a, b) == IF a < b THEN a ELSE b
Most(a, b)  == IF a < b THEN b ELSE a

\* Mutant of ProgressTrim: the label is written whole.
NoTrim(n, w) == n

ProgressTrim(n, w) == Least(n, w)

LineLen(l, t) == HeadLen + ProgressTrim(l, LineWidth - HeadLen - t) + t

\* Back to column 0 and the line again: what was longer stays on the row.
Draw(l, t, w, s) ==
  LET len == LineLen(l, t)
  IN /\ last' = len /\ width' = Most(w, len) /\ shown' = Most(s, len)
     /\ label' = l /\ tail' = t

(***************************************************************************)
(* The run                                                                 *)
(***************************************************************************)

\* Every method begins with quiesce.
Enter(method, l, to) ==
  /\ call' = [method |-> method, label |-> l, to |-> to, joins |-> 0]
  /\ main' = "quiesce"

\* While it makes its slow calls the run goes from step to step.
Step(l) ==
  /\ main \in {"preflight", "collect"} /\ steps < MaxSteps
  /\ steps' = steps + 1
  /\ Enter("step", l, main)
  /\ UNCHANGED <<line, quit, closed, frames, lock, mode, spoiled, asked, failed>>

BeginCollect ==
  /\ main = "preflight" /\ main' = "collect"
  /\ UNCHANGED <<line, quit, closed, frames, lock, call, others>>

\* Mutant of Pause: the question is asked over the step in flight.
AskWithoutStop ==
  /\ main = "collect" /\ ~asked /\ asked' = TRUE
  /\ main' = "prompt"
  /\ UNCHANGED <<line, quit, closed, frames, lock, call, mode, steps, spoiled,
                 failed>>

\* confirmInstall asks inside pause, once in a run.
Pause ==
  /\ main = "collect" /\ ~asked /\ asked' = TRUE
  /\ Enter("stop", 0, "prompt")
  /\ UNCHANGED <<line, quit, closed, frames, lock, mode, steps, spoiled, failed>>

\* collect defers stop; the report is printed after it.
EndCollect ==
  /\ main = "collect"
  /\ Enter("stop", 0, "report")
  /\ UNCHANGED <<line, quit, closed, frames, lock, others>>

\* The question, the report and the error are written on the row as it is.
Write(at, to) ==
  /\ main = at /\ main' = to
  /\ spoiled' = (spoiled \/ shown > 0)
  /\ shown' = 0
  /\ UNCHANGED <<label, tail, width, last, quit, closed, frames, lock, call,
                 mode, steps, asked>>

Ask    == Write("prompt", "collect") /\ UNCHANGED failed
Report == Write("report", "return") /\ UNCHANGED failed

\* A failed preflight, or an index that names no instance, is reported where
\* it is found; only the deferred stop comes after it.
Fail == steps > 0 /\ Write("preflight", "return") /\ failed' = TRUE

Return ==
  /\ main = "return"
  /\ Enter("stop", 0, "done")
  /\ UNCHANGED <<line, quit, closed, frames, lock, others>>

\* quiesce: take the channels off p ...
Quiesce ==
  /\ main = "quiesce" /\ lock = "none"
  /\ call' = [call EXCEPT !.joins = quit]
  /\ quit' = 0
  /\ main' = IF quit = 0 THEN "finish" ELSE "close"
  /\ UNCHANGED <<line, closed, frames, lock, others>>

\* Mutant of Close: the goroutine is not told to quit.
CloseNothing ==
  /\ main = "close" /\ main' = "join"
  /\ UNCHANGED <<line, quit, closed, frames, lock, call, others>>

\* ... close quit ...
Close ==
  /\ main = "close" /\ main' = "join"
  /\ closed' = closed \cup {call.joins}
  /\ UNCHANGED <<line, quit, frames, lock, call, others>>

\* Mutant of Join: quiesce does not wait.
NoJoin ==
  /\ main = "join"
  /\ main' = "finish"
  /\ UNCHANGED <<line, quit, closed, frames, lock, call, others>>

\* ... and wait until the goroutine has exited.
Join ==
  /\ main = "join" /\ frames[call.joins] = "exited"
  /\ main' = "finish"
  /\ UNCHANGED <<line, quit, closed, frames, lock, call, others>>

TakeLock ==
  /\ main = "finish" /\ lock = "none"
  /\ lock' = "main" /\ main' = "locked"
  /\ UNCHANGED <<line, quit, closed, frames, call, others>>

\* finishLocked: the line is blanked as wide as it ever was (--verbose prints
\* a durable line instead).
Blanked == IF shown <= width THEN 0 ELSE shown

FinishStop ==
  /\ main = "locked" /\ call.method = "stop"
  /\ IF label # 0 /\ mode = "spinner"
     THEN shown' = Blanked /\ width' = 0
     ELSE UNCHANGED <<shown, width>>
  /\ label' = 0 /\ tail' = 0 /\ last' = 0
  /\ lock' = "none" /\ main' = call.to
  /\ UNCHANGED <<quit, closed, frames, call, others>>

\* The step in flight is finished, the new one's first line is drawn and its
\* frame goroutine started, all under the lock.
BeginStep ==
  /\ main = "locked" /\ call.method = "step"
  /\ IF mode = "spinner"
     THEN /\ IF label # 0 THEN Draw(call.label, 0, 0, Blanked)
                          ELSE Draw(call.label, 0, width, shown)
          /\ IF quit = 0
             THEN quit' = steps /\ frames' = [frames EXCEPT ![steps] = "select"]
             ELSE UNCHANGED <<quit, frames>>
     ELSE /\ label' = call.label /\ tail' = 0
          /\ UNCHANGED <<width, shown, last, quit, frames>>
  /\ lock' = "none" /\ main' = call.to
  /\ UNCHANGED <<closed, call, others>>

(***************************************************************************)
(* The frame goroutine                                                     *)
(***************************************************************************)
Move(g, from, to) == frames[g] = from /\ frames' = [frames EXCEPT ![g] = to]

\* When both channels are ready, select takes either.
Exit(g) ==
  /\ g \in closed /\ Move(g, "select", "exited")
  /\ UNCHANGED <<line, quit, closed, lock, main, call, others>>

Tick(g) ==
  /\ Move(g, "select", "tick")
  /\ UNCHANGED <<line, quit, closed, lock, main, call, others>>

LockFrame(g) ==
  /\ lock = "none" /\ lock' = "frame"
  /\ Move(g, "tick", "frame")
  /\ UNCHANGED <<line, quit, closed, main, call, others>>

\* A frame, the seconds perhaps grown, if a step is in flight.
DrawFrame(g) ==
  /\ Move(g, "frame", "select")
  /\ lock' = "none"
  /\ IF label # 0
     THEN \E t \in tail..MaxTail : Draw(label, t, width, shown)
     ELSE UNCHANGED line
  /\ UNCHANGED <<quit, closed, main, call, others>>

-----------------------------------------------------------------------------
Init ==
  /\ mode \in {"spinner", "steps"}
  /\ label = 0 /\ tail = 0 /\ width = 0 /\ shown = 0 /\ last = 0
  /\ quit = 0 /\ closed = {} /\ frames = [g \in Frames |-> "unborn"]
  /\ lock = "none" /\ main = "preflight"
  /\ call = [method |-> "stop", label |-> 0, to |-> "preflight", joins |-> 0]
  /\ steps = 0 /\ spoiled = FALSE /\ asked = FALSE /\ failed = FALSE

\* The run goes on by itself once it is in a method, has something to write, or
\* has answers for all its calls.
Runs ==
  \/ Ask \/ Report \/ Return
  \/ Quiesce \/ Close \/ Join \/ TakeLock \/ FinishStop \/ BeginStep
  \/ BeginCollect \/ EndCollect

Frame(g) == Tick(g) \/ LockFrame(g) \/ DrawFrame(g)

Done == main = "done" /\ UNCHANGED vars

Next ==
  \/ Runs \/ Pause \/ Fail \/ Done
  \/ \E l \in Labels : Step(l)
  \/ \E g \in Frames : Frame(g) \/ Exit(g)

Spec == Init /\ [][Next]_vars

\* Goroutines are scheduled.  A select that finds quit closed every time it
\* looks takes it in the end, and a mutex is not kept from one who waits for it:
\* ticks are progressFrameRate apart.
FairSpec ==
  /\ Spec /\ WF_vars(Runs) /\ SF_vars(Quiesce) /\ SF_vars(TakeLock)
  /\ \A g \in Frames :
       WF_vars(LockFrame(g)) /\ WF_vars(DrawFrame(g)) /\ SF_vars(Exit(g))

(***************************************************************************)
(* Type invariant                                                          *)
(***************************************************************************)
\* Every variable keeps its type, and every line drawn fits its row.
TypeOK ==
  /\ mode \in {"spinner", "steps"} /\ label \in Labels \cup {0}
  /\ tail \in 0..MaxTail
  /\ width \in 0..LineWidth /\ shown \in 0..LineWidth /\ last \in 0..LineWidth
  /\ quit \in Frames \cup {0} /\ closed \subseteq Frames
  /\ frames \in [Frames -> {"unborn", "select", "tick", "frame", "exited"}]
  /\ lock \in {"none", "main", "frame"}
  /\ main \in {"preflight", "collect", "prompt", "report", "return", "quiesce",
               "close", "join", "finish", "locked", "done"}
  /\ call \in [method : {"step", "stop"}, label : Labels \cup {0},
               to : {"preflight", "collect", "prompt", "report", "done"},
               joins : Frames \cup {0}]
  /\ steps \in 0..MaxSteps
  /\ spoiled \in BOOLEAN /\ asked \in BOOLEAN /\ failed \in BOOLEAN

(***************************************************************************)
(* Safety                                                                  *)
(***************************************************************************)

\* A goroutine still running is the one p.quit belongs to or the one a method
\* is ending; so none runs while the question or the report has the terminal,
\* or after the run (quiesce waits on joined before anything is written).
NoFrameOutlivesStop ==
  /\ \A g \in Frames : Alive(g) =>
       g = quit \/ (main \in {"close", "join"} /\ g = call.joins)
  /\ main \in {"prompt", "report", "done"} => \A g \in Frames : ~Alive(g)

\* The width kept for the erase covers whatever the row shows, and until an
\* error is written over it that is the line drawn last and no more: an earlier,
\* longer label or counter never shows through (drawLocked, eraseLocked).
EraseCovers == shown <= width /\ (failed \/ shown = last)

\* The question and the report never land on a live line (pause, collect's
\* deferred stop).
WritesOnBlankRow == spoiled => failed

\* Every method returns and the run ends: stop never waits on a goroutine that
\* waits on it.
RunEnds == <>(main = "done")
=============================================================================
