---------------------------- MODULE ProgressProofs ----------------------------
(***************************************************************************)
(* Theorems about Progress, for every set of label lengths, every row and  *)
(* every number of steps.                                                  *)
(***************************************************************************)
EXTENDS Progress, TLAPS

(***************************************************************************)
(* The length of a live line                                               *)
(***************************************************************************)

\* A line fits its row, and only grows with the counter.
LEMMA LineFits ==
  ASSUME NEW l \in Nat, NEW t \in 0..MaxTail, NEW u \in t..MaxTail
  PROVE  /\ LineLen(l, t) \in 1..LineWidth
         /\ LineLen(l, t) <= LineLen(l, u)
         /\ u \in 0..MaxTail
BY ProgressAssumption DEF LineLen, ProgressTrim, Least

(***************************************************************************)
(* The inductive invariant                                                 *)
(***************************************************************************)
Quiescing == {"quiesce", "close", "join", "finish", "locked"}

\* The run is in a method only with a call it can return from, and a step's
\* goroutine has not been started before its step began.
CallsReturn ==
  /\ main \in Quiescing /\ call.method = "step" =>
       /\ steps \in Frames /\ frames[steps] = "unborn"
       /\ call.to \in {"preflight", "collect"} /\ call.label # 0
  /\ main \in Quiescing /\ call.method = "stop" =>
       call.to \in {"prompt", "report", "done"}
  /\ main \in {"close", "join"} => call.joins # 0
  /\ \A g \in Frames : frames[g] # "unborn" => g <= steps

\* quiesce takes the goroutine off p before it ends it, and whoever goes on
\* after it goes on with none.
OneGoroutine ==
  /\ \A g \in Frames : Alive(g) =>
       g = quit \/ (main \in {"close", "join"} /\ g = call.joins)
  /\ main \in {"close", "join", "finish", "locked", "prompt", "report", "done"}
       => quit = 0
  /\ mode = "steps" => quit = 0 /\ \A g \in Frames : ~Alive(g)

\* What the row shows is the line drawn for the step in flight.
LineShown ==
  /\ shown <= width
  /\ label = 0 \/ mode = "steps" => shown = 0 /\ (failed \/ last = 0)
  /\ label # 0 /\ mode = "spinner" /\ ~failed =>
       shown = last /\ last = LineLen(label, tail)
  /\ main \in {"prompt", "report"} => label = 0
  /\ spoiled => failed
  /\ failed => main \in {"return", "done"} \/
               (main \in Quiescing /\ call.method = "stop" /\ call.to = "done")

IInv == TypeOK /\ CallsReturn /\ OneGoroutine /\ LineShown

LEMMA InitIInv == Init => IInv
<1> SUFFICES ASSUME Init PROVE IInv
  OBVIOUS
<1> USE DEF Init
<1>1. TypeOK
  <2>1. frames \in [Frames -> {"unborn", "select", "tick", "frame", "exited"}]
    OBVIOUS
  <2>2. 0 \in 0..MaxTail /\ 0 \in 0..LineWidth /\ 0 \in 0..MaxSteps
    BY ProgressAssumption
  <2> QED BY <2>1, <2>2 DEF TypeOK
<1>2. CallsReturn /\ OneGoroutine /\ LineShown
  BY DEF CallsReturn, OneGoroutine, LineShown, Quiescing, Alive
<1> QED BY <1>1, <1>2 DEF IInv

\* Every step keeps the types, and every line drawn fits its row.
LEMMA NextTypes ==
  ASSUME TypeOK, CallsReturn, [Next]_vars
  PROVE  TypeOK'
<1> USE DEF TypeOK
<1>1. ASSUME NEW l \in Labels, Step(l) PROVE TypeOK'
  BY <1>1, ProgressAssumption DEF Step, Enter, line, others, Frames, CallsReturn, Quiescing
<1>2. CASE BeginCollect
  BY <1>2 DEF BeginCollect, line, others
<1>3. CASE Pause
  BY <1>3 DEF Pause, Enter, line, others
<1>4. CASE EndCollect
  BY <1>4 DEF EndCollect, Enter, line, others
<1>5. CASE Ask
  BY <1>5, ProgressAssumption DEF Ask, Write, line, others
<1>6. CASE Report
  BY <1>6, ProgressAssumption DEF Report, Write, line, others
<1>7. CASE Fail
  BY <1>7, ProgressAssumption DEF Fail, Write, line, others
<1>8. CASE Return
  BY <1>8 DEF Return, Enter, line, others
<1>9. CASE Quiesce
  BY <1>9 DEF Quiesce, line, others
<1>10. CASE Close
  BY <1>10 DEF Close, line, others, CallsReturn
<1>11. CASE Join
  BY <1>11 DEF Join, line, others
<1>12. CASE TakeLock
  BY <1>12 DEF TakeLock, line, others
<1>13. CASE FinishStop
  BY <1>13, ProgressAssumption DEF FinishStop, Blanked, line, others, CallsReturn, Quiescing
<1>14. CASE BeginStep
  <2>1. /\ call.label \in Labels \cup {0} /\ call.label \in Nat
        /\ steps \in Frames /\ call.to \in {"preflight", "collect"}
    BY <1>14, ProgressAssumption DEF BeginStep, CallsReturn, Quiescing
  <2>2. LineLen(call.label, 0) \in 1..LineWidth /\ 0 \in 0..MaxTail
    BY <2>1, LineFits, ProgressAssumption
  <2>3. CASE mode = "spinner"
    <3>1. /\ width' \in 0..LineWidth /\ shown' \in 0..LineWidth
          /\ last' \in 0..LineWidth /\ tail' \in 0..MaxTail
          /\ label' \in Labels \cup {0}
      BY <1>14, <2>1, <2>2, <2>3, ProgressAssumption
         DEF BeginStep, Draw, Blanked, Most
    <3>2. /\ quit' \in Frames \cup {0}
          /\ frames' \in [Frames -> {"unborn", "select", "tick", "frame", "exited"}]
      BY <1>14, <2>1, <2>3 DEF BeginStep
    <3> QED BY <1>14, <2>1, <3>1, <3>2 DEF BeginStep, others
  <2>4. CASE mode # "spinner"
    BY <1>14, <2>1, <2>2, <2>4 DEF BeginStep, others
  <2> QED BY <2>3, <2>4
<1>15. ASSUME NEW g \in Frames, Exit(g) PROVE TypeOK'
  BY <1>15 DEF Exit, Move, line, others
<1>16. ASSUME NEW g \in Frames, Tick(g) PROVE TypeOK'
  BY <1>16 DEF Tick, Move, line, others
<1>17. ASSUME NEW g \in Frames, LockFrame(g) PROVE TypeOK'
  BY <1>17 DEF LockFrame, Move, line, others
<1>18. ASSUME NEW g \in Frames, DrawFrame(g) PROVE TypeOK'
  BY <1>18, LineFits, ProgressAssumption DEF DrawFrame, Move, Draw, Most, line, others
<1>19. CASE UNCHANGED vars
  BY <1>19 DEF vars
<1> QED
  BY <1>1, <1>2, <1>3, <1>4, <1>5, <1>6, <1>7, <1>8, <1>9, <1>10, <1>11,
     <1>12, <1>13, <1>14, <1>15, <1>16, <1>17, <1>18, <1>19
  DEF Next, Runs, Frame, Done

\* Every step keeps the calls returning.
LEMMA NextCalls ==
  ASSUME TypeOK, CallsReturn, [Next]_vars
  PROVE  CallsReturn'
<1> USE DEF CallsReturn, Quiescing
<1>1. ASSUME NEW l \in Labels, Step(l) PROVE CallsReturn'
  <2>1. /\ main' = "quiesce" /\ call'.method = "step" /\ call'.label = l
        /\ call'.to = main /\ main \in {"preflight", "collect"}
        /\ steps' = steps + 1 /\ steps < MaxSteps /\ frames' = frames
    BY <1>1 DEF Step, Enter
  <2>2. steps' \in Frames /\ l # 0 /\ steps \in Nat
    BY <2>1, ProgressAssumption DEF Frames, TypeOK
  <2>3. \A g \in Frames : frames'[g] # "unborn" => g <= steps /\ g <= steps'
    BY <2>1, <2>2 DEF Frames
  <2>4. frames'[steps'] = "unborn"
    BY <2>1, <2>2, <2>3 DEF TypeOK
  <2> QED BY <2>1, <2>2, <2>3, <2>4
<1>2. CASE BeginCollect
  BY <1>2 DEF BeginCollect, line, others, TypeOK
<1>3. CASE Pause
  BY <1>3 DEF Pause, Enter, line, others, TypeOK
<1>4. CASE EndCollect
  BY <1>4 DEF EndCollect, Enter, line, others, TypeOK
<1>5. CASE Ask
  BY <1>5 DEF Ask, Write, line, others, TypeOK
<1>6. CASE Report
  BY <1>6 DEF Report, Write, line, others, TypeOK
<1>7. CASE Fail
  BY <1>7 DEF Fail, Write, line, others, TypeOK
<1>8. CASE Return
  BY <1>8 DEF Return, Enter, line, others, TypeOK
<1>9. CASE Quiesce
  BY <1>9 DEF Quiesce, line, others, TypeOK
<1>10. CASE Close
  BY <1>10 DEF Close, line, others, TypeOK
<1>11. CASE Join
  BY <1>11 DEF Join, line, others, TypeOK
<1>12. CASE TakeLock
  BY <1>12 DEF TakeLock, line, others, TypeOK
<1>13. CASE FinishStop
  BY <1>13 DEF FinishStop, Blanked, line, others, TypeOK
<1>14. CASE BeginStep
  <2>1. /\ main' \in {"preflight", "collect"} /\ steps' = steps
        /\ steps \in Frames /\ call' = call
    BY <1>14 DEF BeginStep, others
  <2>2. \/ frames' = frames
        \/ frames' = [frames EXCEPT ![steps] = "select"]
    BY <1>14 DEF BeginStep
  <2>3. ASSUME NEW g \in Frames, frames'[g] # "unborn"
        PROVE  g <= steps
    <3>1. CASE g = steps
      BY <3>1 DEF TypeOK
    <3>2. CASE g # steps
      BY <2>2, <2>3, <3>2 DEF TypeOK
    <3> QED BY <3>1, <3>2
  <2> QED BY <2>1, <2>3
<1>15. ASSUME NEW g \in Frames, Exit(g) PROVE CallsReturn'
  BY <1>15 DEF Exit, Move, line, others, TypeOK
<1>16. ASSUME NEW g \in Frames, Tick(g) PROVE CallsReturn'
  BY <1>16 DEF Tick, Move, line, others, TypeOK
<1>17. ASSUME NEW g \in Frames, LockFrame(g) PROVE CallsReturn'
  BY <1>17 DEF LockFrame, Move, line, others, TypeOK
<1>18. ASSUME NEW g \in Frames, DrawFrame(g) PROVE CallsReturn'
  BY <1>18 DEF DrawFrame, Move, Draw, Most, line, others, TypeOK
<1>19. CASE UNCHANGED vars
  BY <1>19 DEF vars
<1> QED
  BY <1>1, <1>2, <1>3, <1>4, <1>5, <1>6, <1>7, <1>8, <1>9, <1>10, <1>11,
     <1>12, <1>13, <1>14, <1>15, <1>16, <1>17, <1>18, <1>19
  DEF Next, Runs, Frame, Done

\* Every step keeps the goroutine the one of p.quit or the one being ended.
LEMMA NextGoroutine ==
  ASSUME TypeOK, CallsReturn, OneGoroutine, [Next]_vars
  PROVE  OneGoroutine'
<1> USE DEF OneGoroutine, Alive
<1>1. ASSUME NEW l \in Labels, Step(l) PROVE OneGoroutine'
  BY <1>1 DEF Step, Enter, line, others, TypeOK
<1>2. CASE BeginCollect
  BY <1>2 DEF BeginCollect, line, others, TypeOK
<1>3. CASE Pause
  BY <1>3 DEF Pause, Enter, line, others, TypeOK
<1>4. CASE EndCollect
  BY <1>4 DEF EndCollect, Enter, line, others, TypeOK
<1>5. CASE Ask
  BY <1>5 DEF Ask, Write, line, others, TypeOK
<1>6. CASE Report
  BY <1>6 DEF Report, Write, line, others, TypeOK
<1>7. CASE Fail
  BY <1>7 DEF Fail, Write, line, others, TypeOK
<1>8. CASE Return
  BY <1>8 DEF Return, Enter, line, others, TypeOK
<1>9. CASE Quiesce
  BY <1>9 DEF Quiesce, line, others, TypeOK, Frames
<1>10. CASE Close
  BY <1>10 DEF Close, line, others, TypeOK
<1>11. CASE Join
  BY <1>11 DEF Join, line, others, TypeOK
<1>12. CASE TakeLock
  BY <1>12 DEF TakeLock, line, others, TypeOK
<1>13. CASE FinishStop
  BY <1>13 DEF FinishStop, Blanked, line, others, TypeOK
<1>14. CASE BeginStep
  <2>1. /\ main' \in {"preflight", "collect"} /\ mode' = mode
        /\ quit = 0 /\ steps \in Frames
    BY <1>14 DEF BeginStep, others, CallsReturn, Quiescing
  <2>2. \A g \in Frames : ~Alive(g)
    BY <1>14, <2>1 DEF BeginStep, Frames
  <2>3. CASE mode = "spinner"
    BY <1>14, <2>1, <2>2, <2>3 DEF BeginStep, TypeOK
  <2>4. CASE mode # "spinner"
    BY <1>14, <2>1, <2>2, <2>4 DEF BeginStep, TypeOK
  <2> QED BY <2>3, <2>4
<1>15. ASSUME NEW g \in Frames, Exit(g) PROVE OneGoroutine'
  BY <1>15 DEF Exit, Move, line, others, TypeOK
<1>16. ASSUME NEW g \in Frames, Tick(g) PROVE OneGoroutine'
  BY <1>16 DEF Tick, Move, line, others, TypeOK
<1>17. ASSUME NEW g \in Frames, LockFrame(g) PROVE OneGoroutine'
  BY <1>17 DEF LockFrame, Move, line, others, TypeOK
<1>18. ASSUME NEW g \in Frames, DrawFrame(g) PROVE OneGoroutine'
  BY <1>18 DEF DrawFrame, Move, Draw, Most, line, others, TypeOK
<1>19. CASE UNCHANGED vars
  BY <1>19 DEF vars
<1> QED
  BY <1>1, <1>2, <1>3, <1>4, <1>5, <1>6, <1>7, <1>8, <1>9, <1>10, <1>11,
     <1>12, <1>13, <1>14, <1>15, <1>16, <1>17, <1>18, <1>19
  DEF Next, Runs, Frame, Done

\* Every step keeps the row the line of the step in flight.
LEMMA NextLine ==
  ASSUME TypeOK, CallsReturn, OneGoroutine, LineShown, [Next]_vars
  PROVE  LineShown'
<1> USE DEF LineShown, Quiescing
<1>1. ASSUME NEW l \in Labels, Step(l) PROVE LineShown'
  BY <1>1 DEF Step, Enter, line, others, TypeOK
<1>2. CASE BeginCollect
  BY <1>2 DEF BeginCollect, line, others, TypeOK
<1>3. CASE Pause
  BY <1>3 DEF Pause, Enter, line, others, TypeOK
<1>4. CASE EndCollect
  BY <1>4 DEF EndCollect, Enter, line, others, TypeOK
<1>5. CASE Ask
  BY <1>5 DEF Ask, Write, line, others, TypeOK
<1>6. CASE Report
  BY <1>6 DEF Report, Write, line, others, TypeOK
<1>7. CASE Fail
  BY <1>7 DEF Fail, Write, line, others, TypeOK
<1>8. CASE Return
  BY <1>8 DEF Return, Enter, line, others, TypeOK
<1>9. CASE Quiesce
  BY <1>9 DEF Quiesce, line, others, TypeOK
<1>10. CASE Close
  BY <1>10 DEF Close, line, others, TypeOK
<1>11. CASE Join
  BY <1>11 DEF Join, line, others, TypeOK
<1>12. CASE TakeLock
  BY <1>12 DEF TakeLock, line, others, TypeOK
<1>13. CASE FinishStop
  <2>1. /\ label' = 0 /\ last' = 0 /\ main' = call.to
        /\ UNCHANGED <<mode, spoiled, failed, call>>
    BY <1>13 DEF FinishStop, others
  <2>2. Blanked = 0
    BY DEF Blanked
  <2>3. shown' = 0 /\ shown' <= width'
    BY <1>13, <2>2 DEF FinishStop, TypeOK
  <2>4. failed => main' = "done"
    BY <1>13, <2>1 DEF FinishStop
  <2> QED BY <2>1, <2>3, <2>4
<1>14. CASE BeginStep
  <2>1. /\ main' \in {"preflight", "collect"} /\ ~failed
        /\ UNCHANGED <<mode, spoiled, failed, call>>
        /\ call.label \in Nat /\ call.label # 0 /\ label' = call.label
    BY <1>14, ProgressAssumption
       DEF BeginStep, Draw, others, CallsReturn, Quiescing, TypeOK
  <2>2. LineLen(call.label, 0) \in 1..LineWidth
    BY <2>1, LineFits, ProgressAssumption
  <2>3. CASE mode = "spinner"
    <3>1. label = 0 => shown = 0
      OBVIOUS
    <3>2. Blanked = 0 /\ width \in Nat
      BY DEF Blanked, TypeOK
    <3>3. /\ last' = LineLen(call.label, 0) /\ tail' = 0
          /\ shown' = LineLen(call.label, 0) /\ shown' <= width'
      BY <1>14, <2>2, <2>3, <3>1, <3>2 DEF BeginStep, Draw, Most
    <3>4. last' = LineLen(label', tail')
      BY <2>1, <3>3
    <3> QED BY <2>1, <2>3, <3>3, <3>4
  <2>4. CASE mode # "spinner"
    BY <1>14, <2>1, <2>4 DEF BeginStep, TypeOK
  <2> QED BY <2>3, <2>4
<1>15. ASSUME NEW g \in Frames, Exit(g) PROVE LineShown'
  BY <1>15 DEF Exit, Move, line, others, TypeOK
<1>16. ASSUME NEW g \in Frames, Tick(g) PROVE LineShown'
  BY <1>16 DEF Tick, Move, line, others, TypeOK
<1>17. ASSUME NEW g \in Frames, LockFrame(g) PROVE LineShown'
  BY <1>17 DEF LockFrame, Move, line, others, TypeOK
<1>18. ASSUME NEW g \in Frames, DrawFrame(g) PROVE LineShown'
  <2>1. /\ quit # 0 \/ main \in {"close", "join"}
        /\ mode = "spinner"
    BY <1>18 DEF DrawFrame, Move, Alive, OneGoroutine, TypeOK, Frames
  <2>2. UNCHANGED <<mode, spoiled, failed, call, main>>
    BY <1>18 DEF DrawFrame, others
  <2>3. CASE label = 0
    BY <1>18, <2>1, <2>2, <2>3 DEF DrawFrame, line
  <2>4. CASE label # 0
    <3>1. PICK t \in tail..MaxTail : Draw(label, t, width, shown)
      BY <1>18, <2>4 DEF DrawFrame
    <3>2. /\ label \in Nat /\ tail \in 0..MaxTail
          /\ width \in Nat /\ shown \in Nat
      BY ProgressAssumption DEF TypeOK
    <3>3. /\ LineLen(label, t) \in Nat
          /\ LineLen(label, tail) <= LineLen(label, t)
      <4>1. t \in 0..MaxTail
        BY <3>2, LineFits
      <4> QED BY <3>2, <4>1, LineFits
    <3>4. /\ last' = LineLen(label, t) /\ shown' = Most(shown, LineLen(label, t))
          /\ width' = Most(width, LineLen(label, t)) /\ label' = label /\ tail' = t
      BY <3>1 DEF Draw
    <3>5. shown' <= width'
      BY <3>2, <3>3, <3>4 DEF Most
    <3>6. ~failed => shown' = LineLen(label, t)
      BY <2>1, <2>4, <3>2, <3>3, <3>4 DEF Most
    <3>7. last' = LineLen(label', tail')
      BY <3>4
    <3> QED BY <2>1, <2>2, <2>4, <3>4, <3>5, <3>6, <3>7
  <2> QED BY <2>3, <2>4
<1>19. CASE UNCHANGED vars
  BY <1>19 DEF vars
<1> QED
  BY <1>1, <1>2, <1>3, <1>4, <1>5, <1>6, <1>7, <1>8, <1>9, <1>10, <1>11,
     <1>12, <1>13, <1>14, <1>15, <1>16, <1>17, <1>18, <1>19
  DEF Next, Runs, Frame, Done

\* The four parts together are inductive: each action's cases above use the
\* parts they need.
THEOREM Inductive == Spec => []IInv
<1>1. IInv /\ [Next]_vars => IInv'
  BY NextTypes, NextCalls, NextGoroutine, NextLine DEF IInv
<1> QED BY InitIInv, <1>1, PTL DEF Spec

(***************************************************************************)
(* Theorems                                                                *)
(***************************************************************************)

\* Every variable keeps its type, and every line drawn fits its row.
THEOREM LinesFit == Spec => []TypeOK
<1>1. IInv => TypeOK
  BY DEF IInv
<1> QED BY Inductive, <1>1, PTL

\* The only goroutine that runs is p.quit's or the one a method is ending, and
\* none runs while the question or the report has the terminal (quiesce).
THEOREM FramesEnd == Spec => []NoFrameOutlivesStop
<1>1. IInv => NoFrameOutlivesStop
  BY DEF IInv, OneGoroutine, NoFrameOutlivesStop, Frames
<1> QED BY Inductive, <1>1, PTL

\* An erase always covers what the row shows, which is the line drawn last
\* (drawLocked, eraseLocked).
THEOREM EraseIsWideEnough == Spec => []EraseCovers
<1>1. IInv => EraseCovers
  BY DEF IInv, TypeOK, LineShown, EraseCovers
<1> QED BY Inductive, <1>1, PTL

\* Neither the question nor the report is ever written on a live line (pause,
\* collect's deferred stop).
THEOREM BlankRows == Spec => []WritesOnBlankRow
<1>1. IInv => WritesOnBlankRow
  BY DEF IInv, LineShown, WritesOnBlankRow
<1> QED BY Inductive, <1>1, PTL
=============================================================================
