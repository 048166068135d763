------------------------------ MODULE MCStatusRun ------------------------------
(***************************************************************************)
(* A small instance of StatusRun for TLC: two instances, one of which is   *)
(* called by a number, so that "1" is its name while it exists and the     *)
(* index of the other when it does not.                                    *)
(***************************************************************************)
EXTENDS StatusRun

TwoNames == {"1", "b"}
TwoRanks == [n \in TwoNames |-> IF n = "1" THEN 0 ELSE 1]
TwoDigits == [e \in {"0", "1"} |-> IF e = "0" THEN 0 ELSE 1]

Line(platform, view, typed, all, install, watch, tty) ==
  [platform |-> platform, view |-> view, typed |-> typed, all |-> all,
   install |-> install, watch |-> watch, tty |-> tty]

Discovered(watch) ==
  {Line("kubernetes", "application", {}, FALSE, install, watch, tty)
     : install \in BOOLEAN, tty \in BOOLEAN}

SomeOptions ==
  Discovered(TRUE) \cup Discovered(FALSE) \cup
  {Line("kubernetes", "application", typed, FALSE, FALSE, FALSE, TRUE)
     : typed \in {{"0"}, {"1"}, {"0", "b"}, {"b"}}} \cup
  {Line("engine", view, {}, TRUE, FALSE, FALSE, TRUE)
     : view \in {"application", "container"}} \cup
  {Line("engine", "application", typed, FALSE, TRUE, FALSE, FALSE)
     : typed \in {{}, {"0"}, {"1"}}}
=============================================================================
