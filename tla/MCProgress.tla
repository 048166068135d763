------------------------------ MODULE MCProgress ------------------------------
(***************************************************************************)
(* A small instance of Progress for TLC: a row of 9 columns, labels that   *)
(* fit with any counter, that fit until the counter grows, and that never  *)
(* fit.                                                                    *)
(***************************************************************************)
EXTENDS Progress

SomeLabels == {2, 6, 12}
=============================================================================
