--------------------------- MODULE LibsDirectory ----------------------------
(***************************************************************************)
(* What download jar promises of its directory: a jar appears under its    *)
(* name in one step, whole; it is replaced by another whole jar of that    *)
(* name or not at all; nothing is removed; and a run says ok only when     *)
(* every jar it set out to fetch is there.                                 *)
(***************************************************************************)
CONSTANTS Whole(_)  \* what a published file may be

VARIABLES dir,     \* the published files, each with its name
          wanted,  \* the names the current run set out to fetch
          outcome  \* of the current run: "running", or how the last one ended

Init == dir = {} /\ wanted = {} /\ outcome = "killed"

Begin == outcome # "running" /\ outcome' = "running" /\ UNCHANGED dir

\* The run learns what it wants.
Plan == outcome = "running" /\ UNCHANGED <<dir, outcome>>

Publish ==
    /\ outcome = "running" /\ UNCHANGED <<wanted, outcome>>
    /\ \E f \in dir' : /\ Whole(f) /\ f.name \in wanted
                       /\ dir' = {g \in dir : g.name # f.name} \cup {f}

Say ==
    /\ outcome = "running" /\ UNCHANGED <<dir, wanted>>
    /\ outcome' \in {"ok", "failed", "killed"}
    /\ outcome' = "ok" => \A n \in wanted : \E f \in dir : f.name = n

Next == Begin \/ Plan \/ Publish \/ Say

Spec == Init /\ [][Next]_<<dir, wanted, outcome>>
=============================================================================
