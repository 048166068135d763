----------------------------- MODULE MCKubeRelease -----------------------------
(***************************************************************************)
(* Small instances of KubeRelease for TLC.                                 *)
(***************************************************************************)
EXTENDS KubeRelease

TwoNamespaces == {"prod", "default"}
ClusterOwn    == {"default"}

\* Whose objects are in a namespace of the cluster's matters to no step.
OnlyProd == {"prod"}

\* Every optional part comes and goes; libs with and without the others.
SomeParts == {{"libs", "stores"}, {"service"}}

\* Somebody else's Secret, and the token of their service account.
TwoOthers == {Obj("Secret", "web"),
              [Obj("Secret", "robot") EXCEPT !.type = ServiceAccountToken]}
=============================================================================
