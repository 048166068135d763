--------------------------- MODULE MCPodmanDeploy ---------------------------
(* Instances and names for the runs of PodmanDeploy. *)
EXTENDS PodmanDeploy

OneInstance == {<<"conn">>}
OneStore    == {<<"mq">>}
OneCred     == {"A"}
NoCred      == {}

\* "conn-tls" is a name one instance has, and how the secrets of the other begin.
PrefixInstances == {<<"conn">>, <<"conn", "tls">>}

AllVerbs    == {"deploy", "remove", "start", "stop", "restart"}
DeployVerbs == {"deploy"}
TwoVerbs    == {"deploy", "remove"}
=============================================================================
