------------------------------ MODULE KubeRelease ------------------------------
(***************************************************************************)
(* `deploy` and `remove` of one release on kubernetes                      *)
(* (cmd/solmq-conn-util/main.go actKubernetes, namespace.go;               *)
(* internal/deploy Render; internal/spec kubernetes.go; internal/runner),  *)
(* in a cluster where other people's objects come and go, the controllers  *)
(* work on their own, and env.yaml may be edited at any moment.            *)
(*                                                                         *)
(* A remove is two acts.  The teardown deletes the manifest's objects, in  *)
(* reverse order, waiting for each to go.  Only if all went is the         *)
(* namespace considered: never a cluster namespace, never one that a       *)
(* listing shows to hold an object that is not the release's, and only     *)
(* after a second question.  Each question leaves time for the cluster and *)
(* env.yaml to change, and the listing is not exhaustive.                  *)
(*                                                                         *)
(* Abstracted: the content of the objects; preflight, validation and       *)
(* generation errors, which end a run before it changes anything; one run  *)
(* at a time.                                                              *)
(***************************************************************************)
EXTENDS Naturals, Sequences, FiniteSets, SequencesExt

CONSTANTS
  Namespaces,   \* namespaces env.yaml may name
  WellKnown,    \* the cluster's own among them
  Shared,       \* those other people use
  PartChoices,  \* the sets of optional parts env.yaml may ask for
  Others,       \* objects of other people that may live in those
  MaxEdits,     \* bound on the edits of env.yaml
  MaxFaults     \* bound on failed and killed commands together

Parts == {"credentials", "stores", "image-pull", "libs", "service"}

ASSUME KubeAssumption ==
  /\ WellKnown \cup Shared \subseteq Namespaces /\ Namespaces # {}
  /\ PartChoices \subseteq SUBSET Parts /\ PartChoices # {}
  /\ MaxEdits \in Nat /\ MaxFaults \in Nat

VARIABLES
  env,       \* env.yaml as it is now: the namespace and the optional parts
  phase,     \* phase[ns]: does the namespace exist
  objs,      \* objs[ns]: the objects in it (and the volumes bound to them)
  dying,     \* dying[ns]: those with a deletionTimestamp
  made,      \* made[ns]: objects a deploy of this release put there
  pc,        \* the next step of the run
  run,       \* the locals of the run
  verdict,   \* how the last run ended
  edits, faults

vars == <<env, phase, objs, dying, made, pc, run, verdict, edits, faults>>
cluster == <<phase, objs, dying, made>>

(***************************************************************************)
(* Objects.  owner is the name in metadata.ownerReferences, type the type  *)
(* of a Secret, told apart only for the tokens of service accounts.        *)
(***************************************************************************)
ServiceAccountToken == "kubernetes.io/service-account-token"

Obj(kind, name) == [kind |-> kind, name |-> name, owner |-> "", type |-> ""]

ConfigMap   == Obj("ConfigMap", "app-config")
Credentials == Obj("Secret", "app-credentials")
Stores      == Obj("Secret", "app-stores")
ImagePull   == Obj("Secret", "app-image-pull")
Volume      == Obj("PersistentVolume", "app-libs-pv")
Claim       == Obj("PersistentVolumeClaim", "app-libs")
Deployment  == Obj("Deployment", "app")
Service     == Obj("Service", "app")
\* What the deployment controller makes of it.
ReplicaSet  == [Obj("ReplicaSet", "app-7d4") EXCEPT !.owner = "app"]
Pod         == [Obj("Pod", "app-7d4-abc") EXCEPT !.owner = "app-7d4"]
\* Kubernetes puts one in every namespace it creates.
RootCA      == Obj("ConfigMap", "kube-root-ca.crt")

OfPart == [p \in Parts |->
  CASE p = "credentials" -> {Credentials} [] p = "stores"  -> {Stores}
    [] p = "image-pull"  -> {ImagePull}   [] p = "service" -> {Service}
    [] p = "libs"        -> {Volume, Claim}]

Releases == {ConfigMap, Deployment} \cup UNION {OfPart[p] : p \in Parts}
Objects == Releases \cup {ReplicaSet, Pod, RootCA} \cup Others

\* A namespace holds one object of a kind and name.
ASSUME OthersAssumption ==
  /\ Others \cap (Releases \cup {ReplicaSet, Pod, RootCA}) = {}
  /\ \A o \in Others : o.kind # RootCA.kind \/ o.name # RootCA.name

\* The documents of a part that Render writes only if it is asked for.
IfAsked(p, parts, documents) == IF p \in parts THEN documents ELSE <<>>

\* What Render writes after the namespace, in its order.
Documents(parts) ==
  <<ConfigMap>> \o IfAsked("credentials", parts, <<Credentials>>)
                \o IfAsked("stores", parts, <<Stores>>)
                \o IfAsked("image-pull", parts, <<ImagePull>>)
                \o IfAsked("libs", parts, <<Volume, Claim>>)
                \o <<Deployment>> \o IfAsked("service", parts, <<Service>>)

\* Mutant of TeardownDocuments: creation order.
TeardownInOrder(parts) == Documents(parts \cup {"stores"})

\* Mutant of TeardownDocuments: only what this spec renders.
TeardownAsRendered(parts) == Reverse(Documents(parts))

\* Mutant of TeardownDocuments: the Namespace document is kept.
TeardownWithNamespace(parts) ==
  TeardownInOrder(parts) \o <<Obj("Namespace", env.ns)>>

\* A teardown names the stores Secret always, has no Namespace document, and
\* reverses the others.
TeardownDocuments(parts) == Reverse(Documents(parts \cup {"stores"}))

(***************************************************************************)
(* Runs                                                                    *)
(***************************************************************************)
Envs == [ns : Namespaces, parts : PartChoices]

Steps == {"idle", "apply", "ask", "load", "delete", "wait", "occupancy",
          "askns", "deletens", "waitns"}

\* seen records, for the properties only, the objects still being deleted when
\* deploy applied them, or what remove's listing of the namespace showed.
NoRun == [env |-> [ns |-> CHOOSE n \in Namespaces : TRUE,
                   parts |-> CHOOSE p \in PartChoices : TRUE],
          noPrompt |-> FALSE, todo |-> <<>>, err |-> FALSE, seen |-> {}]

Goto(from, to) == pc = from /\ pc' = to

Finish(v) == pc' = "idle" /\ run' = NoRun /\ verdict' = v

Fault == faults < MaxFaults /\ faults' = faults + 1

Put(ns, o)  == objs' = [objs EXCEPT ![ns] = @ \cup {o}]
Drop(ns, o) ==
  /\ objs' = [objs EXCEPT ![ns] = @ \ {o}]
  /\ dying' = [dying EXCEPT ![ns] = @ \ {o}]
  /\ made' = [made EXCEPT ![ns] = @ \ {o}]

(***************************************************************************)
(* deploy: kubectl apply, document by document                             *)
(***************************************************************************)
BeginDeploy ==
  /\ Goto("idle", "apply")
  /\ run' = [NoRun EXCEPT !.env = env,
               !.todo = <<Obj("Namespace", env.ns)>> \o Documents(env.parts)]
  /\ verdict' = "none"
  /\ UNCHANGED <<env, cluster, edits, faults>>

\* The namespace first: applying one that exists changes nothing.
ApplyNamespace ==
  /\ pc = "apply" /\ run.todo # <<>> /\ Head(run.todo).kind = "Namespace"
  /\ LET ns == run.env.ns IN
       IF phase[ns] = "absent"
       THEN phase' = [phase EXCEPT ![ns] = "live"] /\ Put(ns, RootCA)
       ELSE UNCHANGED <<phase, objs>>
  /\ run' = [run EXCEPT !.todo = Tail(@)]
  /\ UNCHANGED <<env, dying, made, pc, verdict, edits, faults>>

\* An object that is there is configured, one that is not is created, which a
\* namespace that is absent or being deleted refuses; a volume is in none.
ApplyObject ==
  /\ pc = "apply" /\ run.todo # <<>> /\ Head(run.todo).kind # "Namespace"
  /\ LET ns == run.env.ns
         o  == Head(run.todo)
         ok == phase[ns] = "live" \/ o \in objs[ns] \cup {Volume}
     IN /\ IF ok THEN Put(ns, o) /\ made' = [made EXCEPT ![ns] = @ \cup {o}]
                 ELSE UNCHANGED <<objs, made>>
        /\ run' = [run EXCEPT !.todo = Tail(@), !.err = @ \/ ~ok,
                               !.seen = @ \cup (dying[ns] \cap {o})]
  /\ UNCHANGED <<env, phase, dying, pc, verdict, edits, faults>>

\* Mutant of ReportDeploy: kubectl's error is dropped.
ReportAnyway ==
  /\ pc = "apply" /\ run.todo = <<>>
  /\ Finish("deployed")
  /\ UNCHANGED <<env, cluster, edits, faults>>

ReportDeploy ==
  /\ pc = "apply" /\ run.todo = <<>>
  /\ Finish(IF run.err THEN "failed" ELSE "deployed")
  /\ UNCHANGED <<env, cluster, edits, faults>>

(***************************************************************************)
(* remove: the question, then kubectl delete                               *)
(***************************************************************************)

\* env.yaml is read for the question, which --no-prompt skips ...
BeginRemove(noPrompt) ==
  /\ Goto("idle", IF noPrompt THEN "load" ELSE "ask")
  /\ run' = [NoRun EXCEPT !.env = env, !.noPrompt = noPrompt]
  /\ verdict' = "none"
  /\ UNCHANGED <<env, cluster, edits, faults>>

AnswerRemove(yes) ==
  /\ pc = "ask"
  /\ IF yes THEN pc' = "load" /\ UNCHANGED <<run, verdict>>
            ELSE Finish("cancelled")
  /\ UNCHANGED <<env, cluster, edits, faults>>

\* ... and read again for the teardown.
LoadEnv ==
  /\ Goto("load", "delete")
  /\ run' = [run EXCEPT !.env = env, !.todo = TeardownDocuments(env.parts)]
  /\ UNCHANGED <<env, cluster, verdict, edits, faults>>

\* pvc-protection holds a claim a pod mounts, and a volume its claim.
Held(ns, o) == \/ o = Claim /\ Pod \in objs[ns]
               \/ o = Volume /\ Claim \in objs[ns]

DeleteObject ==
  /\ pc = "delete" /\ run.todo # <<>>
  /\ LET ns == run.env.ns
         o  == Head(run.todo)
     IN IF o \in objs[ns] /\ Held(ns, o)
        THEN /\ pc' = "wait"
             /\ dying' = [dying EXCEPT ![ns] = @ \cup {o}]
             /\ UNCHANGED <<objs, made, run>>
        ELSE /\ Drop(ns, o)
             /\ run' = [run EXCEPT !.todo = Tail(@)]
             /\ UNCHANGED pc
  /\ UNCHANGED <<env, phase, verdict, edits, faults>>

\* kubectl waits for an object to go before it deletes the next.
DeleteWaited ==
  /\ Goto("wait", "delete")
  /\ Head(run.todo) \notin objs[run.env.ns]
  /\ run' = [run EXCEPT !.todo = Tail(@)]
  /\ UNCHANGED <<env, cluster, verdict, edits, faults>>

\* A failed teardown leaves the namespace alone.
TeardownEnds ==
  /\ pc = "delete" /\ run.todo = <<>>
  /\ IF run.err THEN Finish("failed")
                ELSE pc' = "occupancy" /\ UNCHANGED <<run, verdict>>
  /\ UNCHANGED <<env, cluster, edits, faults>>

(***************************************************************************)
(* The namespace                                                           *)
(***************************************************************************)

\* kubectl get all,persistentvolumeclaims,secrets,configmaps
NamespaceProbeTypes ==
  {"Pod", "ReplicationController", "Service", "DaemonSet", "Deployment",
   "ReplicaSet", "StatefulSet", "HorizontalPodAutoscaler", "CronJob", "Job",
   "PersistentVolumeClaim", "Secret", "ConfigMap"}

Listed(ns) == {o \in objs[ns] : o.kind \in NamespaceProbeTypes}

CreatedNames(parts) ==
  {o.name : o \in {ConfigMap, Deployment, Stores}
              \cup UNION {OfPart[p] : p \in parts \ {"service"}}} \ {Volume.name}

\* Being deleted, named like one of ours, or owned by a name of ours.
IsOurs(ns, o, owned) ==
  o \in dying[ns] \/ o.name \in owned \/ o.owner \in owned

\* What the cluster makes in every namespace, and every Secret with the token
\* of a service account, whoever made it: older clusters mint one per namespace.
clusterDefaultOccupants ==
  {<<RootCA.kind, RootCA.name>>, <<"ServiceAccount", "default">>}

IsToken(o) == o.kind = "Secret" /\ o.type = ServiceAccountToken

IsClusterDefault(o) ==
  <<o.kind, o.name>> \in clusterDefaultOccupants \/ IsToken(o)

NamespaceOccupants(ns, parts) ==
  {o \in Listed(ns) :
     ~IsOurs(ns, o, CreatedNames(parts)) /\ ~IsClusterDefault(o)}

\* A cluster namespace is never removed ...
KeepWellKnown ==
  /\ pc = "occupancy" /\ run.env.ns \in WellKnown
  /\ Finish("removed")
  /\ UNCHANGED <<env, cluster, edits, faults>>

\* ... nor one that cannot be listed ...
ListingFails ==
  /\ Fault
  /\ pc = "occupancy" /\ run.env.ns \notin WellKnown
  /\ Finish("removed")
  /\ UNCHANGED <<env, cluster, edits>>

\* ... nor one with an occupant.
KeepOccupied ==
  /\ pc = "occupancy" /\ run.env.ns \notin WellKnown
  /\ NamespaceOccupants(run.env.ns, run.env.parts) # {}
  /\ Finish("occupied")
  /\ UNCHANGED <<env, cluster, edits, faults>>

OfferNamespace ==
  /\ pc = "occupancy" /\ run.env.ns \notin WellKnown
  /\ NamespaceOccupants(run.env.ns, run.env.parts) = {}
  /\ pc' = IF run.noPrompt THEN "deletens" ELSE "askns"
  /\ run' = [run EXCEPT !.seen = Listed(run.env.ns)]
  /\ UNCHANGED <<env, cluster, verdict, edits, faults>>

AnswerNamespace(yes) ==
  /\ pc = "askns"
  /\ IF yes THEN pc' = "deletens" /\ UNCHANGED <<run, verdict>>
            ELSE Finish("removed")
  /\ UNCHANGED <<env, cluster, edits, faults>>

\* Mutant of DeleteNamespace: the namespace env.yaml names by now.
DeleteNamespaceOfEnv ==
  /\ Goto("deletens", "waitns")
  /\ phase' = [phase EXCEPT ![env.ns] = IF @ = "absent" THEN @ ELSE "terminating"]
  /\ dying' = [dying EXCEPT ![env.ns] = objs[env.ns]]
  /\ UNCHANGED <<env, objs, made, run, verdict, edits, faults>>

\* Deleting a namespace deletes everything in it.
DeleteNamespace ==
  /\ Goto("deletens", "waitns")
  /\ LET ns == run.env.ns IN
       /\ phase' = [phase EXCEPT ![ns] =
                      IF @ = "absent" THEN @ ELSE "terminating"]
       /\ dying' = [dying EXCEPT ![ns] = @ \cup (objs[ns] \ {Volume})]
  /\ UNCHANGED <<env, objs, made, run, verdict, edits, faults>>

NamespaceGone ==
  /\ pc = "waitns" /\ phase[run.env.ns] = "absent"
  /\ Finish("removed")
  /\ UNCHANGED <<env, cluster, edits, faults>>

(***************************************************************************)
(* Faults of a run                                                         *)
(***************************************************************************)

\* One document fails; kubectl goes on with the others and reports it.
DocumentFails ==
  /\ Fault
  /\ pc \in {"apply", "delete"} /\ run.todo # <<>>
  /\ run' = [run EXCEPT !.todo = Tail(@), !.err = TRUE]
  /\ UNCHANGED <<env, cluster, pc, verdict, edits>>

\* The command fails as a whole, or the tool is killed.
RunEnds ==
  /\ Fault /\ pc # "idle"
  /\ Finish("failed")
  /\ UNCHANGED <<env, cluster, edits>>

(***************************************************************************)
(* The cluster, the other people in it, and the editor                     *)
(***************************************************************************)
Create(ns, o) ==
  /\ phase[ns] = "live" /\ o \notin objs[ns]
  /\ Put(ns, o)
  /\ UNCHANGED <<env, phase, dying, made, pc, run, verdict, edits, faults>>

\* The controllers create a ReplicaSet for a Deployment and a Pod for that.
Controller(ns) ==
  \/ Deployment \in objs[ns] /\ Create(ns, ReplicaSet)
  \/ ReplicaSet \in objs[ns] /\ Deployment \in objs[ns] /\ Create(ns, Pod)

\* An object whose owner is gone is deleted; a Pod takes its time to stop.
CollectGarbage(ns) ==
  /\ \/ /\ ReplicaSet \in objs[ns] /\ Deployment \notin objs[ns]
        /\ Drop(ns, ReplicaSet)
     \/ /\ Pod \in objs[ns] \ dying[ns] /\ ReplicaSet \notin objs[ns]
        /\ dying' = [dying EXCEPT ![ns] = @ \cup {Pod}]
        /\ UNCHANGED <<objs, made>>
  /\ UNCHANGED <<env, phase, pc, run, verdict, edits, faults>>

\* What is dying goes when nothing holds it.
TerminateObject(ns, o) ==
  /\ o \in dying[ns] /\ ~Held(ns, o)
  /\ Drop(ns, o)
  /\ UNCHANGED <<env, phase, pc, run, verdict, edits, faults>>

\* A namespace goes when it is empty; volumes are the cluster's.
NamespaceTerminates(ns) ==
  /\ phase[ns] = "terminating" /\ objs[ns] \subseteq {Volume}
  /\ phase' = [phase EXCEPT ![ns] = "absent"]
  /\ UNCHANGED <<env, objs, dying, made, pc, run, verdict, edits, faults>>

OthersAct(ns) ==
  \E o \in Others :
    \/ Create(ns, o)
    \/ /\ o \in objs[ns] /\ Drop(ns, o)
       /\ UNCHANGED <<env, phase, pc, run, verdict, edits, faults>>

EditEnv(e) ==
  /\ edits < MaxEdits /\ edits' = edits + 1
  /\ e # env /\ env' = e
  /\ UNCHANGED <<cluster, pc, run, verdict, faults>>

-----------------------------------------------------------------------------
Init ==
  /\ env \in Envs
  /\ phase \in [Namespaces -> {"live", "absent"}]
  /\ \A ns \in WellKnown : phase[ns] = "live"
  /\ objs = [ns \in Namespaces |-> IF phase[ns] = "live" THEN {RootCA} ELSE {}]
  /\ dying = [ns \in Namespaces |-> {}]
  /\ made = [ns \in Namespaces |-> {}]
  /\ pc = "idle" /\ run = NoRun /\ verdict = "none"
  /\ edits = 0 /\ faults = 0

Deploys == BeginDeploy \/ ApplyNamespace \/ ApplyObject \/ ReportDeploy

\* The steps of a remove that wait for nobody but the cluster.
Teardown == DeleteObject \/ DeleteWaited \/ TeardownEnds

Removes ==
  \/ \E b \in BOOLEAN : BeginRemove(b) \/ AnswerRemove(b) \/ AnswerNamespace(b)
  \/ LoadEnv \/ Teardown \/ KeepWellKnown \/ KeepOccupied \/ OfferNamespace
  \/ DeleteNamespace \/ NamespaceGone

Cluster(ns) ==
  \/ Controller(ns) \/ CollectGarbage(ns) \/ NamespaceTerminates(ns)
  \/ \E o \in Objects : TerminateObject(ns, o)

Next ==
  \/ Deploys \/ Removes \/ DocumentFails \/ ListingFails \/ RunEnds
  \/ \E ns \in Namespaces : Cluster(ns)
  \/ \E ns \in Shared : OthersAct(ns)
  \/ \E e \in Envs : EditEnv(e)

Spec == Init /\ [][Next]_vars

NamespaceDocs == {Obj("Namespace", ns) : ns \in Namespaces}

(***************************************************************************)
(* Type invariant                                                          *)
(***************************************************************************)
\* Every variable keeps its type: only what is there is being deleted, and a
\* teardown carries no Namespace document, which would take the whole of it.
TypeOK ==
  /\ env \in Envs
  /\ phase \in [Namespaces -> {"absent", "live", "terminating"}]
  /\ objs \in [Namespaces -> SUBSET Objects]
  /\ dying \in [Namespaces -> SUBSET Objects]
  /\ made \in [Namespaces -> SUBSET Releases]
  /\ \A ns \in Namespaces : dying[ns] \cup made[ns] \subseteq objs[ns]
  /\ pc \in Steps
  /\ run \in [env : Envs, noPrompt : BOOLEAN, err : BOOLEAN,
              seen : SUBSET Objects,
              todo : Seq(IF pc = "apply" THEN Releases \cup NamespaceDocs
                                         ELSE Releases)]
  /\ verdict \in {"none", "deployed", "removed", "occupied", "cancelled", "failed"}
  /\ edits \in 0..MaxEdits /\ faults \in 0..MaxFaults

(***************************************************************************)
(* deploy                                                                  *)
(***************************************************************************)
Ends(vs) == pc # "idle" /\ pc' = "idle" /\ verdict' \in vs

\* A deploy that reports ok leaves every document of its spec in a live
\* namespace, whatever an interrupted remove before it left half deleted -- but
\* a document that was itself still being deleted when it was applied
\* (actKubernetes, Render's order, the Namespace first).
DeployedIsThere ==
  [][Ends({"deployed"}) =>
       /\ phase[run.env.ns] = "live"
       /\ \A o \in Range(Documents(run.env.parts)) :
            o \in objs[run.env.ns] \/ o \in run.seen]_vars

(***************************************************************************)
(* remove                                                                  *)
(***************************************************************************)

\* A remove whose teardown succeeded leaves, of all that deploys put in the
\* namespace, only optional parts its spec has dropped since; never the stores
\* Secret, which it deletes whatever the spec says (StoresSecretName).
LeavesOnlyDroppedParts ==
  [][Ends({"removed", "occupied"}) =>
       made'[run.env.ns] \subseteq
         UNION {OfPart[p] : p \in Parts \ (run.env.parts \cup {"stores"})}]_vars

\* The namespace a remove deletes is the one it tore down and listed, is not
\* the cluster's, and whatever is in it of a listed kind and is neither named
\* nor owned like the release's came after that listing, however env.yaml and
\* the namespace changed while the questions were open (removeNamespace) -- but
\* a Secret with somebody's service-account token, which the listing shows and
\* the code takes for the cluster's own (isClusterDefault).
NamespaceGoesAsListed ==
  [][\A ns \in Namespaces :
       phase[ns] = "live" /\ phase'[ns] = "terminating" =>
         /\ ns = run.env.ns /\ ns \notin WellKnown
         /\ \A o \in (Others \cap objs[ns]) \cap run.seen :
              \/ {o.name, o.owner} \cap {r.name : r \in Releases} # {}
              \/ IsToken(o)
              \/ o \in dying[ns]]_vars

\* The cluster gets on with its work, and so does kubectl.
FairSpec ==
  /\ Spec /\ WF_vars(Teardown) /\ WF_vars(NamespaceGone)
  /\ \A ns \in Namespaces :
       /\ WF_vars(CollectGarbage(ns)) /\ WF_vars(NamespaceTerminates(ns))
       /\ \A o \in Objects : WF_vars(TerminateObject(ns, o))

Waiting == pc \in {"delete", "wait", "waitns"} /\ ~run.err

\* A remove never waits for ever: not for a claim whose Pod only a later
\* document would stop, not for a volume its claim holds (Render's order).  It
\* does if the Deployment's own delete failed, as kubectl then goes on to the
\* claim all the same.
RemoveEnds == Waiting ~> ~Waiting
=============================================================================
