--------------------------- MODULE KubeReleaseProofs ---------------------------
(***************************************************************************)
(* What a deploy and a remove leave, and which namespace a remove deletes, *)
(* with what in it, for every set of namespaces, parts and other people's  *)
(* objects and every bound.                                                *)
(***************************************************************************)
EXTENDS KubeRelease, SequenceTheorems, TLAPS

(***************************************************************************)
(* Sequences of documents                                                  *)
(***************************************************************************)

\* What is left of a sequence without its head.
LEMMA TailRange ==
  ASSUME NEW S, NEW s \in Seq(S), s # <<>>
  PROVE  /\ Head(s) \in S /\ Tail(s) \in Seq(S)
         /\ Range(s) = {Head(s)} \cup Range(Tail(s))
<1>1. /\ Head(s) \in S /\ Tail(s) \in Seq(S) /\ Len(Tail(s)) = Len(s) - 1
      /\ \A i \in 1 .. Len(Tail(s)) : Tail(s)[i] = s[i + 1]
  BY HeadTailProperties
<1>2. Range(s) = {s[i] : i \in 1 .. Len(s)}
  BY RangeEquality
<1>3. Range(Tail(s)) = {Tail(s)[i] : i \in 1 .. Len(Tail(s))}
  BY <1>1, RangeEquality
<1>4. Len(s) \in Nat /\ Len(s) # 0 /\ Head(s) = s[1]
  OBVIOUS
<1>5. \A i \in 1 .. Len(s) : i = 1 \/ (i - 1 \in 1 .. Len(Tail(s)) /\ s[i] = Tail(s)[i - 1])
  BY <1>1, <1>4
<1>6. \A i \in 1 .. Len(Tail(s)) : i + 1 \in 1 .. Len(s)
  BY <1>1, <1>4
<1>7. 1 \in 1 .. Len(s)
  BY <1>4
<1>8. Range(s) \subseteq {Head(s)} \cup Range(Tail(s))
  <2>1. ASSUME NEW i \in 1 .. Len(s)
        PROVE  s[i] = Head(s) \/ \E j \in 1 .. Len(Tail(s)) : s[i] = Tail(s)[j]
    BY <1>4, <1>5
  <2> QED BY <2>1, <1>2, <1>3
<1>9. {Head(s)} \cup Range(Tail(s)) \subseteq Range(s)
  BY <1>1, <1>2, <1>3, <1>4, <1>6, <1>7
<1> QED BY <1>1, <1>8, <1>9

\* The reverse of a sequence has what the sequence has.
LEMMA ReverseRange ==
  ASSUME NEW S, NEW s \in Seq(S)
  PROVE  Reverse(s) \in Seq(S) /\ Range(Reverse(s)) = Range(s)
<1>1. Reverse(s) \in Seq(S) /\ Len(Reverse(s)) = Len(s)
  BY DEF Reverse
<1>2. \A i \in 1 .. Len(s) : /\ (Len(s) - i) + 1 \in 1 .. Len(s)
                             /\ Reverse(s)[i] = s[(Len(s) - i) + 1]
                             /\ s[i] = Reverse(s)[(Len(s) - i) + 1]
  <2> TAKE i \in 1 .. Len(s)
  <2>1. Len(s) \in Nat /\ i \in Nat
    OBVIOUS
  <2>2. (Len(s) - i) + 1 \in 1 .. Len(s) /\ (Len(s) - ((Len(s) - i) + 1)) + 1 = i
    BY <2>1
  <2> QED BY <2>2 DEF Reverse
<1>3. Range(s) = {s[i] : i \in 1 .. Len(s)}
  BY RangeEquality
<1>4. Range(Reverse(s)) = {Reverse(s)[i] : i \in 1 .. Len(s)}
  BY <1>1, RangeEquality
<1> QED BY <1>1, <1>2, <1>3, <1>4, SMTT(20)

\* The objects of the parts asked for, and those every release has.
Asked(parts) == {ConfigMap, Deployment} \cup UNION {OfPart[p] : p \in parts}

LEMMA PartsOfReleases ==
  /\ OfPart["credentials"] = {Credentials} /\ OfPart["stores"] = {Stores}
  /\ OfPart["image-pull"] = {ImagePull} /\ OfPart["service"] = {Service}
  /\ OfPart["libs"] = {Volume, Claim}
  /\ {ConfigMap, Deployment, Credentials, Stores, ImagePull, Service, Volume, Claim}
       \subseteq Releases
<1>1. /\ OfPart["credentials"] = {Credentials} /\ OfPart["stores"] = {Stores}
      /\ OfPart["image-pull"] = {ImagePull} /\ OfPart["service"] = {Service}
      /\ OfPart["libs"] = {Volume, Claim}
  BY DEF OfPart, Parts
<1> QED BY <1>1 DEF Releases, Parts

\* A conditional part of the manifest.
LEMMA IfAskedRange ==
  ASSUME NEW p, NEW parts, NEW S, NEW s \in Seq(S)
  PROVE  /\ IfAsked(p, parts, s) \in Seq(S)
         /\ Range(IfAsked(p, parts, s)) = IF p \in parts THEN Range(s) ELSE {}
<1>1. <<>> \in Seq(S) /\ Range(<<>>) = {}
  BY DEF Range
<1> QED BY <1>1 DEF IfAsked

\* The sequence begun by s and continued by t.
LEMMA Joined ==
  ASSUME NEW S, NEW s \in Seq(S), NEW t \in Seq(S)
  PROVE  s \o t \in Seq(S) /\ Range(s \o t) = Range(s) \cup Range(t)
BY RangeConcatenation, ConcatProperties

\* A manifest has the documents of the parts asked for, and no other.
LEMMA DocumentsRange ==
  ASSUME NEW parts \in SUBSET Parts
  PROVE  Documents(parts) \in Seq(Releases) /\ Range(Documents(parts)) = Asked(parts)
<1> DEFINE d1 == IfAsked("credentials", parts, <<Credentials>>)
           d2 == IfAsked("stores", parts, <<Stores>>)
           d3 == IfAsked("image-pull", parts, <<ImagePull>>)
           d4 == IfAsked("libs", parts, <<Volume, Claim>>)
           d5 == IfAsked("service", parts, <<Service>>)
           Part(p) == IF p \in parts THEN OfPart[p] ELSE {}
<1>1. /\ \A o \in Releases : <<o>> \in Seq(Releases) /\ Range(<<o>>) = {o}
      /\ <<Volume, Claim>> \in Seq(Releases) /\ Range(<<Volume, Claim>>) = {Volume, Claim}
  <2>1. \A o \in Releases : <<o>> \in Seq(Releases) /\ Range(<<o>>) = {o}
    BY DEF Range
  <2>2. <<Volume, Claim>> \in Seq(Releases)
    BY PartsOfReleases
  <2>3. Range(<<Volume, Claim>>) = {<<Volume, Claim>>[i] : i \in 1 .. 2}
    BY DEF Range
  <2>4. 1 .. 2 = {1, 2}
    OBVIOUS
  <2>5. \A a, b : {<<a, b>>[i] : i \in {1, 2}} = {a, b}
    OBVIOUS
  <2> QED BY <2>1, <2>2, <2>3, <2>4, <2>5
<1>2. /\ <<ConfigMap>> \in Seq(Releases) /\ Range(<<ConfigMap>>) = {ConfigMap}
      /\ <<Deployment>> \in Seq(Releases) /\ Range(<<Deployment>>) = {Deployment}
  BY <1>1, PartsOfReleases
<1>3. /\ d1 \in Seq(Releases) /\ Range(d1) = Part("credentials")
      /\ d2 \in Seq(Releases) /\ Range(d2) = Part("stores")
      /\ d3 \in Seq(Releases) /\ Range(d3) = Part("image-pull")
      /\ d4 \in Seq(Releases) /\ Range(d4) = Part("libs")
      /\ d5 \in Seq(Releases) /\ Range(d5) = Part("service")
  <2>1. ASSUME NEW p, NEW s \in Seq(Releases), Range(s) = OfPart[p]
        PROVE  /\ IfAsked(p, parts, s) \in Seq(Releases)
               /\ Range(IfAsked(p, parts, s)) = Part(p)
    BY <2>1, IfAskedRange
  <2> HIDE DEF Part
  <2>2. /\ <<Credentials>> \in Seq(Releases) /\ Range(<<Credentials>>) = OfPart["credentials"]
        /\ <<Stores>> \in Seq(Releases) /\ Range(<<Stores>>) = OfPart["stores"]
        /\ <<ImagePull>> \in Seq(Releases) /\ Range(<<ImagePull>>) = OfPart["image-pull"]
        /\ <<Service>> \in Seq(Releases) /\ Range(<<Service>>) = OfPart["service"]
        /\ <<Volume, Claim>> \in Seq(Releases) /\ Range(<<Volume, Claim>>) = OfPart["libs"]
    BY <1>1, PartsOfReleases
  <2> QED BY <2>1, <2>2
<1> DEFINE x0 == <<ConfigMap>>
           y == <<Deployment>>
<1>4. x0 \in Seq(Releases) /\ y \in Seq(Releases) /\ Range(x0) = {ConfigMap} /\ Range(y) = {Deployment}
  BY <1>2
<1> HIDE DEF d1, d2, d3, d4, d5, x0, y, Part
<1> DEFINE x1 == x0 \o d1
<1>11. x1 \in Seq(Releases) /\ Range(x1) = Range(x0) \cup Range(d1)
  BY <1>3, <1>4, Joined
<1> HIDE DEF x1
<1> DEFINE x2 == x1 \o d2
<1>12. x2 \in Seq(Releases) /\ Range(x2) = Range(x1) \cup Range(d2)
  BY <1>3, <1>4, <1>11, Joined
<1> HIDE DEF x2
<1> DEFINE x3 == x2 \o d3
<1>13. x3 \in Seq(Releases) /\ Range(x3) = Range(x2) \cup Range(d3)
  BY <1>3, <1>4, <1>12, Joined
<1> HIDE DEF x3
<1> DEFINE x4 == x3 \o d4
<1>14. x4 \in Seq(Releases) /\ Range(x4) = Range(x3) \cup Range(d4)
  BY <1>3, <1>4, <1>13, Joined
<1> HIDE DEF x4
<1> DEFINE x5 == x4 \o y
<1>15. x5 \in Seq(Releases) /\ Range(x5) = Range(x4) \cup Range(y)
  BY <1>3, <1>4, <1>14, Joined
<1> HIDE DEF x5
<1> DEFINE x6 == x5 \o d5
<1>16. x6 \in Seq(Releases) /\ Range(x6) = Range(x5) \cup Range(d5)
  BY <1>3, <1>4, <1>15, Joined
<1> HIDE DEF x6
<1>17. Documents(parts) = x6
  BY DEF Documents, d1, d2, d3, d4, d5, x0, x1, x2, x3, x4, x5, x6, y
<1>18. UNION {OfPart[p] : p \in parts}
         = Part("credentials") \cup Part("stores") \cup Part("image-pull")
             \cup Part("libs") \cup Part("service")
  BY DEF Part, Parts
<1> QED BY <1>3, <1>4, <1>11, <1>12, <1>13, <1>14, <1>15, <1>16, <1>17, <1>18, SMTT(20) DEF Asked

(***************************************************************************)
(* The types                                                               *)
(***************************************************************************)

\* The locals of a run whose documents are in D.
RunOf(D) == [env : Envs, noPrompt : BOOLEAN, err : BOOLEAN,
             seen : SUBSET Objects, todo : Seq(D)]

\* A run waits for the object at the head of what it has left to do.
WaitsForOne == pc = "wait" => run.todo # <<>>

\* What the namespace and the objects in it may be.
ClusterOK ==
  /\ phase \in [Namespaces -> {"absent", "live", "terminating"}]
  /\ objs \in [Namespaces -> SUBSET Objects]
  /\ dying \in [Namespaces -> SUBSET Objects]
  /\ made \in [Namespaces -> SUBSET Releases]
  /\ \A ns \in Namespaces : dying[ns] \cup made[ns] \subseteq objs[ns]

RunOK ==
  /\ pc \in Steps /\ WaitsForOne
  /\ run \in RunOf(IF pc = "apply" THEN Releases \cup NamespaceDocs ELSE Releases)
  /\ verdict \in {"none", "deployed", "removed", "occupied", "cancelled", "failed"}

EnvOK == env \in Envs /\ edits \in 0..MaxEdits /\ faults \in 0..MaxFaults

TInv == ClusterOK /\ RunOK /\ EnvOK

LEMMA TInvTypeOK == TInv => TypeOK
BY DEF TInv, ClusterOK, RunOK, EnvOK, RunOf, TypeOK

\* A run begins with nothing to do.
LEMMA NoRunType == ASSUME NEW D PROVE NoRun \in RunOf(D)
<1>1. /\ (CHOOSE n \in Namespaces : TRUE) \in Namespaces
      /\ (CHOOSE p \in PartChoices : TRUE) \in PartChoices
  BY KubeAssumption
<1>2. <<>> \in Seq(D)
  OBVIOUS
<1> QED BY <1>1, <1>2 DEF NoRun, Envs, RunOf

\* An environment names a namespace and parts.
LEMMA EnvParts ==
  ASSUME NEW e \in Envs
  PROVE  /\ e.ns \in Namespaces /\ e.parts \in SUBSET Parts
         /\ Obj("Namespace", e.ns) \in NamespaceDocs
BY KubeAssumption DEF Envs, NamespaceDocs

\* A run of which some locals are replaced.
LEMMA RunReplaced ==
  ASSUME NEW D, NEW r \in RunOf(D), NEW E
  PROVE  /\ r.env \in Envs /\ r.noPrompt \in BOOLEAN /\ r.err \in BOOLEAN
         /\ r.seen \in SUBSET Objects /\ r.todo \in Seq(D)
         /\ \A t \in Seq(E) : [r EXCEPT !.todo = t] \in RunOf(E)
         /\ \A t \in Seq(E), b \in BOOLEAN : [r EXCEPT !.todo = t, !.err = b] \in RunOf(E)
         /\ \A t \in Seq(E), e \in Envs : [r EXCEPT !.env = e, !.todo = t] \in RunOf(E)
         /\ \A t \in Seq(E), b \in BOOLEAN, s \in SUBSET Objects :
              [r EXCEPT !.todo = t, !.err = b, !.seen = s] \in RunOf(E)
         /\ \A s \in SUBSET Objects : [r EXCEPT !.seen = s] \in RunOf(D)
         /\ \A e \in Envs, b \in BOOLEAN : [r EXCEPT !.env = e, !.noPrompt = b] \in RunOf(D)
BY DEF RunOf

LEMMA InitTInv == Init => TInv
<1> SUFFICES ASSUME Init PROVE TInv
  OBVIOUS
<1>1. ClusterOK
  BY DEF Init, ClusterOK, Objects
<1>2. RunOK
  BY NoRunType DEF Init, RunOK, WaitsForOne, Steps
<1>3. EnvOK
  BY KubeAssumption DEF Init, EnvOK
<1> QED BY <1>1, <1>2, <1>3 DEF TInv

\* A step of a run that leaves the cluster alone.
LEMMA ClusterOKKept == ASSUME UNCHANGED cluster, ClusterOK PROVE ClusterOK'
BY DEF cluster, ClusterOK

\* A run that ends.
LEMMA FinishRunOK ==
  ASSUME NEW v \in {"none", "deployed", "removed", "occupied", "cancelled", "failed"},
         Finish(v)
  PROVE  RunOK'
BY NoRunType DEF Finish, RunOK, WaitsForOne, Steps

\* A fault that happens is within the bound.
LEMMA FaultEnvOK == ASSUME EnvOK, Fault, UNCHANGED <<env, edits>> PROVE EnvOK'
BY KubeAssumption DEF EnvOK, Fault

\* An object put into a namespace.
LEMMA PutOK ==
  ASSUME ClusterOK, NEW m \in Namespaces, NEW o \in Objects, Put(m, o)
  PROVE  /\ objs' \in [Namespaces -> SUBSET Objects]
         /\ objs'[m] = objs[m] \cup {o}
         /\ \A ns \in Namespaces \ {m} : objs'[ns] = objs[ns]
BY DEF ClusterOK, Put

LEMMA DropOK ==
  ASSUME ClusterOK, NEW m \in Namespaces, NEW o, Drop(m, o), UNCHANGED phase
  PROVE  /\ ClusterOK'
         /\ objs'[m] = objs[m] \ {o} /\ dying'[m] = dying[m] \ {o}
         /\ \A ns \in Namespaces \ {m} : objs'[ns] = objs[ns] /\ dying'[ns] = dying[ns]
<1>1. /\ objs' \in [Namespaces -> SUBSET Objects]
      /\ dying' \in [Namespaces -> SUBSET Objects]
      /\ made' \in [Namespaces -> SUBSET Releases]
  BY DEF ClusterOK, Drop
<1>2. /\ objs'[m] = objs[m] \ {o} /\ dying'[m] = dying[m] \ {o} /\ made'[m] = made[m] \ {o}
      /\ \A ns \in Namespaces \ {m} : /\ objs'[ns] = objs[ns] /\ dying'[ns] = dying[ns]
                                      /\ made'[ns] = made[ns]
  BY DEF ClusterOK, Drop
<1>3. ASSUME NEW ns \in Namespaces PROVE dying'[ns] \cup made'[ns] \subseteq objs'[ns]
  BY <1>2 DEF ClusterOK
<1> QED BY <1>1, <1>2, <1>3 DEF ClusterOK

\* An object marked for deletion.
LEMMA MarkOK ==
  ASSUME ClusterOK, NEW m \in Namespaces, NEW S, S \subseteq objs[m],
         dying' = [dying EXCEPT ![m] = @ \cup S], UNCHANGED <<objs, made>>,
         phase' \in [Namespaces -> {"absent", "live", "terminating"}]
  PROVE  ClusterOK'
<1>1. dying'[m] = dying[m] \cup S
  BY DEF ClusterOK
<1>2. \A ns \in Namespaces \ {m} : dying'[ns] = dying[ns]
  BY DEF ClusterOK
<1>3. dying' \in [Namespaces -> SUBSET Objects]
  BY DEF ClusterOK
<1> QED BY <1>1, <1>2, <1>3 DEF ClusterOK

LEMMA SharedAreNamespaces == Shared \subseteq Namespaces
BY KubeAssumption

LEMMA ReleasesAreObjects == Releases \subseteq Objects /\ RootCA \in Objects /\ Volume \in Releases
BY PartsOfReleases DEF Objects

LEMMA DeployKeepsTInv == ASSUME TInv, Deploys PROVE TInv'
<1> USE DEF TInv
<1>1. CASE BeginDeploy
  <2> DEFINE todo == <<Obj("Namespace", env.ns)>> \o Documents(env.parts)
  <2>1. todo \in Seq(Releases \cup NamespaceDocs)
    <3>1. /\ Documents(env.parts) \in Seq(Releases \cup NamespaceDocs)
          /\ <<Obj("Namespace", env.ns)>> \in Seq(Releases \cup NamespaceDocs)
      BY EnvParts, DocumentsRange DEF EnvOK
    <3> QED BY <3>1, Joined
  <2>2. [NoRun EXCEPT !.env = env, !.todo = todo] \in RunOf(Releases \cup NamespaceDocs)
    <3>1. NoRun \in RunOf(Releases) /\ env \in Envs
      BY NoRunType DEF EnvOK
    <3> HIDE DEF todo
    <3> QED BY <2>1, <3>1, RunReplaced
  <2>3. RunOK'
    BY <1>1, <2>2 DEF BeginDeploy, Goto, RunOK, WaitsForOne, Steps
  <2> QED BY <1>1, <2>3, ClusterOKKept DEF BeginDeploy, EnvOK
<1>2. CASE ApplyNamespace
  <2>1. run.env \in Envs /\ run.todo \in Seq(Releases \cup NamespaceDocs)
    BY <1>2, RunReplaced DEF ApplyNamespace, RunOK
  <2>2. RunOK'
    BY <1>2, <2>1, TailRange, RunReplaced DEF ApplyNamespace, RunOK, WaitsForOne
  <2>3. ClusterOK'
    <3>1. CASE phase[run.env.ns] = "absent"
      <4>1. Put(run.env.ns, RootCA) /\ UNCHANGED <<dying, made>>
            /\ phase' = [phase EXCEPT ![run.env.ns] = "live"]
        BY <1>2, <3>1 DEF ApplyNamespace
      <4> QED BY <2>1, <4>1, EnvParts, PutOK, ReleasesAreObjects DEF ClusterOK
    <3>2. CASE phase[run.env.ns] # "absent"
      BY <1>2, <3>2, ClusterOKKept DEF ApplyNamespace, cluster
    <3> QED BY <3>1, <3>2
  <2> QED BY <1>2, <2>2, <2>3 DEF ApplyNamespace, EnvOK
<1>3. CASE ApplyObject
  <2> DEFINE n == run.env.ns
             o == Head(run.todo)
             ok == phase[n] = "live" \/ o \in objs[n] \cup {Volume}
  <2>1. /\ run.env \in Envs /\ run.todo \in Seq(Releases \cup NamespaceDocs)
        /\ run \in RunOf(Releases \cup NamespaceDocs) /\ pc = "apply" /\ pc' = "apply"
        /\ run.todo # <<>>
    BY <1>3, RunReplaced DEF ApplyObject, RunOK
  <2>2. n \in Namespaces /\ Tail(run.todo) \in Seq(Releases \cup NamespaceDocs) /\ o \in Releases
    <3>1. o \in Releases \cup NamespaceDocs /\ Tail(run.todo) \in Seq(Releases \cup NamespaceDocs)
      BY <2>1, TailRange
    <3>2. o.kind # "Namespace"
      BY <1>3 DEF ApplyObject
    <3>3. \A d \in NamespaceDocs : d.kind = "Namespace"
      <4>1. \A ns : Obj("Namespace", ns).kind = "Namespace"
        BY DEF Obj
      <4> QED BY <4>1 DEF NamespaceDocs
    <3> QED BY <2>1, <3>1, <3>2, <3>3, EnvParts
  <2> HIDE DEF ok
  <2>3. RunOK'
    <3>1. (run.err \/ ~ok) \in BOOLEAN /\ run.seen \cup (dying[n] \cap {o}) \in SUBSET Objects
      BY <2>1, <2>2, RunReplaced DEF ClusterOK
    <3>2. run' = [run EXCEPT !.todo = Tail(@), !.err = @ \/ ~ok, !.seen = @ \cup (dying[n] \cap {o})]
      BY <1>3 DEF ApplyObject, ok
    <3>3. run' \in RunOf(Releases \cup NamespaceDocs)
      <4>1. [run EXCEPT !.todo = Tail(run.todo), !.err = run.err \/ ~ok,
                        !.seen = run.seen \cup (dying[n] \cap {o})]
              \in RunOf(Releases \cup NamespaceDocs)
        BY <2>1, <2>2, <3>1, RunReplaced
      <4> QED BY <2>1, <3>2, <4>1 DEF RunOf
    <3> QED BY <1>3, <2>1, <3>3 DEF ApplyObject, RunOK, WaitsForOne
  <2>4. ClusterOK'
    <3>1. CASE ok
      <4>1. Put(n, o) /\ made' = [made EXCEPT ![n] = @ \cup {o}] /\ UNCHANGED <<phase, dying>>
        BY <1>3, <3>1 DEF ApplyObject, ok
      <4>2. /\ objs' \in [Namespaces -> SUBSET Objects] /\ objs'[n] = objs[n] \cup {o}
            /\ \A ns \in Namespaces \ {n} : objs'[ns] = objs[ns]
        BY <2>2, <4>1, PutOK, ReleasesAreObjects
      <4>3. /\ made' \in [Namespaces -> SUBSET Releases] /\ made'[n] = made[n] \cup {o}
            /\ \A ns \in Namespaces \ {n} : made'[ns] = made[ns]
        BY <2>2, <4>1 DEF ClusterOK
      <4> QED BY <4>1, <4>2, <4>3 DEF ClusterOK
    <3>2. CASE ~ok
      BY <1>3, <3>2, ClusterOKKept DEF ApplyObject, ok, cluster
    <3> QED BY <3>1, <3>2
  <2> QED BY <1>3, <2>3, <2>4 DEF ApplyObject, EnvOK
<1>4. CASE ReportDeploy
  <2>1. RunOK'
    BY <1>4, FinishRunOK DEF ReportDeploy
  <2> QED BY <1>4, <2>1, ClusterOKKept DEF ReportDeploy, EnvOK
<1> QED BY <1>1, <1>2, <1>3, <1>4 DEF Deploys

LEMMA RemoveKeepsTInv == ASSUME TInv, Removes PROVE TInv'
<1> USE DEF TInv
<1>1. ASSUME NEW b \in BOOLEAN, BeginRemove(b) PROVE TInv'
  <2>1. [NoRun EXCEPT !.env = env, !.noPrompt = b] \in RunOf(Releases)
    BY NoRunType, RunReplaced DEF EnvOK
  <2>2. RunOK'
    BY <1>1, <2>1 DEF BeginRemove, Goto, RunOK, WaitsForOne, Steps
  <2> QED BY <1>1, <2>2, ClusterOKKept DEF BeginRemove, EnvOK
<1>2. ASSUME NEW b \in BOOLEAN, AnswerRemove(b) \/ AnswerNamespace(b) PROVE TInv'
  <2>1. CASE b
    BY <1>2, <2>1, ClusterOKKept
       DEF AnswerRemove, AnswerNamespace, RunOK, WaitsForOne, Steps, EnvOK
  <2>2. CASE ~b
    BY <1>2, <2>2, ClusterOKKept, FinishRunOK DEF AnswerRemove, AnswerNamespace, EnvOK
  <2> QED BY <2>1, <2>2
<1>3. CASE LoadEnv
  <2>1. TeardownDocuments(env.parts) \in Seq(Releases)
    <3>1. env.parts \cup {"stores"} \in SUBSET Parts
      BY EnvParts DEF EnvOK, Parts
    <3> QED BY <3>1, DocumentsRange, ReverseRange DEF TeardownDocuments
  <2>2. RunOK'
    BY <1>3, <2>1, RunReplaced DEF LoadEnv, Goto, RunOK, WaitsForOne, Steps, EnvOK
  <2> QED BY <1>3, <2>2, ClusterOKKept DEF LoadEnv, EnvOK
<1>4. CASE DeleteObject
  <2> DEFINE n == run.env.ns
             o == Head(run.todo)
  <2>1. /\ run.todo \in Seq(Releases) /\ run.todo # <<>> /\ n \in Namespaces
        /\ run \in RunOf(Releases) /\ pc = "delete"
    BY <1>4, RunReplaced, EnvParts DEF DeleteObject, RunOK
  <2>2. Tail(run.todo) \in Seq(Releases) /\ o \in Releases
    BY <2>1, TailRange
  <2> HIDE DEF n, o
  <2>3. CASE o \in objs[n] /\ Held(n, o)
    <3>1. /\ dying' = [dying EXCEPT ![n] = @ \cup {o}] /\ UNCHANGED <<phase, objs, made, run>>
          /\ pc' = "wait"
      BY <1>4, <2>3 DEF DeleteObject, n, o
    <3>2. ClusterOK'
      <4>1. phase' \in [Namespaces -> {"absent", "live", "terminating"}]
        BY <3>1 DEF ClusterOK
      <4> DEFINE S == {o}
      <4>2. S \subseteq objs[n] /\ UNCHANGED <<objs, made>>
        BY <2>3, <3>1
      <4>3. dying' = [dying EXCEPT ![n] = @ \cup S]
        BY <3>1
      <4> HIDE DEF S
      <4> QED BY <2>1, <4>1, <4>2, <4>3, MarkOK
    <3>3. RunOK'
      BY <1>4, <2>1, <3>1 DEF DeleteObject, RunOK, WaitsForOne, Steps
    <3> QED BY <1>4, <3>2, <3>3 DEF DeleteObject, EnvOK
  <2>4. CASE ~(o \in objs[n] /\ Held(n, o))
    <3>1. Drop(n, o) /\ run' = [run EXCEPT !.todo = Tail(@)] /\ UNCHANGED <<phase, pc>>
      BY <1>4, <2>4 DEF DeleteObject, n, o
    <3>2. ClusterOK'
      BY <2>1, <3>1, DropOK
    <3>3. RunOK'
      BY <1>4, <2>1, <2>2, <3>1, RunReplaced DEF DeleteObject, RunOK, WaitsForOne
    <3> QED BY <1>4, <3>2, <3>3 DEF DeleteObject, EnvOK
  <2> QED BY <2>3, <2>4
<1>5. CASE DeleteWaited
  <2>1. run.todo \in Seq(Releases) /\ run.todo # <<>> /\ run \in RunOf(Releases)
    BY <1>5, RunReplaced DEF DeleteWaited, Goto, RunOK, WaitsForOne
  <2>2. RunOK'
    BY <1>5, <2>1, TailRange, RunReplaced DEF DeleteWaited, Goto, RunOK, WaitsForOne, Steps
  <2> QED BY <1>5, <2>2, ClusterOKKept DEF DeleteWaited, EnvOK
<1>6. CASE TeardownEnds
  <2>1. CASE run.err
    BY <1>6, <2>1, ClusterOKKept, FinishRunOK DEF TeardownEnds, EnvOK
  <2>2. CASE ~run.err
    BY <1>6, <2>2, ClusterOKKept
       DEF TeardownEnds, RunOK, WaitsForOne, Steps, EnvOK
  <2> QED BY <2>1, <2>2
<1>7. CASE KeepWellKnown \/ KeepOccupied \/ NamespaceGone
  BY <1>7, ClusterOKKept, FinishRunOK DEF KeepWellKnown, KeepOccupied, NamespaceGone, EnvOK
<1>8. CASE OfferNamespace
  <2>1. run \in RunOf(Releases) /\ run.env.ns \in Namespaces
    BY <1>8, RunReplaced, EnvParts DEF OfferNamespace, RunOK
  <2>2. Listed(run.env.ns) \in SUBSET Objects
    BY <2>1 DEF Listed, ClusterOK
  <2>3. [run EXCEPT !.seen = Listed(run.env.ns)] \in RunOf(Releases)
    BY <2>1, <2>2, RunReplaced
  <2>4. RunOK'
    BY <1>8, <2>3 DEF OfferNamespace, RunOK, WaitsForOne, Steps
  <2> QED BY <1>8, <2>4, ClusterOKKept DEF OfferNamespace, EnvOK
<1>9. CASE DeleteNamespace
  <2> DEFINE n == run.env.ns
  <2>1. n \in Namespaces
    BY <1>9, RunReplaced, EnvParts DEF RunOK
  <2>2. RunOK'
    BY <1>9 DEF DeleteNamespace, Goto, RunOK, WaitsForOne, Steps
  <2>3. phase' \in [Namespaces -> {"absent", "live", "terminating"}]
    BY <1>9 DEF DeleteNamespace, ClusterOK
  <2>4. dying' = [dying EXCEPT ![n] = @ \cup (objs[n] \ {Volume})] /\ UNCHANGED <<objs, made>>
    BY <1>9 DEF DeleteNamespace
  <2>5. ClusterOK'
    <3> DEFINE S == objs[n] \ {Volume}
    <3>1. S \subseteq objs[n] /\ dying' = [dying EXCEPT ![n] = @ \cup S]
      BY <2>4
    <3> HIDE DEF n, S
    <3> QED BY <2>1, <2>3, <2>4, <3>1, MarkOK
  <2> QED BY <1>9, <2>2, <2>5 DEF DeleteNamespace, EnvOK
<1> QED
  BY <1>1, <1>2, <1>3, <1>4, <1>5, <1>6, <1>7, <1>8, <1>9 DEF Removes, Teardown

LEMMA FaultsKeepTInv ==
  ASSUME TInv, DocumentFails \/ ListingFails \/ RunEnds PROVE TInv'
<1> USE DEF TInv
<1>1. CASE DocumentFails
  <2> DEFINE D == IF pc = "apply" THEN Releases \cup NamespaceDocs ELSE Releases
  <2>1. run.todo \in Seq(D) /\ run.todo # <<>> /\ run \in RunOf(D)
    BY <1>1, RunReplaced DEF DocumentFails, RunOK
  <2> HIDE DEF D
  <2>2. Tail(run.todo) \in Seq(D)
    BY <2>1, TailRange
  <2>3. run' \in RunOf(D)
    BY <1>1, <2>1, <2>2, RunReplaced DEF DocumentFails
  <2>4. RunOK'
    BY <1>1, <2>3 DEF DocumentFails, RunOK, WaitsForOne, D
  <2> QED BY <1>1, <2>4, ClusterOKKept, FaultEnvOK DEF DocumentFails
<1>2. CASE ListingFails \/ RunEnds
  BY <1>2, ClusterOKKept, FinishRunOK, FaultEnvOK DEF ListingFails, RunEnds
<1> QED BY <1>1, <1>2

\* What the cluster and other people do is done behind the run's back.
LEMMA CreateKeepsTInv ==
  ASSUME TInv, NEW m \in Namespaces, NEW o \in Objects, Create(m, o) PROVE TInv'
<1>1. /\ objs' \in [Namespaces -> SUBSET Objects] /\ objs'[m] = objs[m] \cup {o}
      /\ \A ns \in Namespaces \ {m} : objs'[ns] = objs[ns]
  BY PutOK DEF Create, TInv
<1>2. ClusterOK'
  BY <1>1 DEF Create, TInv, ClusterOK
<1> QED BY <1>2 DEF Create, TInv, RunOK, WaitsForOne, EnvOK

LEMMA DropKeepsTInv ==
  ASSUME TInv, NEW m \in Namespaces, NEW o, Drop(m, o),
         UNCHANGED <<env, phase, pc, run, verdict, edits, faults>>
  PROVE  TInv'
BY DropOK DEF TInv, RunOK, WaitsForOne, EnvOK

LEMMA ClusterKeepsTInv ==
  ASSUME TInv, NEW m \in Namespaces, Cluster(m) \/ OthersAct(m)
  PROVE  TInv'
<1>1. CASE Controller(m)
  BY <1>1, CreateKeepsTInv DEF Controller, Objects
<1>2. CASE CollectGarbage(m)
  <2>1. CASE Drop(m, ReplicaSet)
    BY <1>2, <2>1, DropKeepsTInv DEF CollectGarbage
  <2>2. CASE /\ Pod \in objs[m] /\ UNCHANGED <<objs, made>>
             /\ dying' = [dying EXCEPT ![m] = @ \cup {Pod}]
    <3>1. phase' \in [Namespaces -> {"absent", "live", "terminating"}]
      BY <1>2 DEF CollectGarbage, TInv, ClusterOK
    <3>2. ClusterOK'
      <4>1. {Pod} \subseteq objs[m]
        BY <2>2
      <4> QED BY <2>2, <3>1, <4>1, MarkOK DEF TInv
    <3> QED BY <1>2, <3>2 DEF CollectGarbage, TInv, RunOK, WaitsForOne, EnvOK
  <2> QED BY <1>2, <2>1, <2>2 DEF CollectGarbage
<1>3. CASE NamespaceTerminates(m)
  <2>1. phase' \in [Namespaces -> {"absent", "live", "terminating"}]
    BY <1>3 DEF NamespaceTerminates, TInv, ClusterOK
  <2> QED BY <1>3, <2>1 DEF NamespaceTerminates, TInv, ClusterOK, RunOK, WaitsForOne, EnvOK
<1>4. ASSUME NEW o \in Objects, TerminateObject(m, o) PROVE TInv'
  BY <1>4, DropKeepsTInv DEF TerminateObject
<1>5. ASSUME NEW o \in Others, Create(m, o) PROVE TInv'
  BY <1>5, CreateKeepsTInv DEF Objects
<1>6. ASSUME NEW o \in Others, Drop(m, o),
             UNCHANGED <<env, phase, pc, run, verdict, edits, faults>>
      PROVE  TInv'
  BY <1>6, DropKeepsTInv
<1> QED BY <1>1, <1>2, <1>3, <1>4, <1>5, <1>6 DEF Cluster, OthersAct

LEMMA NextKeepsTInv == TInv /\ [Next]_vars => TInv'
<1> SUFFICES ASSUME TInv, [Next]_vars PROVE TInv'
  OBVIOUS
<1>1. ASSUME NEW e \in Envs, EditEnv(e) PROVE TInv'
  BY <1>1, ClusterOKKept, KubeAssumption DEF EditEnv, TInv, RunOK, WaitsForOne, EnvOK
<1>2. CASE UNCHANGED vars
  BY <1>2, ClusterOKKept DEF vars, TInv, RunOK, WaitsForOne, EnvOK, cluster
<1> QED
  BY <1>1, <1>2, DeployKeepsTInv, RemoveKeepsTInv, FaultsKeepTInv, ClusterKeepsTInv,
     SharedAreNamespaces
  DEF Next

LEMMA TypesInvariant == Spec => []TInv
BY InitTInv, NextKeepsTInv, PTL DEF Spec

\* Every variable keeps its type through deploys, removes, faults and whatever
\* the cluster and other people do (actKubernetes, removeNamespace).
THEOREM KubeTypes == Spec => []TypeOK
BY TypesInvariant, TInvTypeOK, PTL

(***************************************************************************)
(* What a deploy leaves, and a remove                                      *)
(***************************************************************************)

\* The ConfigMap, which every release has, is only in a live namespace.
ConfigMapLive ==
  \A ns \in Namespaces : ConfigMap \in objs[ns] => phase[ns] = "live"

\* Of the documents of its spec, a deploy that met no error has applied those
\* it has no longer to do, and nothing has taken them away since.
Applied ==
  pc = "apply" /\ ~run.err =>
    \A o \in Asked(run.env.parts) \ Range(run.todo) :
      /\ o \in run.seen \cup (objs[run.env.ns] \ dying[run.env.ns])
      /\ o = ConfigMap => phase[run.env.ns] = "live"

\* The steps of a remove that come after a teardown without an error.
Namespacing == {"occupancy", "askns", "deletens", "waitns"}

\* Of the objects of its spec, and the stores Secret, a remove that met no
\* error has deleted those it has no longer to do, and nobody has put them back.
Deleted ==
  /\ pc \in Namespacing => run.todo = <<>>
  /\ pc \in Namespacing \/ (pc \in {"delete", "wait"} /\ ~run.err) =>
       Asked(run.env.parts \cup {"stores"}) \cap objs[run.env.ns]
         \subseteq Range(run.todo)

SInv == TInv /\ ConfigMapLive /\ Applied /\ Deleted

\* What is asked for is of the release.
LEMMA AskedOfReleases ==
  ASSUME NEW parts \in SUBSET Parts
  PROVE  /\ Asked(parts) \subseteq Releases /\ ConfigMap \in Asked(parts)
         /\ parts \cup {"stores"} \in SUBSET Parts
BY DEF Asked, Releases, Parts

\* What the documents of the release are called.
LEMMA ReleaseKinds ==
  ASSUME NEW o \in Releases
  PROVE  /\ o.kind \notin {"Namespace", "ReplicaSet", "Pod"}
         /\ o.name # "kube-root-ca.crt"
<1>1. \A k, n : Obj(k, n).kind = k /\ Obj(k, n).name = n
  BY DEF Obj
<1>2. o \in {ConfigMap, Deployment, Credentials, Stores, ImagePull, Service, Volume, Claim}
  BY PartsOfReleases DEF Releases, Parts
<1> QED BY <1>1, <1>2 DEF ConfigMap, Deployment, Credentials, Stores, ImagePull, Service,
                          Volume, Claim

\* What the controllers make, and what other people have, is not.
LEMMA NotReleases ==
  /\ ReplicaSet \notin Releases /\ Pod \notin Releases /\ RootCA \notin Releases
  /\ Others \cap Releases = {} /\ ConfigMap \in Releases /\ ConfigMap # Volume
<1>1. ReplicaSet.kind = "ReplicaSet" /\ Pod.kind = "Pod" /\ RootCA.name = "kube-root-ca.crt"
  BY DEF ReplicaSet, Pod, RootCA, Obj
<1>3. ConfigMap # Volume
  BY DEF ConfigMap, Volume, Obj
<1> QED BY <1>1, <1>3, ReleaseKinds, OthersAssumption, PartsOfReleases

\* What the cluster and other people do to the objects of the release: they make
\* none, and take away only what was being deleted.
Settles ==
  /\ UNCHANGED <<pc, run, verdict>>
  /\ \A ns \in Namespaces :
       /\ phase'[ns] = phase[ns] \/ phase[ns] = "terminating"
       /\ \A o \in Releases :
            /\ o \in objs'[ns] => o \in objs[ns]
            /\ o \in objs[ns] \ dying[ns] => o \in objs'[ns] \ dying'[ns]

LEMMA CreateSettles ==
  ASSUME TInv, NEW m \in Namespaces, NEW o \in Objects \ Releases, Create(m, o)
  PROVE  Settles
<1>1. /\ objs'[m] = objs[m] \cup {o}
      /\ \A ns \in Namespaces \ {m} : objs'[ns] = objs[ns]
  BY PutOK DEF Create, TInv
<1> QED BY <1>1 DEF Create, Settles

LEMMA DropSettles ==
  ASSUME TInv, NEW m \in Namespaces, NEW o, o \in Releases => o \in dying[m],
         Drop(m, o), UNCHANGED <<phase, pc, run, verdict>>
  PROVE  Settles
<1>1. /\ objs'[m] = objs[m] \ {o} /\ dying'[m] = dying[m] \ {o}
      /\ \A ns \in Namespaces \ {m} : objs'[ns] = objs[ns] /\ dying'[ns] = dying[ns]
  BY DropOK DEF TInv
<1> QED BY <1>1 DEF Settles

LEMMA ClusterSettles ==
  ASSUME TInv, NEW m \in Namespaces, Cluster(m) \/ OthersAct(m)
  PROVE  Settles
<1>1. CASE Controller(m)
  BY <1>1, CreateSettles, NotReleases DEF Controller, Objects
<1>2. CASE CollectGarbage(m)
  <2>1. CASE Drop(m, ReplicaSet)
    BY <1>2, <2>1, DropSettles, NotReleases DEF CollectGarbage
  <2>2. CASE UNCHANGED objs /\ dying' = [dying EXCEPT ![m] = @ \cup {Pod}]
    <3>1. \A ns \in Namespaces : dying'[ns] \subseteq dying[ns] \cup {Pod}
      BY <2>2 DEF TInv, ClusterOK
    <3> QED BY <1>2, <2>2, <3>1, NotReleases DEF CollectGarbage, Settles
  <2> QED BY <1>2, <2>1, <2>2 DEF CollectGarbage
<1>3. CASE NamespaceTerminates(m)
  BY <1>3 DEF NamespaceTerminates, Settles, TInv, ClusterOK
<1>4. ASSUME NEW o \in Objects, TerminateObject(m, o) PROVE Settles
  BY <1>4, DropSettles DEF TerminateObject
<1>5. ASSUME NEW o \in Others, Create(m, o) PROVE Settles
  BY <1>5, CreateSettles, NotReleases DEF Objects
<1>6. ASSUME NEW o \in Others, Drop(m, o), UNCHANGED <<phase, pc, run, verdict>>
      PROVE  Settles
  BY <1>6, DropSettles, NotReleases
<1> QED BY <1>1, <1>2, <1>3, <1>4, <1>5, <1>6 DEF Cluster, OthersAct

\* The namespace of a run, and the parts it asks for.
LEMMA RunEnv ==
  ASSUME TInv
  PROVE  run.env \in Envs /\ run.env.ns \in Namespaces /\ run.env.parts \in SUBSET Parts
BY RunReplaced, EnvParts DEF TInv, RunOK

LEMMA SettlesKeepsSInv ==
  ASSUME SInv, Settles, TInv'
  PROVE  SInv'
<1>1. run.env.ns \in Namespaces /\ run.env.parts \in SUBSET Parts
  BY RunEnv DEF SInv
<1>2. Asked(run.env.parts) \subseteq Releases /\ Asked(run.env.parts \cup {"stores"}) \subseteq Releases
  BY <1>1, AskedOfReleases
<1>3. ConfigMapLive'
  BY NotReleases DEF SInv, Settles, ConfigMapLive
<1>4. Applied'
  BY <1>1, <1>2 DEF SInv, Settles, Applied
<1>5. Deleted'
  BY <1>1, <1>2 DEF SInv, Settles, Deleted
<1> QED BY <1>3, <1>4, <1>5 DEF SInv

\* Nothing holds of a run that has not begun.
LEMMA IdleKeepsSInv ==
  ASSUME SInv, UNCHANGED cluster, TInv', pc' \in {"idle", "ask", "load"}
  PROVE  SInv'
BY DEF SInv, cluster, ConfigMapLive, Applied, Deleted, Namespacing

LEMMA InitSInv == Init => SInv
<1> SUFFICES ASSUME Init PROVE SInv
  OBVIOUS
<1>1. ConfigMapLive
  BY NotReleases DEF Init, ConfigMapLive
<1> QED BY <1>1, InitTInv DEF Init, SInv, Applied, Deleted, Namespacing

LEMMA DeployKeepsSInv ==
  ASSUME SInv, Deploys, TInv'
  PROVE  SInv'
<1> USE DEF SInv
<1>1. CASE BeginDeploy
  <2>1. run'.env = env /\ run'.todo = <<Obj("Namespace", env.ns)>> \o Documents(env.parts)
    BY <1>1 DEF BeginDeploy, NoRun
  <2>2. Range(run'.todo) = Range(<<Obj("Namespace", env.ns)>>) \cup Asked(env.parts)
    <3>1. /\ Documents(env.parts) \in Seq(Releases \cup NamespaceDocs)
          /\ <<Obj("Namespace", env.ns)>> \in Seq(Releases \cup NamespaceDocs)
          /\ Range(Documents(env.parts)) = Asked(env.parts)
      BY EnvParts, DocumentsRange DEF TInv, EnvOK
    <3>2. Range(<<Obj("Namespace", env.ns)>> \o Documents(env.parts))
            = Range(<<Obj("Namespace", env.ns)>>) \cup Range(Documents(env.parts))
      <4> DEFINE a == <<Obj("Namespace", env.ns)>>
                 b == Documents(env.parts)
      <4>1. a \in Seq(Releases \cup NamespaceDocs) /\ b \in Seq(Releases \cup NamespaceDocs)
        BY <3>1
      <4> HIDE DEF a, b
      <4>2. Range(a \o b) = Range(a) \cup Range(b)
        BY <4>1, Joined
      <4> QED BY <4>2 DEF a, b
    <3> QED BY <2>1, <3>1, <3>2
  <2> QED BY <1>1, <2>1, <2>2
          DEF BeginDeploy, Goto, cluster, ConfigMapLive, Applied, Deleted, Namespacing
<1>2. CASE ApplyNamespace
  <2> DEFINE n == run.env.ns
             D == Releases \cup NamespaceDocs
  <2>1. n \in Namespaces /\ run.env.parts \in SUBSET Parts /\ run \in RunOf(D)
    BY <1>2, RunEnv DEF ApplyNamespace, TInv, RunOK
  <2>2. /\ Range(run.todo) = {Head(run.todo)} \cup Range(run'.todo)
        /\ run'.env = run.env /\ run'.err = run.err /\ run'.seen = run.seen
    <3>1. run.todo \in Seq(D) /\ run.todo # <<>> /\ run' = [run EXCEPT !.todo = Tail(@)]
      BY <1>2, <2>1, RunReplaced DEF ApplyNamespace
    <3> QED BY <2>1, <3>1, TailRange DEF RunOf
  <2>3. \A ns \in Namespaces : /\ phase'[ns] = phase[ns] \/ phase'[ns] = "live"
                               /\ objs'[ns] = objs[ns] \/ objs'[ns] = objs[ns] \cup {RootCA}
    BY <1>2 DEF ApplyNamespace, Put, TInv, ClusterOK
  <2>4. ConfigMapLive'
    BY <2>3, NotReleases DEF ConfigMapLive
  <2>5. Applied'
    <3>1. Asked(run.env.parts) \subseteq Releases /\ Head(run.todo) \notin Releases
      <4> QED BY <1>2, <2>1, ReleaseKinds, AskedOfReleases DEF ApplyNamespace
    <3>2. UNCHANGED <<pc, dying>>
      BY <1>2 DEF ApplyNamespace
    <3> QED BY <2>1, <2>2, <2>3, <3>1, <3>2 DEF Applied
  <2> QED BY <1>2, <2>4, <2>5 DEF ApplyNamespace, Deleted, Namespacing
<1>3. CASE ApplyObject
  <2> DEFINE n == run.env.ns
             o == Head(run.todo)
             D == Releases \cup NamespaceDocs
             ok == phase[n] = "live" \/ o \in objs[n] \cup {Volume}
  <2>1. n \in Namespaces /\ run.env.parts \in SUBSET Parts /\ run \in RunOf(D)
    BY <1>3, RunEnv DEF ApplyObject, TInv, RunOK
  <2>2. run.todo \in Seq(D) /\ run.todo # <<>>
    BY <1>3, <2>1, RunReplaced DEF ApplyObject
  <2> HIDE DEF ok
  <2>3. Range(run.todo) = {o} \cup Range(Tail(run.todo)) /\ o \in D
    BY <2>2, TailRange
  <2>4. /\ run'.todo = Tail(run.todo) /\ run'.env = run.env /\ run'.err = (run.err \/ ~ok)
        /\ run'.seen = run.seen \cup (dying[n] \cap {o})
    <3>1. run' = [run EXCEPT !.todo = Tail(@), !.err = @ \/ ~ok, !.seen = @ \cup (dying[n] \cap {o})]
      BY <1>3 DEF ApplyObject, ok
    <3> HIDE DEF n, o
    <3> QED BY <2>1, <3>1 DEF RunOf
  <2>5. UNCHANGED <<phase, dying, pc>> /\ pc = "apply"
    BY <1>3 DEF ApplyObject
  <2>6. \A ns \in Namespaces : objs'[ns] = objs[ns] \/ (ns = n /\ ok /\ objs'[ns] = objs[ns] \cup {o})
    <3>1. CASE ok
      BY <1>3, <3>1 DEF ApplyObject, ok, Put, TInv, ClusterOK
    <3>2. CASE ~ok
      BY <1>3, <3>2 DEF ApplyObject, ok
    <3> QED BY <3>1, <3>2
  <2>7. ok => o \in objs'[n]
    BY <1>3, <2>1 DEF ApplyObject, ok, Put, TInv, ClusterOK
  <2>8. ok /\ o = ConfigMap => phase[n] = "live"
    BY <2>1, NotReleases DEF ok, ConfigMapLive
  <2> HIDE DEF o, n
  <2>9. ConfigMapLive'
    BY <2>1, <2>5, <2>6, <2>8 DEF ConfigMapLive
  <2>10. Applied'
    <3>1. ASSUME pc' = "apply", ~run'.err PROVE ~run.err /\ ok
      BY <2>4, <3>1
    <3>2. ASSUME ~run.err, ok, NEW q \in Asked(run.env.parts), q \notin Range(Tail(run.todo))
          PROVE  /\ q \in run'.seen \cup (objs'[n] \ dying'[n])
                 /\ q = ConfigMap => phase'[n] = "live"
      <4>1. CASE q = o
        BY <2>4, <2>5, <2>7, <2>8, <3>2, <4>1
      <4>2. CASE q # o
        <5>1. q \in run.seen \cup (objs[n] \ dying[n]) /\ (q = ConfigMap => phase[n] = "live")
          BY <2>3, <2>5, <3>2, <4>2 DEF Applied, n
        <5> QED BY <2>1, <2>4, <2>5, <2>6, <5>1
      <4> QED BY <4>1, <4>2
    <3> QED BY <2>4, <3>1, <3>2 DEF Applied, n
  <2> QED BY <2>5, <2>9, <2>10 DEF Deleted, Namespacing
<1>4. CASE ReportDeploy
  BY <1>4, IdleKeepsSInv DEF ReportDeploy, Finish
<1> QED BY <1>1, <1>2, <1>3, <1>4 DEF Deploys

\* A step of a remove in the teardown that is done with the head of its list.
LEMMA DeleteKeepsSInv ==
  ASSUME SInv, TInv', pc \in {"delete", "wait"}, run.todo # <<>>,
         pc' = "delete", run' = [run EXCEPT !.todo = Tail(@)], UNCHANGED phase,
         \A ns \in Namespaces : objs'[ns] \subseteq objs[ns],
         Head(run.todo) \notin objs'[run.env.ns]
  PROVE  SInv'
<1> USE DEF SInv
<1>1. run.env.ns \in Namespaces /\ run.todo \in Seq(Releases) /\ run \in RunOf(Releases)
  BY RunEnv, RunReplaced DEF TInv, RunOK
<1>2. /\ Range(run.todo) = {Head(run.todo)} \cup Range(run'.todo)
      /\ run'.env = run.env /\ run'.err = run.err
  BY <1>1, TailRange DEF RunOf
<1>3. ConfigMapLive'
  BY DEF ConfigMapLive
<1>4. Deleted'
  BY <1>1, <1>2 DEF Deleted, Namespacing
<1> QED BY <1>3, <1>4 DEF Applied

LEMMA RemoveKeepsSInv ==
  ASSUME SInv, Removes, TInv'
  PROVE  SInv'
<1> USE DEF SInv
<1>1. ASSUME NEW b \in BOOLEAN, BeginRemove(b) \/ AnswerRemove(b) PROVE SInv'
  BY <1>1, IdleKeepsSInv DEF BeginRemove, AnswerRemove, Goto, Finish
<1>2. CASE LoadEnv
  <2>1. run'.env = env /\ run'.todo = TeardownDocuments(env.parts)
    BY <1>2, RunReplaced DEF LoadEnv, Goto, TInv, RunOK, RunOf
  <2>2. Range(run'.todo) = Asked(env.parts \cup {"stores"})
    <3>1. env.parts \cup {"stores"} \in SUBSET Parts
      BY EnvParts, AskedOfReleases DEF TInv, EnvOK
    <3> QED BY <2>1, <3>1, DocumentsRange, ReverseRange DEF TeardownDocuments
  <2> QED BY <1>2, <2>1, <2>2
          DEF LoadEnv, Goto, cluster, ConfigMapLive, Applied, Deleted, Namespacing
<1>3. CASE DeleteObject
  <2> DEFINE n == run.env.ns
             o == Head(run.todo)
  <2>1. n \in Namespaces /\ pc = "delete" /\ run.todo # <<>>
    BY <1>3, RunEnv DEF DeleteObject
  <2>2. CASE o \in objs[n] /\ Held(n, o)
    BY <1>3, <2>2 DEF DeleteObject, ConfigMapLive, Applied, Deleted, Namespacing
  <2>3. CASE ~(o \in objs[n] /\ Held(n, o))
    <3>1. Drop(n, o) /\ run' = [run EXCEPT !.todo = Tail(@)] /\ UNCHANGED <<phase, pc>>
      BY <1>3, <2>3 DEF DeleteObject
    <3> HIDE DEF n, o
    <3>2. \A ns \in Namespaces : objs'[ns] \subseteq objs[ns]
      BY <2>1, <3>1, DropOK DEF TInv
    <3>3. o \notin objs'[n]
      BY <2>1, <3>1, DropOK DEF TInv
    <3> QED BY <2>1, <3>1, <3>2, <3>3, DeleteKeepsSInv DEF n, o
  <2> QED BY <2>2, <2>3
<1>4. CASE DeleteWaited
  <2>1. run.todo # <<>>
    BY <1>4 DEF DeleteWaited, Goto, TInv, RunOK, WaitsForOne
  <2> QED BY <1>4, <2>1, DeleteKeepsSInv DEF DeleteWaited, Goto, cluster
<1>5. CASE TeardownEnds
  <2>1. CASE run.err
    BY <1>5, <2>1, IdleKeepsSInv DEF TeardownEnds, Finish
  <2>2. CASE ~run.err
    BY <1>5, <2>2
       DEF TeardownEnds, cluster, ConfigMapLive, Applied, Deleted, Namespacing
  <2> QED BY <2>1, <2>2
<1>6. CASE KeepWellKnown \/ KeepOccupied \/ NamespaceGone
  BY <1>6, IdleKeepsSInv DEF KeepWellKnown, KeepOccupied, NamespaceGone, Finish
<1>7. CASE OfferNamespace
  <2>1. run'.env = run.env /\ run'.todo = run.todo
    BY <1>7 DEF OfferNamespace, TInv, RunOK, RunOf
  <2> QED BY <1>7, <2>1
          DEF OfferNamespace, cluster, ConfigMapLive, Applied, Deleted, Namespacing
<1>8. ASSUME NEW b \in BOOLEAN, AnswerNamespace(b) PROVE SInv'
  <2>1. CASE b
    BY <1>8, <2>1
       DEF AnswerNamespace, cluster, ConfigMapLive, Applied, Deleted, Namespacing
  <2>2. CASE ~b
    BY <1>8, <2>2, IdleKeepsSInv DEF AnswerNamespace, Finish
  <2> QED BY <2>1, <2>2
<1>9. CASE DeleteNamespace
  <2>1. run.env.ns \in Namespaces /\ run.env.parts \in SUBSET Parts
    BY RunEnv
  <2>2. ConfigMap \notin objs[run.env.ns]
    <3>1. Range(<<>>) = {}
      BY DEF Range
    <3>2. ConfigMap \in Asked(run.env.parts \cup {"stores"})
      BY DEF Asked
    <3> QED BY <1>9, <3>1, <3>2 DEF DeleteNamespace, Goto, Deleted, Namespacing
  <2>3. \A ns \in Namespaces \ {run.env.ns} : phase'[ns] = phase[ns]
    BY <1>9 DEF DeleteNamespace, TInv, ClusterOK
  <2>4. ConfigMapLive'
    BY <1>9, <2>2, <2>3 DEF DeleteNamespace, ConfigMapLive
  <2> QED BY <1>9, <2>4 DEF DeleteNamespace, Goto, Applied, Deleted, Namespacing
<1> QED
  BY <1>1, <1>2, <1>3, <1>4, <1>5, <1>6, <1>7, <1>8, <1>9 DEF Removes, Teardown

LEMMA NextKeepsSInv == SInv /\ [Next]_vars => SInv'
<1> SUFFICES ASSUME SInv, [Next]_vars PROVE SInv'
  OBVIOUS
<1>1. TInv'
  BY NextKeepsTInv DEF SInv
<1>2. CASE ListingFails \/ RunEnds
  BY <1>1, <1>2, IdleKeepsSInv DEF ListingFails, RunEnds, Finish
<1>3. CASE DocumentFails
  <2>1. run'.err = TRUE
    BY <1>3 DEF DocumentFails, SInv, TInv, RunOK, RunOf
  <2> QED BY <1>1, <1>3, <2>1
          DEF DocumentFails, cluster, SInv, ConfigMapLive, Applied, Deleted, Namespacing
<1>4. ASSUME NEW e \in Envs, EditEnv(e) PROVE SInv'
  BY <1>1, <1>4 DEF EditEnv, cluster, SInv, ConfigMapLive, Applied, Deleted
<1>5. CASE UNCHANGED vars
  BY <1>1, <1>5 DEF vars, cluster, SInv, ConfigMapLive, Applied, Deleted
<1>6. ASSUME NEW m \in Namespaces, Cluster(m) \/ OthersAct(m) PROVE SInv'
  BY <1>1, <1>6, ClusterSettles, SettlesKeepsSInv DEF SInv
<1> QED
  BY <1>1, <1>2, <1>3, <1>4, <1>5, <1>6, DeployKeepsSInv, RemoveKeepsSInv,
     SharedAreNamespaces
  DEF Next

LEMMA ReleaseInvariant == Spec => []SInv
BY InitSInv, NextKeepsSInv, PTL DEF Spec

\* Only the run's own last steps end it, each with its verdict.
LEMMA WhoEnds ==
  ASSUME [Next]_vars, Ends({"deployed", "removed", "occupied"})
  PROVE  \/ ReportDeploy /\ verdict' = (IF run.err THEN "failed" ELSE "deployed")
         \/ /\ KeepWellKnown \/ ListingFails \/ KeepOccupied \/ AnswerNamespace(FALSE)
                 \/ NamespaceGone
            /\ verdict' # "deployed"
<1>1. CASE Deploys
  BY <1>1 DEF Deploys, BeginDeploy, ApplyNamespace, ApplyObject, ReportDeploy, Goto, Finish, Ends
<1>2. CASE Removes
  BY <1>2 DEF Removes, BeginRemove, AnswerRemove, AnswerNamespace, LoadEnv, Teardown, DeleteObject,
              DeleteWaited, TeardownEnds, KeepWellKnown, KeepOccupied, OfferNamespace,
              DeleteNamespace, NamespaceGone, Goto, Finish, Ends
<1>3. CASE DocumentFails \/ ListingFails \/ RunEnds \/ UNCHANGED vars \/ \E e \in Envs : EditEnv(e)
  BY <1>3 DEF DocumentFails, ListingFails, RunEnds, EditEnv, vars, Finish, Ends
<1>4. ASSUME NEW m \in Namespaces, Cluster(m) \/ OthersAct(m) PROVE FALSE
  BY <1>4 DEF Cluster, Controller, CollectGarbage, NamespaceTerminates, TerminateObject, OthersAct,
              Create, Ends
<1> QED BY <1>1, <1>2, <1>3, <1>4, SharedAreNamespaces DEF Next

\* A deploy that reports ok leaves every document of its spec in a live
\* namespace, but one that was still being deleted when it was applied
\* (actKubernetes: the order of Render, and kubectl's error reported).
THEOREM DeployedAsAsked == Spec => DeployedIsThere
<1> DEFINE There == /\ phase[run.env.ns] = "live"
                    /\ \A o \in Range(Documents(run.env.parts)) :
                         o \in objs[run.env.ns] \/ o \in run.seen
<1>1. ASSUME SInv, [Next]_vars, Ends({"deployed"}) PROVE There
  <2>1. ReportDeploy /\ ~run.err
    BY <1>1, WhoEnds DEF Ends
  <2>2. run.todo = <<>> /\ pc = "apply" /\ Range(<<>>) = {}
    BY <2>1 DEF ReportDeploy, Range
  <2>3. \A o \in Asked(run.env.parts) :
          /\ o \in run.seen \cup (objs[run.env.ns] \ dying[run.env.ns])
          /\ o = ConfigMap => phase[run.env.ns] = "live"
    BY <1>1, <2>1, <2>2 DEF SInv, Applied
  <2>4. Range(Documents(run.env.parts)) = Asked(run.env.parts) /\ ConfigMap \in Asked(run.env.parts)
    BY <1>1, RunEnv, DocumentsRange, AskedOfReleases DEF SInv
  <2> QED BY <2>3, <2>4
<1>2. SInv /\ [Next]_vars => [Ends({"deployed"}) => There]_vars
  BY <1>1
<1> QED BY ReleaseInvariant, <1>2, PTL DEF Spec, DeployedIsThere

\* A remove that goes on to the namespace leaves, of all that deploys put there,
\* only optional parts its spec has dropped since, and never the stores Secret
\* (the manifest of a teardown, kubectl delete reporting the failures).
THEOREM RemovedButDropped == Spec => LeavesOnlyDroppedParts
<1> DEFINE Left == made'[run.env.ns] \subseteq
                     UNION {OfPart[p] : p \in Parts \ (run.env.parts \cup {"stores"})}
<1>1. ASSUME SInv, [Next]_vars, Ends({"removed", "occupied"}) PROVE Left
  <2>1. pc \in Namespacing /\ UNCHANGED made
    BY <1>1, WhoEnds
       DEF Ends, KeepWellKnown, ListingFails, KeepOccupied, AnswerNamespace, NamespaceGone,
           Namespacing, ReportDeploy, Finish, cluster
  <2>2. Asked(run.env.parts \cup {"stores"}) \cap objs[run.env.ns] = {}
    <3>1. Range(<<>>) = {}
      BY DEF Range
    <3> QED BY <1>1, <2>1, <3>1 DEF SInv, Deleted
  <2>3. made[run.env.ns] \subseteq Releases \cap objs[run.env.ns]
    BY <1>1, RunEnv DEF SInv, TInv, ClusterOK
  <2>4. Releases \ Asked(run.env.parts \cup {"stores"})
          \subseteq UNION {OfPart[p] : p \in Parts \ (run.env.parts \cup {"stores"})}
    BY DEF Releases, Asked
  <2> QED BY <2>1, <2>2, <2>3, <2>4
<1>2. SInv /\ [Next]_vars => [Ends({"removed", "occupied"}) => Left]_vars
  BY <1>1
<1> QED BY ReleaseInvariant, <1>2, PTL DEF Spec, LeavesOnlyDroppedParts

(***************************************************************************)
(* The namespace of a remove                                               *)
(***************************************************************************)

\* As much of the types as the argument needs: what is where, and that a run's
\* locals are a record with the environment it read.
Shape ==
  /\ env \in Envs /\ run.env \in Envs
  /\ run = [env |-> run.env, noPrompt |-> run.noPrompt, todo |-> run.todo,
            err |-> run.err, seen |-> run.seen]
  /\ phase \in [Namespaces -> {"absent", "live", "terminating"}]
  /\ objs = [ns \in Namespaces |-> objs[ns]]
  /\ dying = [ns \in Namespaces |-> dying[ns]]

\* Other people's objects are in a namespace that exists, and are only being
\* deleted with it.
OthersLive(ns) ==
  /\ dying[ns] \subseteq objs[ns]
  /\ phase[ns] = "absent" => objs[ns] \cap Others = {}
  /\ phase[ns] = "live" => dying[ns] \cap Others = {}

ReleaseNames == {r.name : r \in Releases}

\* Between the listing and the deletion: what the listing showed was the
\* release's by name, or a token, unless the namespace was going already.
Offered ==
  pc \in {"askns", "deletens"} =>
    /\ run.env.ns \notin WellKnown
    /\ phase[run.env.ns] = "live" =>
         \A o \in Others \cap run.seen :
           {o.name, o.owner} \cap ReleaseNames # {} \/ IsToken(o)

IInv == Shape /\ (\A ns \in Namespaces : OthersLive(ns)) /\ Offered

LEMMA NoRunShape ==
  /\ NoRun.env \in Envs
  /\ NoRun = [env |-> NoRun.env, noPrompt |-> NoRun.noPrompt,
              todo |-> NoRun.todo, err |-> NoRun.err, seen |-> NoRun.seen]
<1>1. /\ (CHOOSE n \in Namespaces : TRUE) \in Namespaces
      /\ (CHOOSE p \in PartChoices : TRUE) \in PartChoices
  BY KubeAssumption
<1> QED BY <1>1 DEF NoRun, Envs

LEMMA NamespacesOfEnvs == \A e \in Envs : e.ns \in Namespaces
BY DEF Envs

\* None of the objects the release or the cluster puts there is another's.
LEMMA OthersAreOthers ==
  /\ Volume \notin Others /\ Claim \notin Others /\ Pod \notin Others
  /\ ReplicaSet \notin Others /\ RootCA \notin Others
BY OthersAssumption DEF Releases, OfPart, Parts

\* The names the occupancy check takes for the release's are.
LEMMA CreatedAreReleases ==
  ASSUME NEW parts \in SUBSET Parts
  PROVE  CreatedNames(parts) \subseteq ReleaseNames
<1>1. Stores \in OfPart["stores"] /\ "stores" \in Parts
  BY DEF OfPart, Parts
<1>2. {ConfigMap, Deployment, Stores} \subseteq Releases
  BY <1>1 DEF Releases
<1>3. UNION {OfPart[p] : p \in parts \ {"service"}} \subseteq Releases
  BY DEF Releases
<1> QED BY <1>2, <1>3 DEF CreatedNames, ReleaseNames

LEMMA InitIInv == Init => IInv
<1> SUFFICES ASSUME Init PROVE IInv
  OBVIOUS
<1>1. Shape
  BY NoRunShape DEF Init, Shape
<1>2. ASSUME NEW ns \in Namespaces PROVE OthersLive(ns)
  BY OthersAreOthers DEF Init, OthersLive
<1>3. Offered
  BY DEF Init, Offered
<1> QED BY <1>1, <1>2, <1>3 DEF IInv

\* A step that leaves the cluster alone keeps its part.
LEMMA ClusterKept ==
  ASSUME UNCHANGED cluster
  PROVE  \A ns \in Namespaces : OthersLive(ns) => OthersLive(ns)'
BY DEF cluster, OthersLive

\* Dropping an object takes it from both sets.
LEMMA DropKeepsOthers ==
  ASSUME Shape, NEW m \in Namespaces, NEW o, Drop(m, o), UNCHANGED phase,
         NEW ns \in Namespaces, OthersLive(ns)
  PROVE  OthersLive(ns)'
<1>1. CASE ns = m
  <2>1. objs'[ns] = objs[ns] \ {o} /\ dying'[ns] = dying[ns] \ {o}
    BY <1>1 DEF Drop, Shape
  <2> QED BY <2>1 DEF OthersLive
<1>2. CASE ns # m
  <2>1. objs'[ns] = objs[ns] /\ dying'[ns] = dying[ns]
    BY <1>2 DEF Drop, Shape
  <2> QED BY <2>1 DEF OthersLive
<1> QED BY <1>1, <1>2

\* The steps of a deploy create nothing of other people's, and a namespace only
\* with what the cluster puts there.
LEMMA DeployKeepsIInv ==
  ASSUME IInv, Deploys
  PROVE  IInv'
<1> USE DEF IInv
<1>1. CASE BeginDeploy
  BY <1>1, NoRunShape, ClusterKept
     DEF BeginDeploy, Goto, Shape, Offered, cluster
<1>2. CASE ApplyNamespace
  <2>1. Shape'
    BY <1>2 DEF ApplyNamespace, Put, Shape
  <2>2. ASSUME NEW ns \in Namespaces PROVE OthersLive(ns)'
    <3>1. OthersLive(ns)
      OBVIOUS
    <3>2. CASE phase[run.env.ns] = "absent" /\ ns = run.env.ns
      <4>1. /\ phase'[ns] = "live" /\ objs'[ns] = objs[ns] \cup {RootCA}
            /\ dying'[ns] = dying[ns]
        BY <1>2, <3>2 DEF ApplyNamespace, Put, Shape
      <4> QED BY <3>1, <3>2, <4>1 DEF OthersLive
    <3>3. CASE ~(phase[run.env.ns] = "absent" /\ ns = run.env.ns)
      <4>1. phase'[ns] = phase[ns] /\ objs'[ns] = objs[ns] /\ dying'[ns] = dying[ns]
        BY <1>2, <3>3 DEF ApplyNamespace, Put, Shape
      <4> QED BY <3>1, <4>1 DEF OthersLive
    <3> QED BY <3>2, <3>3
  <2>3. Offered'
    BY <1>2 DEF ApplyNamespace, Offered
  <2> QED BY <2>1, <2>2, <2>3
<1>3. CASE ApplyObject
  <2>1. Shape'
    BY <1>3 DEF ApplyObject, Put, Shape
  <2>2. ASSUME NEW ns \in Namespaces PROVE OthersLive(ns)'
    <3>1. OthersLive(ns)
      OBVIOUS
    <3>2. /\ phase' = phase /\ dying' = dying
          /\ \/ objs'[ns] = objs[ns]
             \/ /\ phase[ns] = "live"
                /\ objs'[ns] = objs[ns] \cup {Head(run.todo)}
             \/ objs'[ns] \in {objs[ns], objs[ns] \cup {Volume}}
      <4> DEFINE n == run.env.ns
                 o == Head(run.todo)
      <4>1. UNCHANGED <<phase, dying>>
        BY <1>3 DEF ApplyObject
      <4>2. CASE phase[n] = "live" \/ o \in objs[n] \cup {Volume}
        <5>1. objs' = [objs EXCEPT ![n] = @ \cup {o}]
          BY <1>3, <4>2 DEF ApplyObject, Put
        <5>2. CASE ns = n
          <6>1. objs'[ns] = objs[ns] \cup {o}
            BY <5>1, <5>2 DEF Shape
          <6> QED BY <4>1, <4>2, <5>2, <6>1
        <5>3. CASE ns # n
          BY <4>1, <5>1, <5>3 DEF Shape
        <5> QED BY <5>2, <5>3
      <4>3. CASE ~(phase[n] = "live" \/ o \in objs[n] \cup {Volume})
        BY <1>3, <4>1, <4>3 DEF ApplyObject
      <4> QED BY <4>2, <4>3
    <3> QED BY <3>1, <3>2, OthersAreOthers DEF OthersLive
  <2>3. Offered'
    BY <1>3 DEF ApplyObject, Offered
  <2> QED BY <2>1, <2>2, <2>3
<1>4. CASE ReportDeploy
  BY <1>4, NoRunShape, ClusterKept
     DEF ReportDeploy, Finish, Shape, Offered, cluster
<1> QED BY <1>1, <1>2, <1>3, <1>4 DEF Deploys

\* The questions and the teardown: what a teardown deletes or marks is never
\* another's.
LEMMA TeardownKeepsIInv ==
  ASSUME IInv,
         (\E b \in BOOLEAN : BeginRemove(b) \/ AnswerRemove(b)) \/ LoadEnv \/ Teardown
  PROVE  IInv'
<1> USE DEF IInv
<1>1. ASSUME NEW b \in BOOLEAN, BeginRemove(b) PROVE IInv'
  BY <1>1, NoRunShape, ClusterKept
     DEF BeginRemove, Goto, Shape, Offered, cluster
<1>2. ASSUME NEW b \in BOOLEAN, AnswerRemove(b) PROVE IInv'
  BY <1>2, NoRunShape, ClusterKept
     DEF AnswerRemove, Finish, Shape, Offered, cluster
<1>3. CASE LoadEnv
  BY <1>3, ClusterKept DEF LoadEnv, Goto, Shape, Offered, cluster
<1>4. CASE DeleteObject
  <2>1. Shape'
    BY <1>4 DEF DeleteObject, Drop, Shape
  <2>2. ASSUME NEW ns \in Namespaces PROVE OthersLive(ns)'
    <3> DEFINE n == run.env.ns
               o == Head(run.todo)
    <3>1. OthersLive(ns)
      OBVIOUS
    <3>2. CASE o \in objs[n] /\ Held(n, o)
      <4>1. /\ UNCHANGED <<phase, objs>>
            /\ dying' = [dying EXCEPT ![n] = @ \cup {o}]
        BY <1>4, <3>2 DEF DeleteObject
      <4>2. o \notin Others
        BY <3>2, OthersAreOthers DEF Held
      <4>3. CASE ns = n
        <5>1. dying'[ns] = dying[ns] \cup {o}
          BY <4>1, <4>3 DEF Shape
        <5> QED BY <3>1, <3>2, <4>1, <4>2, <4>3, <5>1 DEF OthersLive
      <4>4. CASE ns # n
        BY <3>1, <4>1, <4>4 DEF OthersLive, Shape
      <4> QED BY <4>3, <4>4
    <3>3. CASE ~(o \in objs[n] /\ Held(n, o))
      <4>1. UNCHANGED phase /\ Drop(n, o)
        BY <1>4, <3>3 DEF DeleteObject
      <4>2. n \in Namespaces /\ Shape
        BY NamespacesOfEnvs DEF Shape
      <4> HIDE DEF n, o
      <4> QED BY <3>1, <4>1, <4>2, DropKeepsOthers
    <3> QED BY <3>2, <3>3
  <2>3. Offered'
    BY <1>4 DEF DeleteObject, Offered
  <2> QED BY <2>1, <2>2, <2>3
<1>5. CASE DeleteWaited
  BY <1>5, ClusterKept DEF DeleteWaited, Goto, Shape, Offered, cluster
<1>6. CASE TeardownEnds
  BY <1>6, NoRunShape, ClusterKept
     DEF TeardownEnds, Finish, Shape, Offered, cluster
<1> QED BY <1>1, <1>2, <1>3, <1>4, <1>5, <1>6 DEF Teardown

\* The listing and what follows: the namespace offered is not the cluster's,
\* and what the listing showed in it is the release's by name, or a token.
LEMMA NamespaceKeepsIInv ==
  ASSUME IInv,
         \/ KeepWellKnown \/ KeepOccupied \/ OfferNamespace \/ ListingFails
         \/ \E b \in BOOLEAN : AnswerNamespace(b)
         \/ DeleteNamespace \/ NamespaceGone
  PROVE  IInv'
<1> USE DEF IInv
<1>1. CASE KeepWellKnown \/ KeepOccupied \/ NamespaceGone \/ ListingFails
  BY <1>1, NoRunShape, ClusterKept
     DEF KeepWellKnown, KeepOccupied, NamespaceGone, ListingFails, Finish, Shape,
         Offered, cluster
<1>2. CASE OfferNamespace
  <2>1. Shape'
    BY <1>2 DEF OfferNamespace, Shape, cluster
  <2>2. \A ns \in Namespaces : OthersLive(ns)'
    BY <1>2, ClusterKept DEF OfferNamespace
  <2>3. ASSUME phase[run.env.ns] = "live",
               NEW o \in Others \cap Listed(run.env.ns)
        PROVE  {o.name, o.owner} \cap ReleaseNames # {} \/ IsToken(o)
    <3>1. o \notin dying[run.env.ns]
      BY <2>3, NamespacesOfEnvs DEF OthersLive, Shape
    <3>4. <<o.kind, o.name>> \notin clusterDefaultOccupants
      <4>1. o.kind # "ServiceAccount"
        BY <2>3 DEF Listed, NamespaceProbeTypes
      <4>2. o.kind # RootCA.kind \/ o.name # RootCA.name
        BY <2>3, OthersAssumption
      <4> QED BY <4>1, <4>2 DEF clusterDefaultOccupants
    <3>2. IsOurs(run.env.ns, o, CreatedNames(run.env.parts)) \/ IsToken(o)
      BY <1>2, <2>3, <3>4 DEF OfferNamespace, NamespaceOccupants, IsClusterDefault
    <3>3. CreatedNames(run.env.parts) \subseteq ReleaseNames
      BY CreatedAreReleases, KubeAssumption DEF Shape, Envs
    <3> QED BY <3>1, <3>2, <3>3 DEF IsOurs
  <2>4. run'.env = run.env /\ run'.seen = Listed(run.env.ns)
    BY <1>2 DEF OfferNamespace, Shape
  <2>5. Offered'
    BY <1>2, <2>3, <2>4 DEF OfferNamespace, Offered, cluster
  <2> QED BY <2>1, <2>2, <2>5
<1>3. ASSUME NEW b \in BOOLEAN, AnswerNamespace(b) PROVE IInv'
  BY <1>3, NoRunShape, ClusterKept
     DEF AnswerNamespace, Finish, Shape, Offered, cluster
<1>4. CASE DeleteNamespace
  <2>1. Shape'
    BY <1>4 DEF DeleteNamespace, Shape
  <2>2. ASSUME NEW ns \in Namespaces PROVE OthersLive(ns)'
    <3>1. OthersLive(ns)
      OBVIOUS
    <3>2. CASE ns = run.env.ns
      <4>1. /\ phase'[ns] = IF phase[ns] = "absent" THEN "absent" ELSE "terminating"
            /\ dying'[ns] = dying[ns] \cup (objs[ns] \ {Volume}) /\ objs' = objs
        BY <1>4, <3>2 DEF DeleteNamespace, Shape
      <4> QED BY <3>1, <4>1 DEF OthersLive
    <3>3. CASE ns # run.env.ns
      <4>1. phase'[ns] = phase[ns] /\ dying'[ns] = dying[ns] /\ objs' = objs
        BY <1>4, <3>3 DEF DeleteNamespace, Shape
      <4> QED BY <3>1, <4>1 DEF OthersLive
    <3> QED BY <3>2, <3>3
  <2>3. Offered'
    BY <1>4 DEF DeleteNamespace, Goto, Offered
  <2> QED BY <2>1, <2>2, <2>3
<1> QED BY <1>1, <1>2, <1>3, <1>4

\* A run that is cut short, and a document that fails, leave the cluster alone.
LEMMA FaultsKeepIInv ==
  ASSUME IInv, DocumentFails \/ RunEnds
  PROVE  IInv'
<1> USE DEF IInv
<1>1. CASE DocumentFails
  BY <1>1, ClusterKept DEF DocumentFails, Shape, Offered, cluster
<1>2. CASE RunEnds
  BY <1>2, NoRunShape, ClusterKept DEF RunEnds, Finish, Shape, Offered, cluster
<1> QED BY <1>1, <1>2

\* An object is created only in a live namespace, where nothing of other
\* people's is being deleted.
LEMMA CreateKeepsIInv ==
  ASSUME IInv, NEW m \in Namespaces, NEW o, Create(m, o)
  PROVE  IInv'
<1> USE DEF IInv
<1>1. Shape'
  BY DEF Create, Put, Shape
<1>2. ASSUME NEW ns \in Namespaces PROVE OthersLive(ns)'
  <2>1. OthersLive(ns) /\ UNCHANGED <<phase, dying>>
    BY DEF Create
  <2>2. CASE ns = m
    <3>1. phase[ns] = "live" /\ objs'[ns] = objs[ns] \cup {o}
      BY <2>2 DEF Create, Put, Shape
    <3> QED BY <2>1, <3>1 DEF OthersLive
  <2>3. CASE ns # m
    <3>1. objs'[ns] = objs[ns]
      BY <2>3 DEF Create, Put, Shape
    <3> QED BY <2>1, <3>1 DEF OthersLive
  <2> QED BY <2>2, <2>3
<1>3. Offered'
  BY DEF Create, Offered
<1> QED BY <1>1, <1>2, <1>3

\* Nor does an object that goes disturb it.
LEMMA DropKeepsIInv ==
  ASSUME IInv, NEW m \in Namespaces, NEW o, Drop(m, o),
         UNCHANGED <<env, phase, pc, run>>
  PROVE  IInv'
<1> USE DEF IInv
<1>1. Shape'
  BY DEF Drop, Shape
<1>2. ASSUME NEW ns \in Namespaces PROVE OthersLive(ns)'
  BY DropKeepsOthers
<1>3. Offered'
  BY DEF Offered
<1> QED BY <1>1, <1>2, <1>3

LEMMA ClusterKeepsIInv ==
  ASSUME IInv, NEW m \in Namespaces, Cluster(m) \/ OthersAct(m)
  PROVE  IInv'
<1>1. CASE Controller(m)
  BY <1>1, CreateKeepsIInv DEF Controller
<1>2. CASE CollectGarbage(m)
  <2>1. CASE Drop(m, ReplicaSet)
    BY <1>2, <2>1, DropKeepsIInv DEF CollectGarbage
  <2>2. CASE /\ Pod \in objs[m] /\ UNCHANGED objs
             /\ dying' = [dying EXCEPT ![m] = @ \cup {Pod}]
    <3> USE DEF IInv
    <3>1. Shape'
      BY <1>2, <2>2 DEF CollectGarbage, Shape
    <3>2. ASSUME NEW ns \in Namespaces PROVE OthersLive(ns)'
      <4>1. OthersLive(ns) /\ UNCHANGED <<phase, objs>>
        BY <1>2, <2>2 DEF CollectGarbage
      <4>2. CASE ns = m
        <5>1. dying'[ns] = dying[ns] \cup {Pod}
          BY <2>2, <4>2 DEF Shape
        <5> QED BY <2>2, <4>1, <4>2, <5>1, OthersAreOthers DEF OthersLive
      <4>3. CASE ns # m
        <5>1. dying'[ns] = dying[ns]
          BY <2>2, <4>3 DEF Shape
        <5> QED BY <4>1, <5>1 DEF OthersLive
      <4> QED BY <4>2, <4>3
    <3>3. Offered'
      BY <1>2 DEF CollectGarbage, Offered
    <3> QED BY <3>1, <3>2, <3>3
  <2> QED BY <1>2, <2>1, <2>2 DEF CollectGarbage
<1>3. CASE NamespaceTerminates(m)
  <2> USE DEF IInv
  <2>1. Shape'
    BY <1>3 DEF NamespaceTerminates, Shape
  <2>2. ASSUME NEW ns \in Namespaces PROVE OthersLive(ns)'
    <3>1. OthersLive(ns) /\ UNCHANGED <<objs, dying>>
      BY <1>3 DEF NamespaceTerminates
    <3>2. CASE ns = m
      <4>1. phase'[ns] = "absent" /\ objs[ns] \subseteq {Volume}
        BY <1>3, <3>2 DEF NamespaceTerminates, Shape
      <4> QED BY <3>1, <4>1, OthersAreOthers DEF OthersLive
    <3>3. CASE ns # m
      <4>1. phase'[ns] = phase[ns]
        BY <1>3, <3>3 DEF NamespaceTerminates, Shape
      <4> QED BY <3>1, <4>1 DEF OthersLive
    <3> QED BY <3>2, <3>3
  <2>3. Offered'
    <3>1. phase'[run.env.ns] = "live" => phase[run.env.ns] = "live"
      BY <1>3, NamespacesOfEnvs DEF NamespaceTerminates, Shape
    <3> QED BY <1>3, <3>1 DEF NamespaceTerminates, Offered
  <2> QED BY <2>1, <2>2, <2>3
<1>4. ASSUME NEW o \in Objects, TerminateObject(m, o) PROVE IInv'
  BY <1>4, DropKeepsIInv DEF TerminateObject
<1>5. ASSUME NEW o \in Others, Create(m, o) PROVE IInv'
  BY <1>5, CreateKeepsIInv
<1>6. ASSUME NEW o \in Others, Drop(m, o), UNCHANGED <<env, phase, pc, run>>
      PROVE  IInv'
  BY <1>6, DropKeepsIInv
<1> QED BY <1>1, <1>2, <1>3, <1>4, <1>5, <1>6 DEF Cluster, OthersAct

LEMMA NextKeepsIInv == IInv /\ [Next]_vars => IInv'
<1> SUFFICES ASSUME IInv, [Next]_vars PROVE IInv'
  OBVIOUS
<1>1. ASSUME NEW e \in Envs, EditEnv(e) PROVE IInv'
  BY <1>1, ClusterKept DEF EditEnv, IInv, Shape, Offered, cluster
<1>2. CASE UNCHANGED vars
  BY <1>2, ClusterKept DEF vars, IInv, Shape, Offered, cluster
<1> QED
  BY <1>1, <1>2, DeployKeepsIInv, TeardownKeepsIInv, NamespaceKeepsIInv,
     FaultsKeepIInv, ClusterKeepsIInv, SharedAreNamespaces
  DEF Next, Removes

LEMMA Invariance == Spec => []IInv
BY InitIInv, NextKeepsIInv, PTL DEF Spec

\* Only the namespace the run tore down and listed is ever deleted, never the
\* cluster's, and what the listing showed of other people's in it is named or
\* owned like the release's, is a service-account token, which the code takes
\* for the cluster's, or was going already (removeNamespace, isClusterDefault).
THEOREM NamespaceAsListed == Spec => NamespaceGoesAsListed
<1> DEFINE Going(ns) == phase[ns] = "live" /\ phase'[ns] = "terminating"
           Kept(ns) ==
             /\ ns = run.env.ns /\ ns \notin WellKnown
             /\ \A o \in (Others \cap objs[ns]) \cap run.seen :
                  \/ {o.name, o.owner} \cap {r.name : r \in Releases} # {}
                  \/ IsToken(o)
                  \/ o \in dying[ns]
<1>1. ASSUME IInv, [Next]_vars, NEW ns \in Namespaces, Going(ns)
      PROVE  Kept(ns)
  <2>1. CASE DeleteNamespace
    <3>1. ns = run.env.ns
      BY <1>1, <2>1 DEF DeleteNamespace, IInv, Shape
    <3>2. Offered /\ pc = "deletens"
      BY <1>1, <2>1 DEF DeleteNamespace, Goto, IInv
    <3> QED BY <1>1, <3>1, <3>2 DEF Offered, ReleaseNames
  <2>2. CASE ApplyNamespace \/ \E m \in Namespaces : NamespaceTerminates(m)
    <3>1. phase'[ns] # "terminating"
      BY <1>1, <2>2 DEF ApplyNamespace, NamespaceTerminates, IInv, Shape
    <3> QED BY <1>1, <3>1
  <2>3. CASE UNCHANGED phase
    BY <1>1, <2>3
  <2>4. CASE Deploys
    BY <2>2, <2>3, <2>4
       DEF Deploys, BeginDeploy, ApplyObject, ReportDeploy, cluster
  <2>5. CASE Removes
    BY <2>1, <2>3, <2>5
       DEF Removes, BeginRemove, AnswerRemove, AnswerNamespace, LoadEnv, Teardown,
           DeleteObject, DeleteWaited, TeardownEnds, KeepWellKnown, KeepOccupied,
           OfferNamespace, NamespaceGone, cluster
  <2>6. CASE DocumentFails \/ ListingFails \/ RunEnds \/ UNCHANGED vars
             \/ \E e \in Envs : EditEnv(e)
    BY <2>3, <2>6
       DEF DocumentFails, ListingFails, RunEnds, EditEnv, vars, cluster
  <2>7. ASSUME NEW m \in Namespaces, Cluster(m) \/ OthersAct(m) PROVE Kept(ns)
    BY <2>2, <2>3, <2>7
       DEF Cluster, Controller, CollectGarbage, TerminateObject, OthersAct, Create
  <2> QED BY <1>1, <2>4, <2>5, <2>6, <2>7, SharedAreNamespaces DEF Next
<1>2. IInv /\ [Next]_vars => [\A ns \in Namespaces : Going(ns) => Kept(ns)]_vars
  BY <1>1
<1> QED BY Invariance, <1>2, PTL DEF Spec, NamespaceGoesAsListed
=============================================================================
