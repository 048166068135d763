------------------------- MODULE PodmanDeployProofs -------------------------
(***************************************************************************)
(* Theorems about PodmanDeploy, for every set of instances, stores and     *)
(* credentials and every bound: types first, then what a deploy and a      *)
(* remove that report ok have done, whatever the number of faults,         *)
(* provided no two instances of the account can claim one secret name.     *)
(***************************************************************************)
EXTENDS PodmanDeploy, SequenceTheorems, TLAPS

(***************************************************************************)
(* Names and constants                                                     *)
(***************************************************************************)

\* Every secret a spec mounts is one its instance owns.
LEMMA MountsAreOwned ==
  ASSUME NEW i \in Instances, NEW sp \in Specs
  PROVE  /\ MountNames(i, sp) \subseteq Owned(i)
         /\ CredNames(i, sp) \subseteq Owned(i)
         /\ FileNames(i, sp) \subseteq Owned(i)
         /\ StoreNames(i, sp) \subseteq Owned(i)
BY DEF MountNames, CredNames, FileNames, StoreNames, Owned, Specs,
       PodmanFileSecretNames

\* Every name an instance owns is a name.
LEMMA OwnedAreNames ==
  ASSUME NEW i \in Instances
  PROVE  Owned(i) \subseteq Names /\ PodmanFileSecretNames(i) \subseteq Owned(i)
BY DEF Names, Owned

\* The stores read back from a unit are mounted by that unit.
LEMMA UnitStoresAreMounted ==
  ASSUME NEW i, NEW u
  PROVE  PodmanUnitStoreSecrets(u, i) \subseteq u.mounts
BY DEF PodmanUnitStoreSecrets

\* There is a spec.
LEMMA SomeSpec == (CHOOSE sp \in Specs : TRUE) \in Specs
<1>1. PICK b \in SyslogChoices : TRUE
  BY BoundsAssumption
<1>2. [creds |-> {}, stores |-> {}, syslog |-> b, ver |-> 1] \in Specs
  BY BoundsAssumption DEF Specs, Versions
<1> QED BY <1>2

LEMMA NoRunType == NoRun \in Runs
BY SomeSpec DEF NoRun, Runs

\* The locals of a run have their type, at its beginning and at its end.
LEMMA RunTypes ==
  ASSUME TypeOK, NEW i \in Instances, NEW r \in BOOLEAN, NEW reads \in BOOLEAN
  PROVE  NewRun(i, r, reads) \in Runs /\ NoRun \in Runs
<1>1. NoRun \in Runs
  BY NoRunType
<1>2. spec[i] \in Specs /\ unit[i].mounts \in SUBSET Names
  BY DEF TypeOK, Units
<1>3. PodmanUnitStoreSecrets(unit[i], i) \in SUBSET Names
  BY <1>2, UnitStoresAreMounted
<1>4. MountNames(i, spec[i]) \in SUBSET Names
  BY <1>2, MountsAreOwned, OwnedAreNames
<1>5. Unmounted(i) \in SUBSET Names
  BY OwnedAreNames DEF Unmounted
<1>6. NewRun(i, r, reads) \in Runs
  BY <1>2, <1>3, <1>4, <1>5 DEF NewRun, previousStoreSecrets, Runs
<1> QED BY <1>1, <1>6

(***************************************************************************)
(* Type correctness                                                        *)
(***************************************************************************)

\* The constants' states have their types.
LEMMA NoUnitType ==
  NoUnit \in Units /\ NoFiles \in [Names -> 0..MaxVersion] /\ Down \in Services
BY BoundsAssumption DEF NoUnit, Units, NoFiles, Down, Services, States

LEMMA InitTypes == Init => TypeOK
<1> SUFFICES ASSUME Init PROVE TypeOK
  OBVIOUS
<1>1. secrets \in [Names -> 0..MaxVersion]
  BY BoundsAssumption DEF Init
<1>2. spec \in [Instances -> Specs]
  BY DEF Init
<1>3. run \in [Instances -> Runs]
  BY NoRunType DEF Init
<1>4. /\ unit \in [Instances -> Units] /\ loaded \in [Instances -> Units]
      /\ svc \in [Instances -> Services]
  BY NoUnitType DEF Init
<1>5. pc \in [Instances -> Steps] /\ faults \in 0..MaxFaults
      /\ verdict \in [Instances -> {"none", "deployed", "removed", "failed"}]
  BY BoundsAssumption DEF Init, Steps
<1> QED BY <1>1, <1>2, <1>3, <1>4, <1>5 DEF TypeOK

LEMMA WithoutType ==
  ASSUME TypeOK, NEW ns
  PROVE  Without(ns) \in [Names -> 0..MaxVersion]
BY BoundsAssumption DEF Without, TypeOK

LEMMA ActivatingType ==
  ASSUME TypeOK, NEW i \in Instances
  PROVE  Activating(i) \in [Instances -> Services]
<1>1. [state |-> "activating", unit |-> loaded[i], files |-> NoFiles]
        \in Services
  BY NoUnitType DEF TypeOK, Services, States
<1> QED BY <1>1 DEF Activating, TypeOK

LEMMA FinishType ==
  ASSUME TypeOK, NEW i \in Instances, NEW v \in {"deployed", "removed", "failed"},
         Finish(i, v)
  PROVE  /\ pc' \in [Instances -> Steps]
         /\ run' \in [Instances -> Runs]
         /\ verdict' \in [Instances -> {"none", "deployed", "removed", "failed"}]
BY NoRunType DEF Finish, TypeOK, Steps

LEMMA FaultType == TypeOK /\ Fault => faults' \in 0..MaxFaults
BY BoundsAssumption DEF TypeOK, Fault

\* A plan's unit is a unit.
LEMMA RenderType ==
  ASSUME NEW i \in Instances, NEW sp \in Specs
  PROVE  RenderQuadlet(i, sp) \in Units
<1>1. MountNames(i, sp) \subseteq Names
  BY MountsAreOwned, OwnedAreNames
<1>2. sp.ver \in 0..MaxVersion
  BY BoundsAssumption DEF Specs, Versions
<1> QED BY <1>1, <1>2 DEF RenderQuadlet, Units
\* The steps of a run that nothing disturbs keep the types.
LEMMA RunStepTypes ==
  ASSUME TypeOK, NEW i \in Instances, RunStep(i)
  PROVE  TypeOK'
<1> USE DEF TypeOK, Steps, DeploySteps, RemoveSteps, Goto
<1>0. run[i] \in Runs
  OBVIOUS
<1>1. ASSUME NEW n \in Names, ClearSecret(i, n) PROVE TypeOK'
  <2>1. secrets' \in [Names -> 0..MaxVersion]
    BY <1>1, WithoutType DEF ClearSecret
  <2>2. [run[i] EXCEPT !.cleared = {n}] \in Runs
    BY <1>0 DEF Runs
  <2> QED BY <1>1, <2>1, <2>2 DEF ClearSecret
<1>2. ASSUME NEW n \in Names, LoadSecret(i, n) PROVE TypeOK'
  <2>1. run[i].plan.ver \in 0..MaxVersion
    BY <1>0, BoundsAssumption DEF Runs, Specs, Versions
  <2>2. [run[i] EXCEPT !.todo = @ \ {n}, !.cleared = {}] \in Runs
    BY <1>0 DEF Runs
  <2> QED BY <1>2, <2>1, <2>2 DEF LoadSecret
<1>3. CASE DropStale(i)
  BY <1>3, WithoutType DEF DropStale
<1>4. CASE WriteUnit(i)
  <2>1. RenderQuadlet(i, run[i].plan) \in Units
    BY RenderType DEF Runs
  <2> QED BY <1>4, <2>1 DEF WriteUnit
<1>5. CASE DaemonReload(i)
  BY <1>5 DEF DaemonReload
<1>6. CASE IsActive(i)
  <2>1. ASSUME NEW v \in {"start", "restart"}, NEW m \in BOOLEAN
        PROVE  [run[i] EXCEPT !.verb = v, !.misread = m] \in Runs
    BY <1>0 DEF Runs
  <2> QED BY <1>6, <2>1 DEF IsActive
<1>7. CASE IssueVerb(i)
  <2>1. ASSUME NEW j \in {"done", "pending"}
        PROVE  [run[i] EXCEPT !.job = j] \in Runs
    BY <1>0 DEF Runs
  <2>2. svc' \in [Instances -> Services]
    BY <1>7, ActivatingType DEF IssueVerb
  <2>3. run' \in [Instances -> Runs]
    BY <1>7, <2>1 DEF IssueVerb
  <2> QED BY <1>7, <2>2, <2>3 DEF IssueVerb
<1>8. CASE ReportDeploy(i)
  BY <1>8, FinishType DEF ReportDeploy
<1>9. CASE StopService(i)
  BY <1>9, NoUnitType DEF StopService
<1>10. CASE RemoveUnitFile(i)
  BY <1>10, NoUnitType DEF RemoveUnitFile
<1>11. CASE PurgeSecrets(i)
  BY <1>11, FinishType, WithoutType DEF PurgeSecrets
<1> QED BY <1>1, <1>2, <1>3, <1>4, <1>5, <1>6, <1>7, <1>8, <1>9, <1>10,
           <1>11 DEF RunStep

\* Faults keep the types.
LEMMA FaultStepTypes ==
  ASSUME TypeOK, NEW i \in Instances, FaultStep(i)
  PROVE  TypeOK'
<1> USE DEF TypeOK, Steps, DeploySteps, RemoveSteps, Goto
<1>0. run[i] \in Runs
  OBVIOUS
<1>1. CASE IsActiveFails(i)
  <2>1. ASSUME NEW m \in BOOLEAN
        PROVE  [run[i] EXCEPT !.verb = "start", !.misread = m] \in Runs
    BY <1>0 DEF Runs
  <2>2. run' \in [Instances -> Runs]
    <3> DEFINE m == svc[i].state \in {"active", "activating"}
    <3>1. run' = [run EXCEPT
                    ![i] = [run[i] EXCEPT !.verb = "start", !.misread = m]]
      BY <1>1 DEF IsActiveFails
    <3>2. m \in BOOLEAN
      OBVIOUS
    <3> HIDE DEF m
    <3> QED BY <2>1, <3>1, <3>2
  <2>3. faults' \in 0..MaxFaults
    BY <1>1, FaultType DEF IsActiveFails
  <2> QED BY <1>1, <2>2, <2>3 DEF IsActiveFails
<1>2. CASE TeardownFails(i)
  <2>1. [run[i] EXCEPT !.rerr = TRUE] \in Runs
    BY <1>0 DEF Runs
  <2>2. faults' \in 0..MaxFaults
    BY <1>2, FaultType DEF TeardownFails
  <2> QED BY <1>2, <2>1, <2>2 DEF TeardownFails
<1>3. CASE RunEnds(i)
  BY <1>3, FaultType, FinishType DEF RunEnds
<1>4. CASE DeleteFailsPartly(i)
  <2>1. secrets' \in [Names -> 0..MaxVersion]
    BY <1>4, WithoutType DEF DeleteFailsPartly
  <2> QED BY <1>4, <2>1, FaultType, FinishType DEF DeleteFailsPartly
<1>5. CASE WriteIsTorn(i)
  <2>1. PICK some \in TornMounts(i, run[i].plan) :
          unit' = [unit EXCEPT ![i] =
                     [RenderQuadlet(i, run[i].plan) EXCEPT !.mounts = some]]
    BY <1>5 DEF WriteIsTorn
  <2>2. RenderQuadlet(i, run[i].plan) \in Units
    BY RenderType DEF Runs
  <2>3. some \subseteq RenderQuadlet(i, run[i].plan).mounts
    BY <2>1 DEF TornMounts, RenderQuadlet
  <2>4. unit' \in [Instances -> Units]
    BY <2>1, <2>2, <2>3 DEF Units
  <2> QED BY <1>5, <2>4, FaultType, FinishType DEF WriteIsTorn
<1>6. CASE ContainerDies(i)
  <2>1. svc[i].unit \in Units /\ svc[i].files \in [Names -> 0..MaxVersion]
    BY DEF Services
  <2>2. svc' \in [Instances -> Services]
    BY <1>6, <2>1, SMTT(20) DEF ContainerDies, Services, States
  <2> QED BY <1>6, <2>2, FaultType DEF ContainerDies
<1> QED BY <1>1, <1>2, <1>3, <1>4, <1>5, <1>6 DEF FaultStep

\* The operator, systemd and podman keep the types.
LEMMA OtherTypes ==
  ASSUME TypeOK, NEW i \in Instances,
         Operator(i) \/ CreateContainer(i) \/ SystemdRestarts(i)
  PROVE  TypeOK'
<1> USE DEF TypeOK, Steps, DeploySteps, RemoveSteps, Goto
<1>0. run[i] \in Runs
  OBVIOUS
<1>1. ASSUME NEW r \in BOOLEAN, BeginDeploy(i, r) PROVE TypeOK'
  <2>1. faults' \in 0..MaxFaults
    BY <1>1, FaultType DEF BeginDeploy, ReadsUnit
  <2> QED BY <1>1, <2>1, RunTypes DEF BeginDeploy
<1>2. CASE BeginRemove(i)
  <2>1. ASSUME NEW reads \in BOOLEAN
        PROVE  [NewRun(i, FALSE, reads) EXCEPT !.todo = {}] \in Runs
    <3>1. NewRun(i, FALSE, reads) \in Runs
      BY RunTypes
    <3> QED BY <3>1 DEF Runs
  <2>2. faults' \in 0..MaxFaults
    BY <1>2, FaultType DEF BeginRemove, ReadsUnit
  <2> QED BY <1>2, <2>1, <2>2 DEF BeginRemove
<1>3. CASE LifecycleStart(i)
  BY <1>3, ActivatingType DEF LifecycleStart
<1>4. CASE LifecycleRestart(i)
  BY <1>4, ActivatingType DEF LifecycleRestart
<1>5. CASE LifecycleStop(i)
  BY <1>5, NoUnitType DEF LifecycleStop
<1>6. ASSUME NEW sp \in Specs, EditSpec(i, sp) PROVE TypeOK'
  BY <1>6 DEF EditSpec
<1>7. CASE CreateContainer(i)
  <2>1. ASSUME NEW st \in {"active", "failed"},
               NEW f \in [Names -> 0..MaxVersion]
        PROVE  [svc[i] EXCEPT !.state = st, !.files = f] \in Services
    BY DEF Services, States
  <2>2. ASSUME NEW j \in {"done", "failed"}
        PROVE  [run[i] EXCEPT !.job = j] \in Runs
    BY <1>0 DEF Runs
  <2> DEFINE ok == \A n \in svc[i].unit.mounts : secrets[n] # 0
             st == IF ok THEN "active" ELSE "failed"
             f  == [n \in Names |-> IF ok /\ n \in svc[i].unit.mounts
                                    THEN secrets[n] ELSE 0]
  <2>4. svc' \in [Instances -> Services]
    <3>1. svc' = [svc EXCEPT ![i] = [svc[i] EXCEPT !.state = st, !.files = f]]
      BY <1>7 DEF CreateContainer
    <3>2. f \in [Names -> 0..MaxVersion]
      BY BoundsAssumption
    <3>3. st \in {"active", "failed"}
      OBVIOUS
    <3> HIDE DEF st, f
    <3> QED BY <2>1, <3>1, <3>2, <3>3
  <2>5. run' \in [Instances -> Runs]
    BY <1>7, <2>2 DEF CreateContainer
  <2> QED BY <1>7, <2>4, <2>5 DEF CreateContainer
<1>8. CASE SystemdRestarts(i)
  BY <1>8, ActivatingType DEF SystemdRestarts
<1> QED BY <1>1, <1>2, <1>3, <1>4, <1>5, <1>6, <1>7, <1>8 DEF Operator

LEMMA RebootTypes == TypeOK /\ Reboot => TypeOK'
<1> SUFFICES ASSUME TypeOK, Reboot PROVE TypeOK'
  OBVIOUS
<1>1. svc' \in [Instances -> Services]
  BY NoUnitType DEF Reboot, TypeOK, Services, States
<1>2. verdict' \in [Instances -> {"none", "deployed", "removed", "failed"}]
  BY DEF Reboot, TypeOK
<1> QED BY <1>1, <1>2, NoRunType, FaultType DEF Reboot, TypeOK, Steps

LEMMA NextTypes == TypeOK /\ [Next]_vars => TypeOK'
<1>1. CASE UNCHANGED vars
  BY <1>1 DEF TypeOK, vars
<1>2. CASE Next
  BY <1>2, RunStepTypes, FaultStepTypes, OtherTypes, RebootTypes DEF Next
<1> QED BY <1>1, <1>2

\* Every variable keeps its type: no step of a run, no fault and no action of
\* systemd leaves a secret, a unit or a run's locals outside its domain.
THEOREM TypeCorrect == Spec => []TypeOK
<1>1. Init => TypeOK
  BY InitTypes
<1>2. TypeOK /\ [Next]_vars => TypeOK'
  BY NextTypes
<1> QED BY <1>1, <1>2, PTL DEF Spec

-----------------------------------------------------------------------------
(***************************************************************************)
(* What no two instances share                                             *)
(***************************************************************************)

\* No credential is a document or a store: deleting the stale ones of these
\* never takes a credential the new unit mounts.
LEMMA CredsAreNoFiles ==
  ASSUME NEW i \in Instances, NEW u, NEW c \in Creds
  PROVE  CredName(i, c) \notin PodmanFileSecretNames(i)
                                 \cup PodmanUnitStoreSecrets(u, i)
<1>1. i \in Seq(STRING)
  BY NamesAssumption
<1>2. Len(CredName(i, c)) = Len(i) + 1 /\ CredName(i, c)[Len(i) + 1] = c
  BY <1>1 DEF CredName, PodmanSecretStoreName
<1>3. CredName(i, c) # PodmanSecretStoreName(i, AppYAML)
  <2>1. PodmanSecretStoreName(i, AppYAML)[Len(i) + 1] = "application.yml"
    BY <1>1 DEF PodmanSecretStoreName, AppYAML
  <2> QED BY <1>2, <2>1, NamesAssumption
<1>4. /\ CredName(i, c) # PodmanSecretStoreName(i, StatusScript)
      /\ CredName(i, c) # PodmanSecretStoreName(i, Logback)
  <2>1. /\ Len(PodmanSecretStoreName(i, StatusScript)) = Len(i) + 2
        /\ Len(PodmanSecretStoreName(i, Logback)) = Len(i) + 2
    BY <1>1 DEF PodmanSecretStoreName, StatusScript, Logback
  <2> QED BY <1>1, <1>2, <2>1
<1>5. CredName(i, c) \notin PodmanUnitStoreSecrets(u, i)
  <2>1. Len(PodmanStoreSecretName(i, <<>>)) = Len(i) + 1
    BY <1>1 DEF PodmanStoreSecretName, PodmanSecretStoreName, StorePrefix
  <2> QED BY <1>1, <1>2, <2>1 DEF PodmanUnitStoreSecrets
<1> QED BY <1>3, <1>4, <1>5 DEF PodmanFileSecretNames

\* What a deploy deletes as stale is its own, and nothing its plan mounts.
LEMMA StaleIsUnmounted ==
  ASSUME TypeOK, NEW i \in Instances, TouchesItsOwn(i)
  PROVE  /\ Stale(i) \subseteq Owned(i)
         /\ Stale(i) \cap MountNames(i, run[i].plan) = {}
<1>1. run[i].plan \in Specs
  BY DEF TypeOK, Runs
<1>2. Stale(i) \subseteq Owned(i)
  BY OwnedAreNames DEF Stale, TouchesItsOwn
<1>3. ASSUME NEW n \in Stale(i) PROVE n \notin CredNames(i, run[i].plan)
  <2>1. SUFFICES ASSUME NEW c \in run[i].plan.creds, n = CredName(i, c)
                 PROVE  FALSE
    BY DEF CredNames
  <2>2. c \in Creds
    BY <1>1 DEF Specs
  <2>3. n \notin PodmanFileSecretNames(i)
    BY <2>1, <2>2, CredsAreNoFiles
  <2>4. n \notin run[i].previous
    BY <2>1, <2>2 DEF TouchesItsOwn
  <2> QED BY <2>3, <2>4 DEF Stale
<1> QED BY <1>2, <1>3 DEF Stale, MountNames

\* What a remove deletes is its own.
LEMMA PurgeIsOwn ==
  ASSUME TypeOK, NEW i \in Instances, TouchesItsOwn(i)
  PROVE  PurgeNames(i) \subseteq Owned(i)
<1>1. run[i].plan \in Specs
  BY DEF TypeOK, Runs
<1> QED BY <1>1, MountsAreOwned, OwnedAreNames DEF PurgeNames, TouchesItsOwn
(***************************************************************************)
(* Steps of another instance                                               *)
(***************************************************************************)

\* A step of a run changes no secret but its instance's own.
LEMMA OwnSecretsOnly ==
  ASSUME IInv, NEW j \in Instances,
         \/ RunStep(j) \/ FaultStep(j) \/ Operator(j)
         \/ CreateContainer(j) \/ SystemdRestarts(j),
         NEW n \in Names \ Owned(j)
  PROVE  secrets'[n] = secrets[n]
<1>1. TypeOK /\ TouchesItsOwn(j)
  BY DEF IInv, StepInv
<1>2. ASSUME NEW m \in Names, ClearSecret(j, m) PROVE secrets'[n] = secrets[n]
  BY <1>1, <1>2 DEF ClearSecret, NextToLoad, TouchesItsOwn, Without, TypeOK
<1>3. ASSUME NEW m \in Names, LoadSecret(j, m) PROVE secrets'[n] = secrets[n]
  BY <1>1, <1>3 DEF LoadSecret, NextToLoad, TouchesItsOwn, TypeOK
<1>4. CASE DropStale(j)
  BY <1>1, <1>4, StaleIsUnmounted DEF DropStale, Without
<1>5. CASE PurgeSecrets(j)
  BY <1>1, <1>5, PurgeIsOwn DEF PurgeSecrets, Without
<1>6. CASE DeleteFailsPartly(j)
  BY <1>1, <1>6, StaleIsUnmounted, PurgeIsOwn DEF DeleteFailsPartly, Without
<1>7. CASE UNCHANGED secrets
  BY <1>7
<1> QED BY <1>2, <1>3, <1>4, <1>5, <1>6, <1>7
        DEF RunStep, FaultStep, Operator, WriteUnit, DaemonReload, IsActive,
            IssueVerb, ReportDeploy, StopService, RemoveUnitFile,
            IsActiveFails, TeardownFails, RunEnds, WriteIsTorn, ContainerDies,
            BeginDeploy, BeginRemove, LifecycleStart, LifecycleRestart,
            LifecycleStop, EditSpec, CreateContainer, SystemdRestarts

\* A step of j leaves the unit, the service and the run of i alone; its
\* daemon-reload may load i's unit.
LEMMA OthersLeaveRunAlone ==
  ASSUME TypeOK, NEW i \in Instances, NEW j \in Instances, i # j,
         \/ RunStep(j) \/ FaultStep(j) \/ Operator(j)
         \/ CreateContainer(j) \/ SystemdRestarts(j)
  PROVE  /\ pc'[i] = pc[i] /\ run'[i] = run[i] /\ unit'[i] = unit[i]
         /\ svc'[i] = svc[i] /\ verdict'[i] = verdict[i]
         /\ loaded'[i] \in {loaded[i], unit[i]}
<1> USE DEF TypeOK, Goto, Finish
<1>1. CASE RunStep(j)
  BY <1>1 DEF RunStep, ClearSecret, LoadSecret, DropStale, WriteUnit,
       DaemonReload, IsActive, IssueVerb, Activating, ReportDeploy,
       StopService, RemoveUnitFile, PurgeSecrets
<1>2. CASE FaultStep(j)
  BY <1>2 DEF FaultStep, IsActiveFails, TeardownFails, RunEnds,
       DeleteFailsPartly, WriteIsTorn, ContainerDies
<1>3. CASE Operator(j)
  BY <1>3 DEF Operator, BeginDeploy, BeginRemove, LifecycleStart, Activating,
       LifecycleRestart, LifecycleStop, EditSpec
<1>4. CASE CreateContainer(j) \/ SystemdRestarts(j)
  BY <1>4 DEF CreateContainer, SystemdRestarts, Activating
<1> QED BY <1>1, <1>2, <1>3, <1>4

\* A step that changes nothing of i but loads its unit keeps its invariant.
LEMMA NothingChanges ==
  ASSUME TypeOK, NEW i \in Instances, StepInv(i),
         pc'[i] = pc[i], run'[i] = run[i], unit'[i] = unit[i],
         svc'[i] = svc[i], verdict'[i] = verdict[i],
         loaded'[i] \in {loaded[i], unit[i]},
         \A n \in Owned(i) : secrets'[n] = secrets[n]
  PROVE  StepInv(i)'
<1>1. run[i].plan \in Specs
  BY DEF TypeOK, Runs
<1>2. MountNames(i, run[i].plan) \subseteq Owned(i)
  BY <1>1, MountsAreOwned
<1>3. TouchesItsOwn(i)'
  BY DEF StepInv, TouchesItsOwn
<1>4. LoadedSoFar(i)'
  BY <1>2 DEF StepInv, LoadedSoFar
<1>5. InstalledSoFar(i)'
  BY DEF StepInv, InstalledSoFar
<1>6. Serves(i, run[i].plan) => Serves(i, run[i].plan)'
  BY <1>2 DEF Serves
<1>7. ServesSoFar(i)'
  BY <1>6 DEF StepInv, ServesSoFar
<1>8. DownSoFar(i)' /\ VerdictIsFinal(i)'
  BY DEF StepInv, DownSoFar, VerdictIsFinal
<1>9. (verdict[i] = "deployed" => UnitIsWhole(i))'
  BY DEF StepInv, UnitIsWhole, TouchesItsOwn
<1>10. (verdict[i] = "removed" => IsDown(i))'
  BY DEF StepInv, IsDown
<1> QED BY <1>3, <1>4, <1>5, <1>7, <1>8, <1>9, <1>10 DEF StepInv

\* A step of another instance keeps the invariant of i.
LEMMA OthersKeepInv ==
  ASSUME NamesDistinct, IInv,
         NEW i \in Instances, NEW j \in Instances, i # j,
         \/ RunStep(j) \/ FaultStep(j) \/ Operator(j)
         \/ CreateContainer(j) \/ SystemdRestarts(j)
  PROVE  StepInv(i)'
<1>1. \A n \in Owned(i) : secrets'[n] = secrets[n]
  BY OwnSecretsOnly, OwnedAreNames DEF NamesDistinct
<1> QED BY <1>1, NothingChanges, OthersLeaveRunAlone DEF IInv
(***************************************************************************)
(* Steps of the run itself                                                 *)
(***************************************************************************)

\* A finished run leaves nothing to keep but the verdict.
LEMMA FinishKeepsInv ==
  ASSUME TypeOK, NEW i \in Instances, NEW v, Finish(i, v),
         unit'[i].mounts \subseteq Owned(i),
         v = "deployed" => UnitIsWhole(i)',
         v = "removed" => IsDown(i)'
  PROVE  StepInv(i)'
<1>1. pc'[i] = "idle" /\ run'[i] = NoRun /\ verdict'[i] = v
  BY DEF Finish, TypeOK
<1>2. TouchesItsOwn(i)'
  BY <1>1 DEF TouchesItsOwn, NoRun
<1>3. /\ LoadedSoFar(i)' /\ InstalledSoFar(i)' /\ ServesSoFar(i)'
      /\ DownSoFar(i)' /\ VerdictIsFinal(i)'
  BY <1>1 DEF LoadedSoFar, InstalledSoFar, ServesSoFar, DownSoFar,
              VerdictIsFinal, DeploySteps
<1> QED BY <1>1, <1>2, <1>3 DEF StepInv

\* A run begins with names of its own.
LEMMA BeginKeepsInv ==
  ASSUME IInv, NEW i \in Instances, NEW r \in BOOLEAN,
         BeginDeploy(i, r) \/ BeginRemove(i)
  PROVE  StepInv(i)'
<1>0. TypeOK /\ StepInv(i)
  BY DEF IInv
<1>1. spec[i] \in Specs
  BY <1>0 DEF TypeOK
<1>2. PodmanUnitStoreSecrets(unit[i], i)
        \subseteq Owned(i) \ {CredName(i, c) : c \in Creds}
  <2>1. PodmanUnitStoreSecrets(unit[i], i) \subseteq Owned(i)
    BY <1>0, UnitStoresAreMounted DEF StepInv, TouchesItsOwn
  <2> QED BY <2>1, CredsAreNoFiles
<1> DEFINE Begun(b) == \/ run'[i] = NewRun(i, r, b)
                       \/ run'[i] = [NewRun(i, FALSE, b) EXCEPT !.todo = {}]
<1>3. PICK reads \in BOOLEAN :
        /\ pc'[i] \in {"load", "stop"} /\ verdict'[i] = "none" /\ unit'[i] = unit[i]
        /\ Begun(reads)
        /\ pc'[i] = "load" => run'[i] = NewRun(i, r, reads)
  <2>1. CASE BeginDeploy(i, r)
    BY <1>0, <2>1 DEF BeginDeploy, Goto, TypeOK
  <2>2. CASE BeginRemove(i)
    BY <1>0, <2>2 DEF BeginRemove, Goto, TypeOK
  <2> QED BY <2>1, <2>2
<1>7. /\ run'[i].cleared = {} /\ run'[i].plan = spec[i]
      /\ run'[i].previous \subseteq PodmanUnitStoreSecrets(unit[i], i)
      /\ run'[i].todo \subseteq MountNames(i, spec[i])
  BY <1>3 DEF NewRun, previousStoreSecrets
<1>8. pc'[i] = "load" => run'[i].todo = MountNames(i, spec[i])
  BY <1>3 DEF NewRun
<1> HIDE DEF Begun
<1>4. TouchesItsOwn(i)'
  BY <1>0, <1>1, <1>2, <1>3, <1>7, MountsAreOwned DEF StepInv, TouchesItsOwn
<1>5. LoadedSoFar(i)'
  BY <1>3, <1>7, <1>8 DEF LoadedSoFar, DeploySteps
<1>6. /\ InstalledSoFar(i)' /\ ServesSoFar(i)' /\ DownSoFar(i)'
      /\ VerdictIsFinal(i)'
  BY <1>3 DEF InstalledSoFar, ServesSoFar, DownSoFar, VerdictIsFinal
<1> QED BY <1>3, <1>4, <1>5, <1>6 DEF StepInv

\* Loading a secret keeps those already loaded.
LEMMA LoadKeepsInv ==
  ASSUME IInv, NEW i \in Instances, NEW n \in Names,
         ClearSecret(i, n) \/ LoadSecret(i, n)
  PROVE  StepInv(i)'
<1>0. TypeOK /\ StepInv(i) /\ run[i] \in Runs
  BY DEF IInv, TypeOK
<1>1. /\ pc[i] = "load" /\ pc'[i] = "load"
      /\ verdict'[i] = verdict[i] /\ unit'[i] = unit[i]
  BY <1>0 DEF ClearSecret, LoadSecret, Goto, TypeOK
<1>2. n \in run[i].todo
  BY <1>0 DEF ClearSecret, LoadSecret, NextToLoad, StepInv, TouchesItsOwn
<1>3. /\ run'[i].plan = run[i].plan /\ run'[i].previous = run[i].previous
      /\ \/ /\ run'[i].todo = run[i].todo /\ run'[i].cleared = {n}
            /\ secrets' = Without({n})
         \/ /\ run'[i].todo = run[i].todo \ {n} /\ run'[i].cleared = {}
            /\ secrets' = [secrets EXCEPT ![n] = run[i].plan.ver]
  BY <1>0 DEF ClearSecret, LoadSecret, TypeOK, Runs
<1>4. TouchesItsOwn(i)'
  BY <1>0, <1>1, <1>2, <1>3 DEF StepInv, TouchesItsOwn
<1>5. LoadedSoFar(i)'
  <2>1. MountNames(i, run[i].plan) \subseteq Names
    BY <1>0, MountsAreOwned, OwnedAreNames DEF Runs
  <2>2. /\ run[i].todo \subseteq MountNames(i, run[i].plan)
        /\ \A m \in MountNames(i, run[i].plan) \ run[i].todo :
             secrets[m] = run[i].plan.ver
    BY <1>0, <1>1 DEF StepInv, LoadedSoFar, DeploySteps
  <2>3. \A m \in MountNames(i, run[i].plan) \ run'[i].todo :
          secrets'[m] = run[i].plan.ver
    BY <1>0, <1>2, <1>3, <2>1, <2>2 DEF TypeOK, Without
  <2> QED BY <1>1, <1>3, <2>2, <2>3 DEF LoadedSoFar
<1>6. /\ InstalledSoFar(i)' /\ ServesSoFar(i)' /\ DownSoFar(i)'
  BY <1>1 DEF InstalledSoFar, ServesSoFar, DownSoFar
<1>7. verdict[i] \notin {"deployed", "removed"} /\ VerdictIsFinal(i)'
  BY <1>0, <1>1 DEF StepInv, VerdictIsFinal
<1> QED BY <1>1, <1>4, <1>5, <1>6, <1>7 DEF StepInv

\* A step of a deploy after the loading, which changes neither the plan nor
\* what it loaded.
LEMMA InstallKeepsInv ==
  ASSUME IInv, NEW i \in Instances,
         DropStale(i) \/ WriteUnit(i) \/ (DaemonReload(i) /\ pc[i] = "reload")
  PROVE  StepInv(i)'
<1>0. TypeOK /\ StepInv(i) /\ run[i] \in Runs
  BY DEF IInv, TypeOK
<1>1. /\ pc[i] \in {"load", "write", "reload"}
      /\ pc'[i] \in {"write", "reload", "probe"}
      /\ run'[i] = run[i] /\ run[i].todo = {} /\ verdict'[i] = verdict[i]
  BY <1>0 DEF DropStale, WriteUnit, DaemonReload, Goto, TypeOK, StepInv,
              LoadedSoFar, DeploySteps
<1>2. MountNames(i, run[i].plan) \subseteq Owned(i) /\ Owned(i) \subseteq Names
  BY <1>0, MountsAreOwned, OwnedAreNames DEF Runs
<1>3. unit'[i].mounts \subseteq Owned(i)
  BY <1>0, <1>2 DEF DropStale, WriteUnit, DaemonReload, TypeOK, RenderQuadlet,
                    StepInv, TouchesItsOwn
<1>4. TouchesItsOwn(i)'
  BY <1>0, <1>1, <1>3 DEF StepInv, TouchesItsOwn
<1>5. \A n \in MountNames(i, run[i].plan) : secrets'[n] = secrets[n]
  <2>1. CASE DropStale(i)
    <3>1. TouchesItsOwn(i)
      BY <1>0 DEF StepInv
    <3> QED BY <1>0, <1>2, <2>1, <3>1, StaleIsUnmounted DEF DropStale, Without
  <2>2. CASE UNCHANGED secrets
    BY <2>2
  <2> QED BY <2>1, <2>2 DEF WriteUnit, DaemonReload
<1>6. LoadedSoFar(i)'
  BY <1>0, <1>1, <1>5 DEF StepInv, LoadedSoFar, DeploySteps
<1>7. InstalledSoFar(i)'
  BY <1>0 DEF DropStale, WriteUnit, DaemonReload, Goto, TypeOK, StepInv,
              InstalledSoFar
<1>8. ServesSoFar(i)' /\ DownSoFar(i)'
  BY <1>1 DEF ServesSoFar, DownSoFar
<1>9. verdict'[i] \notin {"deployed", "removed"} /\ VerdictIsFinal(i)'
  BY <1>0, <1>1 DEF StepInv, VerdictIsFinal
<1> QED BY <1>4, <1>6, <1>7, <1>8, <1>9 DEF StepInv
\* Probing and starting the service: the plan, what is loaded and the unit
\* stay, and the service found or created is the plan's.
LEMMA StartKeepsInv ==
  ASSUME IInv, NEW i \in Instances,
         IsActive(i) \/ IsActiveFails(i) \/ IssueVerb(i)
  PROVE  StepInv(i)'
<1>0. TypeOK /\ StepInv(i) /\ run[i] \in Runs
  BY DEF IInv, TypeOK
<1>1. /\ pc[i] \in {"probe", "verb"}
      /\ pc'[i] = IF pc[i] = "probe" THEN "verb" ELSE "wait"
      /\ verdict'[i] = verdict[i] /\ unit'[i] = unit[i]
      /\ loaded'[i] = loaded[i] /\ secrets' = secrets
  BY <1>0 DEF IsActive, IsActiveFails, IssueVerb, Goto, TypeOK
<1>2. /\ run'[i].plan = run[i].plan /\ run'[i].previous = run[i].previous
      /\ run'[i].todo = run[i].todo /\ run'[i].cleared = run[i].cleared
  BY <1>0 DEF IsActive, IsActiveFails, IssueVerb, TypeOK, Runs
<1>3. TouchesItsOwn(i)'
  BY <1>0, <1>1, <1>2 DEF StepInv, TouchesItsOwn
<1>4. LoadedSoFar(i)'
  BY <1>0, <1>1, <1>2 DEF StepInv, LoadedSoFar, DeploySteps
<1>5. InstalledSoFar(i)'
  BY <1>0, <1>1, <1>2 DEF StepInv, InstalledSoFar
<1>6. ServesSoFar(i)'
  <2>1. CASE IsActive(i) \/ IsActiveFails(i)
    <3>1. /\ svc[i].state \in States /\ svc' = svc /\ pc'[i] = "verb"
          /\ \/ run'[i].verb = "restart"
             \/ run'[i].misread = (svc[i].state = "activating")
                /\ svc[i].state # "active"
             \/ run'[i].misread = (svc[i].state \in {"active", "activating"})
      BY <1>0, <2>1 DEF IsActive, IsActiveFails, Goto, TypeOK, Runs, Services
    <3> QED BY <3>1 DEF ServesSoFar, States
  <2>2. CASE IssueVerb(i)
    <3>1. /\ pc[i] = "verb" /\ pc'[i] = "wait"
          /\ run'[i].misread = run[i].misread
      BY <1>0, <2>2 DEF IssueVerb, Goto, TypeOK, Runs
    <3>2. SUFFICES ASSUME ~run[i].misread PROVE Serves(i, run[i].plan)'
      BY <1>2, <3>1 DEF ServesSoFar
    <3>3. CASE svc' = svc /\ run[i].verb = "start"
                 /\ svc[i].state \in {"active", "activating"}
      <4>1. Serves(i, run[i].plan)
        BY <1>0, <3>1, <3>2, <3>3 DEF StepInv, ServesSoFar
      <4> QED BY <1>1, <1>2, <3>3, <4>1 DEF Serves
    <3>4. CASE svc' = Activating(i)
      <4>1. svc'[i] = [state |-> "activating", unit |-> loaded[i],
                       files |-> NoFiles]
        BY <1>0, <3>4 DEF Activating, TypeOK
      <4>2. loaded[i] = RenderQuadlet(i, run[i].plan)
        BY <1>0, <3>1 DEF StepInv, InstalledSoFar
      <4>3. \A n \in MountNames(i, run[i].plan) :
              secrets[n] = run[i].plan.ver
        BY <1>0, <3>1 DEF StepInv, LoadedSoFar, DeploySteps
      <4> QED BY <1>1, <1>2, <4>1, <4>2, <4>3 DEF Serves
    <3> QED BY <2>2, <3>3, <3>4 DEF IssueVerb
  <2> QED BY <2>1, <2>2
<1>7. verdict'[i] \notin {"deployed", "removed"} /\ VerdictIsFinal(i)'
  BY <1>0, <1>1 DEF StepInv, VerdictIsFinal
<1>8. DownSoFar(i)'
  BY <1>1 DEF DownSoFar
<1> QED BY <1>3, <1>4, <1>5, <1>6, <1>7, <1>8 DEF StepInv

\* The steps of a teardown: what it took down stays down.
LEMMA TeardownKeepsInv ==
  ASSUME IInv, NEW i \in Instances,
         \/ StopService(i) \/ RemoveUnitFile(i) \/ TeardownFails(i)
         \/ (DaemonReload(i) /\ pc[i] = "unload")
  PROVE  StepInv(i)'
<1>0. TypeOK /\ StepInv(i) /\ run[i] \in Runs
  BY DEF IInv, TypeOK
<1>1. /\ pc[i] \in {"stop", "unlink", "unload"}
      /\ pc'[i] \in {"unlink", "unload", "purge"}
      /\ verdict'[i] = verdict[i] /\ unit'[i] \in {unit[i], NoUnit}
  BY <1>0 DEF StopService, RemoveUnitFile, TeardownFails, DaemonReload, Goto,
              TypeOK
<1>2. /\ run'[i].cleared = run[i].cleared /\ run'[i].previous = run[i].previous
      /\ run'[i].todo = run[i].todo
  BY <1>0 DEF StopService, RemoveUnitFile, TeardownFails, DaemonReload, TypeOK,
              Runs
<1>3. TouchesItsOwn(i)'
  BY <1>0, <1>1, <1>2 DEF StepInv, TouchesItsOwn, NoUnit
<1>4. LoadedSoFar(i)' /\ InstalledSoFar(i)' /\ ServesSoFar(i)'
  BY <1>1 DEF LoadedSoFar, InstalledSoFar, ServesSoFar, DeploySteps
<1>5. DownSoFar(i)'
  <2>1. CASE StopService(i)
    BY <1>0, <2>1 DEF StopService, Goto, TypeOK, DownSoFar, Down
  <2>2. CASE RemoveUnitFile(i)
    BY <1>0, <2>2 DEF RemoveUnitFile, Goto, TypeOK, StepInv, DownSoFar
  <2>3. CASE DaemonReload(i) /\ pc[i] = "unload"
    BY <1>0, <2>3 DEF DaemonReload, Goto, TypeOK, StepInv, DownSoFar
  <2>4. CASE TeardownFails(i)
    <3>1. run'[i].rerr
      BY <1>0, <2>4 DEF TeardownFails, TypeOK, Runs
    <3> QED BY <3>1 DEF DownSoFar
  <2> QED BY <2>1, <2>2, <2>3, <2>4
<1>6. verdict'[i] \notin {"deployed", "removed"} /\ VerdictIsFinal(i)'
  BY <1>0, <1>1 DEF StepInv, VerdictIsFinal
<1> QED BY <1>3, <1>4, <1>5, <1>6 DEF StepInv

\* The steps that end a run.
LEMMA EndKeepsInv ==
  ASSUME IInv, NEW i \in Instances,
         \/ ReportDeploy(i) \/ PurgeSecrets(i) \/ RunEnds(i)
         \/ DeleteFailsPartly(i) \/ WriteIsTorn(i)
  PROVE  StepInv(i)'
<1>0. TypeOK /\ StepInv(i) /\ run[i] \in Runs /\ unit[i].mounts \subseteq Owned(i)
  BY DEF IInv, TypeOK, StepInv, TouchesItsOwn
<1>1. CASE ReportDeploy(i)
  <2>1. /\ pc[i] = "wait"
        /\ unit[i] = RenderQuadlet(i, run[i].plan) /\ loaded[i] = unit[i]
        /\ \A n \in MountNames(i, run[i].plan) : secrets[n] = run[i].plan.ver
    BY <1>0, <1>1 DEF ReportDeploy, StepInv, InstalledSoFar, LoadedSoFar,
                      DeploySteps
  <2>2. unit[i] # NoUnit
    BY <1>0, <2>1, BoundsAssumption
       DEF Runs, Specs, Versions, RenderQuadlet, NoUnit
  <2>3. UnitIsWhole(i)'
    BY <1>1, <2>1, <2>2 DEF ReportDeploy, UnitIsWhole, RenderQuadlet
  <2> QED BY <1>0, <1>1, <2>3, FinishKeepsInv DEF ReportDeploy
<1>2. CASE PurgeSecrets(i)
  <2>1. ~run[i].rerr => IsDown(i)'
    BY <1>0, <1>2 DEF PurgeSecrets, StepInv, DownSoFar, IsDown
  <2> QED BY <1>0, <1>2, <2>1, FinishKeepsInv DEF PurgeSecrets
<1>3. CASE RunEnds(i)
  BY <1>0, <1>3, FinishKeepsInv DEF RunEnds
<1>4. CASE DeleteFailsPartly(i)
  BY <1>0, <1>4, FinishKeepsInv DEF DeleteFailsPartly
<1>5. CASE WriteIsTorn(i)
  <2>1. unit'[i].mounts \subseteq MountNames(i, run[i].plan)
    BY <1>0, <1>5 DEF WriteIsTorn, TypeOK, RenderQuadlet, TornMounts
  <2>2. MountNames(i, run[i].plan) \subseteq Owned(i)
    BY <1>0, MountsAreOwned DEF Runs
  <2> QED BY <1>0, <1>5, <2>1, <2>2, FinishKeepsInv DEF WriteIsTorn
<1> QED BY <1>1, <1>2, <1>3, <1>4, <1>5
(***************************************************************************)
(* Steps of the service                                                    *)
(***************************************************************************)

\* A step that changes only i's service keeps the invariant, if it keeps a
\* service serving and leaves a stopped one stopped.
LEMMA ServiceKeepsInv ==
  ASSUME IInv, NEW i \in Instances,
         pc'[i] = pc[i], unit'[i] = unit[i], loaded'[i] = loaded[i],
         secrets' = secrets, verdict'[i] = verdict[i],
         run'[i].plan = run[i].plan, run'[i].todo = run[i].todo,
         run'[i].cleared = run[i].cleared, run'[i].previous = run[i].previous,
         run'[i].verb = run[i].verb, run'[i].misread = run[i].misread,
         run'[i].rerr = run[i].rerr,
         (pc[i] \in {"verb", "wait"} /\ Serves(i, run[i].plan))
           => Serves(i, run[i].plan)',
         pc[i] = "verb" /\ svc[i].state \in {"inactive", "failed"}
           => svc'[i].state \in {"inactive", "failed"} \/ Serves(i, run[i].plan)',
         (loaded[i] = NoUnit \/ pc[i] # "idle") /\ svc[i].state = "inactive"
           => svc'[i].state = "inactive"
  PROVE  StepInv(i)'
<1>0. TypeOK /\ StepInv(i)
  BY DEF IInv
<1>1. TouchesItsOwn(i)' /\ LoadedSoFar(i)' /\ InstalledSoFar(i)'
  BY <1>0 DEF StepInv, TouchesItsOwn, LoadedSoFar, InstalledSoFar
<1>2. ServesSoFar(i)'
  BY <1>0 DEF StepInv, ServesSoFar
<1>3. DownSoFar(i)' /\ VerdictIsFinal(i)'
  BY <1>0 DEF StepInv, DownSoFar, VerdictIsFinal
<1>4. (verdict[i] = "deployed" => UnitIsWhole(i))'
  BY <1>0 DEF StepInv, UnitIsWhole
<1>5. (verdict[i] = "removed" => IsDown(i))'
  BY <1>0 DEF StepInv, IsDown
<1> QED BY <1>1, <1>2, <1>3, <1>4, <1>5 DEF StepInv

\* A service that systemd starts during the last steps of a deploy is the
\* deploy's.
LEMMA StartedServes ==
  ASSUME IInv, NEW i \in Instances, pc[i] \in {"verb", "wait"},
         svc' = Activating(i), secrets' = secrets,
         run'[i].plan = run[i].plan
  PROVE  Serves(i, run[i].plan)'
<1>0. TypeOK /\ StepInv(i)
  BY DEF IInv
<1>1. svc'[i].unit = loaded[i] /\ svc'[i].state = "activating"
  BY <1>0 DEF Activating, TypeOK
<1>2. /\ loaded[i] = RenderQuadlet(i, run[i].plan)
      /\ \A n \in MountNames(i, run[i].plan) : secrets[n] = run[i].plan.ver
  BY <1>0 DEF StepInv, InstalledSoFar, LoadedSoFar, DeploySteps
<1> QED BY <1>1, <1>2 DEF Serves

\* CreateContainer copies the secrets of the service's unit.
LEMMA CreatedServes ==
  ASSUME IInv, NEW i \in Instances, pc[i] \in {"verb", "wait"},
         CreateContainer(i), Serves(i, run[i].plan)
  PROVE  Serves(i, run[i].plan)'
<1>0. TypeOK /\ StepInv(i) /\ run[i] \in Runs /\ svc[i] \in Services
  BY DEF IInv, TypeOK
<1>1. run'[i].plan = run[i].plan
  BY <1>0 DEF CreateContainer, TypeOK, Runs
<1>2. /\ svc[i].unit = RenderQuadlet(i, run[i].plan)
      /\ \A n \in MountNames(i, run[i].plan) : secrets[n] = run[i].plan.ver
  BY <1>0 DEF StepInv, LoadedSoFar, DeploySteps, Serves
<1>3. run[i].plan.ver # 0 /\ MountNames(i, run[i].plan) \subseteq Names
  BY <1>0, MountsAreOwned, OwnedAreNames, BoundsAssumption
     DEF Runs, Specs, Versions
<1>4. \A n \in svc[i].unit.mounts : secrets[n] # 0
  BY <1>2, <1>3 DEF RenderQuadlet
<1>5. /\ svc'[i].unit = svc[i].unit /\ svc'[i].state = "active"
      /\ svc'[i].files = [n \in Names |-> IF n \in svc[i].unit.mounts
                                         THEN secrets[n] ELSE 0]
  BY <1>0, <1>4 DEF CreateContainer, TypeOK, Services
<1>6. \A n \in MountNames(i, run[i].plan) :
        svc'[i].files[n] = run[i].plan.ver
  BY <1>2, <1>3, <1>5 DEF RenderQuadlet
<1> QED BY <1>1, <1>2, <1>5, <1>6 DEF Serves

LEMMA ServiceStepsKeepInv ==
  ASSUME IInv, NEW i \in Instances,
         \/ LifecycleStart(i) \/ LifecycleRestart(i) \/ LifecycleStop(i)
         \/ CreateContainer(i) \/ ContainerDies(i) \/ SystemdRestarts(i)
  PROVE  StepInv(i)'
<1>0. TypeOK /\ StepInv(i) /\ run[i] \in Runs /\ svc[i] \in Services
  BY DEF IInv, TypeOK
<1>1. CASE LifecycleStart(i) \/ LifecycleRestart(i) \/ LifecycleStop(i)
  BY <1>0, <1>1, ServiceKeepsInv
     DEF LifecycleStart, LifecycleRestart, LifecycleStop, Down, TypeOK
<1>2. CASE SystemdRestarts(i)
  <2>1. pc[i] \in {"verb", "wait"} => Serves(i, run[i].plan)'
    BY <1>0, <1>2, StartedServes DEF SystemdRestarts
  <2> QED BY <1>0, <1>2, <2>1, ServiceKeepsInv DEF SystemdRestarts
<1>3. CASE ContainerDies(i)
  <2>1. /\ svc'[i].unit = svc[i].unit /\ svc'[i].files = svc[i].files
        /\ svc[i].state = "active" /\ svc'[i].state = "failed"
    BY <1>0, <1>3 DEF ContainerDies, TypeOK, Services
  <2>2. Serves(i, run[i].plan) => Serves(i, run[i].plan)'
    BY <1>3, <2>1 DEF ContainerDies, Serves
  <2> QED BY <1>0, <1>3, <2>1, <2>2, ServiceKeepsInv DEF ContainerDies
<1>4. CASE CreateContainer(i)
  <2>1. /\ run'[i].plan = run[i].plan /\ run'[i].todo = run[i].todo
        /\ run'[i].cleared = run[i].cleared
        /\ run'[i].previous = run[i].previous /\ run'[i].verb = run[i].verb
        /\ run'[i].misread = run[i].misread /\ run'[i].rerr = run[i].rerr
    BY <1>0, <1>4 DEF CreateContainer, TypeOK, Runs
  <2>2. svc[i].state = "activating"
    BY <1>4 DEF CreateContainer
  <2>3. pc[i] \in {"verb", "wait"} /\ Serves(i, run[i].plan)
          => Serves(i, run[i].plan)'
    BY <1>4, CreatedServes
  <2> QED BY <1>4, <2>1, <2>2, <2>3, ServiceKeepsInv DEF CreateContainer
<1> QED BY <1>1, <1>2, <1>3, <1>4

(***************************************************************************)
(* The theorems                                                            *)
(***************************************************************************)

LEMMA InitInv == Init => IInv
<1> SUFFICES ASSUME Init, NEW i \in Instances PROVE StepInv(i)
  BY InitTypes DEF IInv
<1>1. /\ pc[i] = "idle" /\ verdict[i] = "none" /\ unit[i] = NoUnit
      /\ run[i] = NoRun
  BY DEF Init
<1> QED BY <1>1 DEF StepInv, TouchesItsOwn, LoadedSoFar, InstalledSoFar,
             ServesSoFar, DownSoFar, VerdictIsFinal, NoRun, NoUnit, DeploySteps

LEMMA OwnStepKeepsInv ==
  ASSUME IInv, NEW i \in Instances,
         \/ RunStep(i) \/ FaultStep(i) \/ Operator(i)
         \/ CreateContainer(i) \/ SystemdRestarts(i)
  PROVE  StepInv(i)'
<1>1. CASE RunStep(i)
  <2>1. DaemonReload(i) => pc[i] \in {"reload", "unload"}
    BY DEF DaemonReload, Goto
  <2> QED BY <1>1, <2>1, LoadKeepsInv, InstallKeepsInv, StartKeepsInv,
             TeardownKeepsInv, EndKeepsInv DEF RunStep
<1>2. CASE FaultStep(i)
  BY <1>2, StartKeepsInv, TeardownKeepsInv, EndKeepsInv, ServiceStepsKeepInv
     DEF FaultStep
<1>3. CASE Operator(i)
  <2>1. ASSUME NEW sp \in Specs, EditSpec(i, sp) PROVE StepInv(i)'
    BY <2>1, NothingChanges DEF EditSpec, IInv
  <2> QED BY <1>3, <2>1, BeginKeepsInv, ServiceStepsKeepInv DEF Operator
<1>4. CASE CreateContainer(i) \/ SystemdRestarts(i)
  BY <1>4, ServiceStepsKeepInv
<1> QED BY <1>1, <1>2, <1>3, <1>4

LEMMA RebootKeepsInv ==
  ASSUME IInv, Reboot, NEW i \in Instances
  PROVE  StepInv(i)'
<1>0. TypeOK /\ StepInv(i)
  BY DEF IInv
<1>1. /\ pc'[i] = "idle" /\ run'[i] = NoRun /\ unit' = unit
      /\ loaded'[i] = unit[i] /\ secrets' = secrets
      /\ unit[i] = NoUnit => svc'[i] = Down
      /\ verdict'[i] \in {verdict[i], "failed"}
  BY <1>0 DEF Reboot, TypeOK
<1>2. TouchesItsOwn(i)'
  BY <1>0, <1>1 DEF StepInv, TouchesItsOwn, NoRun
<1>3. /\ LoadedSoFar(i)' /\ InstalledSoFar(i)' /\ ServesSoFar(i)'
      /\ DownSoFar(i)' /\ VerdictIsFinal(i)'
  BY <1>1 DEF LoadedSoFar, InstalledSoFar, ServesSoFar, DownSoFar,
              VerdictIsFinal, DeploySteps
<1>4. (verdict[i] = "deployed" => UnitIsWhole(i))'
  BY <1>0, <1>1 DEF StepInv, UnitIsWhole
<1>5. (verdict[i] = "removed" => IsDown(i))'
  BY <1>0, <1>1 DEF StepInv, IsDown, Down
<1> QED BY <1>2, <1>3, <1>4, <1>5 DEF StepInv

LEMMA NextKeepsInv ==
  ASSUME NamesDistinct, IInv, [Next]_vars
  PROVE  IInv'
<1>1. TypeOK'
  BY NextTypes DEF IInv
<1>2. ASSUME NEW i \in Instances PROVE StepInv(i)'
  <2>1. CASE UNCHANGED vars
    BY <2>1, NothingChanges DEF vars, IInv
  <2>2. CASE Reboot
    BY <2>2, RebootKeepsInv
  <2>3. ASSUME NEW j \in Instances,
               \/ RunStep(j) \/ FaultStep(j) \/ Operator(j)
               \/ CreateContainer(j) \/ SystemdRestarts(j)
        PROVE  StepInv(i)'
    BY <2>3, OwnStepKeepsInv, OthersKeepInv
  <2> QED BY <2>1, <2>2, <2>3 DEF Next
<1> QED BY <1>1, <1>2 DEF IInv

LEMMA Invariance ==
  ASSUME NamesDistinct
  PROVE  Spec => []IInv
<1>1. Init => IInv
  BY InitInv
<1>2. IInv /\ [Next]_vars => IInv'
  BY NextKeepsInv
<1> QED BY <1>1, <1>2, PTL DEF Spec

\* What ends a run with a good verdict is its own last step.
LEMMA EndsByItself ==
  ASSUME IInv, [Next]_vars, NEW i \in Instances, NEW v \in {"deployed", "removed"}, Ends(i, v)
  PROVE  IF v = "deployed" THEN ReportDeploy(i) ELSE PurgeSecrets(i)
<1>0. TypeOK /\ StepInv(i)
  BY DEF IInv
<1>1. pc[i] # "idle" /\ pc'[i] = "idle" /\ verdict'[i] = v
  BY DEF Ends
<1>2. verdict[i] \notin {"deployed", "removed"}
  BY <1>0, <1>1 DEF StepInv, VerdictIsFinal
<1>3. ~UNCHANGED vars /\ ~Reboot
  BY <1>0, <1>1, <1>2 DEF vars, Reboot, TypeOK
<1>4. PICK j \in Instances :
        \/ RunStep(j) \/ FaultStep(j) \/ Operator(j)
        \/ CreateContainer(j) \/ SystemdRestarts(j)
  BY <1>3 DEF Next
<1>5. j = i
  BY <1>0, <1>1, <1>4, OthersLeaveRunAlone
<1>6. CASE RunStep(i)
  BY <1>0, <1>1, <1>2, <1>6
     DEF RunStep, ClearSecret, LoadSecret, DropStale, WriteUnit, DaemonReload,
         IsActive, IssueVerb, ReportDeploy, StopService, RemoveUnitFile,
         PurgeSecrets, Goto, Finish, TypeOK
<1>7. CASE FaultStep(i)
  BY <1>0, <1>1, <1>2, <1>7
     DEF FaultStep, IsActiveFails, TeardownFails, RunEnds, DeleteFailsPartly,
         WriteIsTorn, ContainerDies, Goto, Finish, TypeOK
<1>8. CASE Operator(i) \/ CreateContainer(i) \/ SystemdRestarts(i)
  BY <1>0, <1>1, <1>2, <1>8
     DEF Operator, BeginDeploy, BeginRemove, LifecycleStart, LifecycleRestart,
         LifecycleStop, EditSpec, CreateContainer, SystemdRestarts, Goto,
         TypeOK
<1> QED BY <1>4, <1>5, <1>6, <1>7, <1>8

\* After a deploy that reported ok the installed unit is whole, whatever
\* failed, died, rebooted or was deployed beside it since: the secrets are
\* loaded before the unit is written and nobody else touches them.
THEOREM DeployedWhole ==
  ASSUME NamesDistinct
  PROVE  Spec => []DeployedUnitIsWhole
<1>1. IInv => DeployedUnitIsWhole
  BY DEF IInv, StepInv, DeployedUnitIsWhole
<1> QED BY <1>1, Invariance, PTL

\* After a remove that reported ok the instance stays down: only a teardown
\* that met no error reports ok, and each of its steps is final.
THEOREM RemovedDown ==
  ASSUME NamesDistinct
  PROVE  Spec => []RemovedStaysDown
<1>1. IInv => RemovedStaysDown
  BY DEF IInv, StepInv, RemovedStaysDown
<1> QED BY <1>1, Invariance, PTL

\* A deploy that reports ok, and whose probe was right, has brought up a
\* container of its own unit holding its own secrets.
THEOREM DeployServes ==
  ASSUME NamesDistinct
  PROVE  Spec => DeployServesPlan
<1> DEFINE Good == \A i \in Instances :
      Ends(i, "deployed") /\ ~run[i].misread => Serves(i, run[i].plan)
<1>1. ASSUME IInv, [Next]_vars, NEW i \in Instances, Ends(i, "deployed")
      PROVE  pc[i] = "wait"
  BY <1>1, EndsByItself DEF ReportDeploy
<1>2. IInv /\ [Next]_vars => [Good]_vars
  BY <1>1 DEF IInv, StepInv, ServesSoFar
<1> HIDE DEF Good
<1>3. Spec => [][Good]_vars
  BY <1>2, Invariance, PTL DEF Spec
<1> QED BY <1>3 DEF DeployServesPlan, Good

\* No run touches the secrets of another instance.
THEOREM OthersKeep ==
  ASSUME NamesDistinct
  PROVE  Spec => OthersKeepSecrets
<1> DEFINE Good == \A i \in Instances : pc[i] \notin {"load", "purge"} =>
                     \A n \in Owned(i) : secrets'[n] = secrets[n]
<1>1. ASSUME IInv, [Next]_vars, NEW i \in Instances,
             pc[i] \notin {"load", "purge"}, NEW n \in Owned(i)
      PROVE  secrets'[n] = secrets[n]
  <2>1. CASE UNCHANGED vars \/ Reboot
    BY <2>1 DEF vars, Reboot
  <2>2. ASSUME NEW j \in Instances,
               \/ RunStep(j) \/ FaultStep(j) \/ Operator(j)
               \/ CreateContainer(j) \/ SystemdRestarts(j)
        PROVE  secrets'[n] = secrets[n]
    <3>1. CASE j # i
      BY <1>1, <2>2, <3>1, OwnSecretsOnly, OwnedAreNames DEF NamesDistinct
    <3>2. CASE j = i
      BY <1>1, <2>2, <3>2
         DEF RunStep, FaultStep, Operator, ClearSecret, LoadSecret, DropStale,
             PurgeSecrets, DeleteFailsPartly, WriteUnit, DaemonReload, IsActive,
             IssueVerb, ReportDeploy, StopService, RemoveUnitFile,
             IsActiveFails, TeardownFails, RunEnds, WriteIsTorn, ContainerDies,
             BeginDeploy, BeginRemove, LifecycleStart, LifecycleRestart,
             LifecycleStop, EditSpec, CreateContainer, SystemdRestarts, Goto,
             Without
    <3> QED BY <3>1, <3>2
  <2> QED BY <1>1, <2>1, <2>2 DEF Next
<1>2. IInv /\ [Next]_vars => [Good]_vars
  BY <1>1
<1> HIDE DEF Good
<1>3. Spec => [][Good]_vars
  BY <1>2, Invariance, PTL DEF Spec
<1> QED BY <1>3 DEF OthersKeepSecrets, Good

(***************************************************************************)
(* No file secret is left behind                                           *)
(***************************************************************************)

\* A store's secret carries the instance's store prefix: reading a unit back
\* finds every store secret it mounts, and nothing but stores is longer than it.
LEMMA StoresHavePrefix ==
  ASSUME NEW i \in Instances, NEW s \in Stores, NEW u,
         PodmanStoreSecretName(i, s) \in u.mounts
  PROVE  PodmanStoreSecretName(i, s) \in PodmanUnitStoreSecrets(u, i)
<1> DEFINE W == STRING \cup {"tls"}
           n == PodmanStoreSecretName(i, s)
           prefix == PodmanStoreSecretName(i, <<>>)
<1>1. i \in Seq(W) /\ s \in Seq(W) /\ s # <<>> /\ StorePrefix \in Seq(W) /\ Len(StorePrefix) = 1
  BY NamesAssumption DEF StorePrefix
<1> HIDE DEF W
<1>2. /\ prefix \in Seq(W) /\ Len(prefix) = Len(i) + 1
      /\ n \in Seq(W) /\ Len(n) = Len(i) + 1 + Len(s)
  <2>1. ASSUME NEW t \in Seq(W)
        PROVE  /\ i \o (StorePrefix \o t) \in Seq(W)
               /\ Len(i \o (StorePrefix \o t)) = Len(i) + 1 + Len(t)
    <3>1. StorePrefix \o t \in Seq(W) /\ Len(StorePrefix \o t) = 1 + Len(t)
      BY <1>1, ConcatProperties, ZenonT(40)
    <3>2. /\ i \o (StorePrefix \o t) \in Seq(W)
          /\ Len(i \o (StorePrefix \o t)) = Len(i) + Len(StorePrefix \o t)
      BY <1>1, <3>1, ConcatProperties
    <3>3. Len(i) \in Nat /\ Len(t) \in Nat
      BY <1>1
    <3> QED BY <3>1, <3>2, <3>3
  <2>2. <<>> \in Seq(W) /\ Len(<<>>) = 0 /\ Len(i) \in Nat
    BY <1>1
  <2> QED BY <1>1, <2>1, <2>2 DEF PodmanStoreSecretName, PodmanSecretStoreName
<1>3. \A k \in 1 .. Len(prefix) : n[k] = prefix[k]
  BY <1>1, <1>2 DEF PodmanStoreSecretName, PodmanSecretStoreName
<1>4. Len(s) \in Nat /\ Len(s) # 0 /\ Len(i) \in Nat
  BY <1>1
<1> HIDE DEF n, prefix
<1>5. SubSeq(n, 1, Len(prefix)) = prefix
  <2>1. Len(prefix) \in 1 .. Len(n) /\ 1 \in 1 .. Len(n) + 1
    BY <1>2, <1>4
  <2>2. /\ SubSeq(n, 1, Len(prefix)) \in Seq(W) /\ Len(SubSeq(n, 1, Len(prefix))) = Len(prefix)
        /\ \A k \in 1 .. Len(prefix) : SubSeq(n, 1, Len(prefix))[k] = n[k]
    BY <1>2, <2>1
  <2> QED BY <1>2, <1>3, <2>2, SeqEqual
<1> QED BY <1>2, <1>4, <1>5 DEF PodmanUnitStoreSecrets, n, prefix

\* The file secrets of an instance that are there.
Present(i) == {n \in Owned(i) : secrets[n] # 0}

\* A run remembers every store secret its unit mounted, or could not read the
\* unit, and nothing it has not found or loaded is there; what it found and
\* dropped is gone.
LeakInv(i) ==
  /\ pc[i] # "idle" =>
       run[i].was \cap OwnedFiles(i) \subseteq PodmanFileSecretNames(i) \cup run[i].previous \cup run[i].unread
  /\ pc[i] = "load" =>
       Present(i) \subseteq run[i].unmounted \cup run[i].was \cup MountNames(i, run[i].plan)
  /\ pc[i] \in DeploySteps \ {"load"} =>
       Present(i) \cap OwnedFiles(i)
         \subseteq run[i].unmounted \cup run[i].unread \cup FileNames(i, run[i].plan)
  /\ pc[i] \in RemoveSteps => Present(i) \subseteq run[i].unmounted \cup run[i].was

LInv == IInv /\ \A i \in Instances : LeakInv(i)

\* A file secret is no credential's, a spec mounts the files it names, and what
\* a unit mounts of them is found by reading it back.
LEMMA FilesOfOwned ==
  ASSUME NEW i \in Instances
  PROVE  /\ OwnedFiles(i) \subseteq Owned(i)
         /\ \A c \in Creds : CredName(i, c) \notin OwnedFiles(i)
         /\ \A sp \in Specs : /\ MountNames(i, sp) \cap OwnedFiles(i) \subseteq FileNames(i, sp)
                              /\ FileNames(i, sp) \subseteq PodmanFileSecretNames(i) \cup StoreNames(i, sp)
         /\ \A u : u.mounts \cap OwnedFiles(i)
                     \subseteq PodmanFileSecretNames(i) \cup PodmanUnitStoreSecrets(u, i)
<1>1. OwnedFiles(i) \subseteq Owned(i)
  BY DEF OwnedFiles, Owned
<1>2. \A c \in Creds : CredName(i, c) \notin OwnedFiles(i)
  <2> TAKE c \in Creds
  <2> DEFINE u == [mounts |-> {CredName(i, c)}]
  <2>1. CredName(i, c) \notin PodmanFileSecretNames(i) \cup PodmanUnitStoreSecrets(u, i)
    BY CredsAreNoFiles
  <2>2. ASSUME NEW s \in Stores, CredName(i, c) = PodmanStoreSecretName(i, s) PROVE FALSE
    <3>1. PodmanStoreSecretName(i, s) \in u.mounts
      BY <2>2
    <3> HIDE DEF u
    <3> QED BY <2>1, <2>2, <3>1, StoresHavePrefix
  <2> QED BY <2>1, <2>2 DEF OwnedFiles
<1>3. ASSUME NEW sp \in Specs
      PROVE  /\ MountNames(i, sp) \cap OwnedFiles(i) \subseteq FileNames(i, sp)
             /\ FileNames(i, sp) \subseteq PodmanFileSecretNames(i) \cup StoreNames(i, sp)
  BY <1>2 DEF MountNames, CredNames, FileNames, PodmanFileSecretNames, Specs
<1>4. ASSUME NEW u
      PROVE  u.mounts \cap OwnedFiles(i)
               \subseteq PodmanFileSecretNames(i) \cup PodmanUnitStoreSecrets(u, i)
  BY StoresHavePrefix DEF OwnedFiles
<1> QED BY <1>1, <1>2, <1>3, <1>4

\* A step that adds no secret of i and leaves its run where it was, or in the
\* same part of a deploy or a remove, or ends it.
LEMMA LeakKept ==
  ASSUME NEW i \in Instances, LeakInv(i),
         \A n \in Owned(i) : secrets'[n] # 0 => secrets[n] # 0,
         \/ pc'[i] = "idle"
         \/ /\ run'[i].was = run[i].was /\ run'[i].previous = run[i].previous
            /\ run'[i].unmounted = run[i].unmounted /\ run'[i].plan = run[i].plan
            /\ run'[i].unread = run[i].unread
            /\ \/ pc'[i] = pc[i]
               \/ pc[i] \in DeploySteps \ {"load"} /\ pc'[i] \in DeploySteps \ {"load"}
               \/ pc[i] \in RemoveSteps /\ pc'[i] \in RemoveSteps
  PROVE  LeakInv(i)'
<1>1. Present(i)' \subseteq Present(i)
  BY DEF Present
<1> QED BY <1>1 DEF LeakInv, DeploySteps, RemoveSteps

\* No run has begun.
LEMMA InitLInv == Init => LInv
BY InitInv DEF LInv, Init, LeakInv, DeploySteps, RemoveSteps

\* A run begins by noting what is mounted and what is not.
LEMMA BeginLeak ==
  ASSUME IInv, NEW i \in Instances, NEW r \in BOOLEAN, BeginDeploy(i, r) \/ BeginRemove(i)
  PROVE  LeakInv(i)'
<1>0. TypeOK
  BY DEF IInv
<1> DEFINE Begun(b) == \/ run'[i] = NewRun(i, r, b)
                       \/ run'[i] = [NewRun(i, FALSE, b) EXCEPT !.todo = {}]
<1>3. PICK reads \in BOOLEAN :
        pc'[i] \in {"load", "stop"} /\ secrets' = secrets /\ Begun(reads)
  <2>1. CASE BeginDeploy(i, r)
    BY <1>0, <2>1 DEF BeginDeploy, Goto, TypeOK
  <2>2. CASE BeginRemove(i)
    BY <1>0, <2>2 DEF BeginRemove, Goto, TypeOK
  <2> QED BY <2>1, <2>2
<1>1. /\ run'[i].was = unit[i].mounts /\ run'[i].unmounted = Unmounted(i)
      /\ run'[i].previous \cup run'[i].unread = PodmanUnitStoreSecrets(unit[i], i)
  BY <1>3 DEF NewRun, previousStoreSecrets
<1> HIDE DEF Begun
<1>2. Present(i) \subseteq Unmounted(i) \cup unit[i].mounts
  BY DEF Present, Unmounted
<1> QED BY <1>1, <1>2, <1>3, FilesOfOwned DEF LeakInv, Present, DeploySteps, RemoveSteps

\* It loads only what its plan mounts.
LEMMA LoadLeak ==
  ASSUME IInv, NEW i \in Instances, LeakInv(i), NEW n \in Names,
         ClearSecret(i, n) \/ LoadSecret(i, n)
  PROVE  LeakInv(i)'
<1>0. TypeOK /\ StepInv(i) /\ run[i] \in Runs
  BY DEF IInv, TypeOK
<1>1. /\ pc[i] = "load" /\ pc'[i] = "load" /\ n \in MountNames(i, run[i].plan)
  BY <1>0 DEF ClearSecret, LoadSecret, Goto, TypeOK, NextToLoad, StepInv, TouchesItsOwn,
              LoadedSoFar, DeploySteps
<1>2. /\ run'[i].plan = run[i].plan /\ run'[i].previous = run[i].previous
      /\ run'[i].was = run[i].was /\ run'[i].unmounted = run[i].unmounted
      /\ run'[i].unread = run[i].unread
  BY <1>0 DEF ClearSecret, LoadSecret, TypeOK, Runs
<1>3. \A m \in Names \ {n} : secrets'[m] = secrets[m]
  BY <1>0 DEF ClearSecret, LoadSecret, Without, TypeOK
<1>4. Present(i)' \subseteq Present(i) \cup {n}
  BY <1>3, OwnedAreNames DEF Present
<1> QED BY <1>1, <1>2, <1>4 DEF LeakInv, DeploySteps, RemoveSteps

\* Of the files of the unit it found, those it does not mount go.
LEMMA DropLeak ==
  ASSUME IInv, NEW i \in Instances, LeakInv(i), DropStale(i)
  PROVE  LeakInv(i)'
<1>0. TypeOK /\ run[i] \in Runs
  BY DEF IInv, TypeOK
<1>1. pc[i] = "load" /\ pc'[i] = "write" /\ run' = run /\ secrets' = Without(Stale(i))
  BY <1>0 DEF DropStale, Goto, TypeOK
<1>2. ASSUME NEW n \in Present(i)' \cap OwnedFiles(i)
      PROVE  n \in run[i].unmounted \cup run[i].unread \cup FileNames(i, run[i].plan)
  <2>1. n \in Owned(i) /\ secrets'[n] # 0 /\ n \in Names
    BY OwnedAreNames DEF Present
  <2>2. n \in Present(i) /\ n \notin Stale(i)
    BY <1>1, <2>1 DEF Without, Present
  <2>3. CASE n \in run[i].was
    BY <1>1, <1>2, <2>2, <2>3 DEF LeakInv, Stale
  <2>4. CASE n \in MountNames(i, run[i].plan)
    BY <1>0, <1>2, <2>4, FilesOfOwned DEF Runs
  <2> QED BY <1>1, <2>2, <2>3, <2>4 DEF LeakInv
<1> QED BY <1>1, <1>2 DEF LeakInv, DeploySteps, RemoveSteps

\* No other step of the instance adds a secret.
LEMMA OwnStepLeak ==
  ASSUME IInv, NEW i \in Instances, LeakInv(i),
         \/ RunStep(i) \/ FaultStep(i) \/ Operator(i)
         \/ CreateContainer(i) \/ SystemdRestarts(i)
  PROVE  LeakInv(i)'
<1>0. TypeOK /\ run[i] \in Runs /\ Owned(i) \subseteq Names
  BY OwnedAreNames DEF IInv, TypeOK
<1> DEFINE Same == /\ run'[i].was = run[i].was /\ run'[i].previous = run[i].previous
                   /\ run'[i].unmounted = run[i].unmounted /\ run'[i].plan = run[i].plan
                   /\ run'[i].unread = run[i].unread
           Along == \/ pc'[i] = pc[i]
                    \/ pc[i] \in DeploySteps \ {"load"} /\ pc'[i] \in DeploySteps \ {"load"}
                    \/ pc[i] \in RemoveSteps /\ pc'[i] \in RemoveSteps
<1>1. CASE PurgeSecrets(i) \/ DeleteFailsPartly(i)
  BY <1>0, <1>1, LeakKept DEF PurgeSecrets, DeleteFailsPartly, Finish, Without, TypeOK
<1>2. CASE ReportDeploy(i) \/ RunEnds(i) \/ WriteIsTorn(i)
  BY <1>0, <1>2, LeakKept DEF ReportDeploy, RunEnds, WriteIsTorn, Finish, TypeOK
<1>3. CASE \/ WriteUnit(i) \/ DaemonReload(i) \/ IsActive(i) \/ IssueVerb(i) \/ IsActiveFails(i)
           \/ StopService(i) \/ RemoveUnitFile(i) \/ TeardownFails(i)
  <2>1. UNCHANGED secrets
    BY <1>3 DEF WriteUnit, DaemonReload, IsActive, IssueVerb, IsActiveFails, StopService,
                RemoveUnitFile, TeardownFails
  <2>2. Along
    BY <1>0, <1>3 DEF WriteUnit, DaemonReload, IsActive, IssueVerb, IsActiveFails, StopService,
                RemoveUnitFile, TeardownFails, Goto, TypeOK, DeploySteps, RemoveSteps
  <2>3. Same
    BY <1>0, <1>3 DEF WriteUnit, DaemonReload, IsActive, IssueVerb, IsActiveFails, StopService,
                RemoveUnitFile, TeardownFails, TypeOK, Runs
  <2> QED BY <2>1, <2>2, <2>3, LeakKept
<1>4. CASE \/ LifecycleStart(i) \/ LifecycleRestart(i) \/ LifecycleStop(i)
           \/ CreateContainer(i) \/ SystemdRestarts(i) \/ ContainerDies(i)
           \/ \E sp \in Specs : EditSpec(i, sp)
  <2>1. UNCHANGED <<secrets, pc>>
    BY <1>4 DEF LifecycleStart, LifecycleRestart, LifecycleStop, CreateContainer, SystemdRestarts,
                ContainerDies, EditSpec
  <2>2. Same
    BY <1>0, <1>4 DEF LifecycleStart, LifecycleRestart, LifecycleStop, CreateContainer,
                SystemdRestarts, ContainerDies, EditSpec, TypeOK, Runs
  <2> QED BY <2>1, <2>2, LeakKept
<1> QED BY <1>1, <1>2, <1>3, <1>4, BeginLeak, LoadLeak, DropLeak
        DEF RunStep, FaultStep, Operator

\* Nor does a step of another, as names are distinct.
LEMMA NextKeepsLInv ==
  ASSUME NamesDistinct, LInv, [Next]_vars
  PROVE  LInv'
<1>0. IInv /\ IInv' /\ TypeOK
  BY NextKeepsInv DEF LInv, IInv
<1>1. ASSUME NEW i \in Instances PROVE LeakInv(i)'
  <2>0. LeakInv(i)
    BY DEF LInv
  <2>1. CASE UNCHANGED vars
    BY <2>0, <2>1, LeakKept DEF vars
  <2>2. CASE Reboot
    BY <1>0, <2>0, <2>2, LeakKept DEF Reboot
  <2>3. ASSUME NEW j \in Instances, j # i,
               \/ RunStep(j) \/ FaultStep(j) \/ Operator(j)
               \/ CreateContainer(j) \/ SystemdRestarts(j)
        PROVE  LeakInv(i)'
    <3>1. pc'[i] = pc[i] /\ run'[i] = run[i]
      BY <1>0, <2>3, OthersLeaveRunAlone
    <3>2. \A n \in Owned(i) : secrets'[n] = secrets[n]
      BY <1>0, <2>3, OwnSecretsOnly, OwnedAreNames DEF NamesDistinct
    <3> QED BY <2>0, <3>1, <3>2, LeakKept
  <2> QED BY <1>0, <2>0, <2>1, <2>2, <2>3, OwnStepLeak DEF Next
<1> QED BY <1>0, <1>1 DEF LInv

LEMMA NoLeak ==
  ASSUME NamesDistinct
  PROVE  Spec => []LInv
<1>1. Init => LInv
  BY InitLInv
<1>2. LInv /\ [Next]_vars => LInv'
  BY NextKeepsLInv
<1> QED BY <1>1, <1>2, PTL DEF Spec

\* A deploy that reports ok leaves no file secret unmounted that was not so when
\* it began: what the unit it replaced mounted is read back and deleted, or, the
\* stores alone, could not be read (previousStoreSecrets, the stale secrets of
\* podmanDeploy).
THEOREM DeployKeepsNoFile ==
  ASSUME NamesDistinct
  PROVE  Spec => DeployLeaksNoFile
<1> DEFINE Good == \A i \in Instances : Ends(i, "deployed") =>
                     Unmounted(i)' \cap OwnedFiles(i) \subseteq run[i].unmounted \cup run[i].unread
<1>1. ASSUME LInv, [Next]_vars, NEW i \in Instances, Ends(i, "deployed")
      PROVE  Unmounted(i)' \cap OwnedFiles(i) \subseteq run[i].unmounted \cup run[i].unread
  <2>1. ReportDeploy(i)
    BY <1>1, EndsByItself DEF LInv
  <2>2. pc[i] = "wait" /\ UNCHANGED <<secrets, unit>>
    BY <2>1 DEF ReportDeploy
  <2>3. unit[i] = RenderQuadlet(i, run[i].plan)
    BY <1>1, <2>2 DEF LInv, IInv, StepInv, InstalledSoFar
  <2>4. FileNames(i, run[i].plan) \subseteq unit[i].mounts
    BY <2>3 DEF RenderQuadlet, MountNames
  <2> QED BY <1>1, <2>2, <2>4 DEF LInv, LeakInv, Present, Unmounted, DeploySteps
<1>2. LInv /\ [Next]_vars => [Good]_vars
  BY <1>1
<1> HIDE DEF Good
<1>3. Spec => [][Good]_vars
  BY <1>2, NoLeak, PTL DEF Spec
<1> QED BY <1>3 DEF DeployLeaksNoFile, Good

\* A remove that reports ok leaves none but one that neither the unit it found
\* nor the spec mounted, or a store of a unit it could not read (podmanRemove's
\* names).
THEOREM RemoveKeepsNoFile ==
  ASSUME NamesDistinct
  PROVE  Spec => RemoveLeaksNoFile
<1> DEFINE Good == \A i \in Instances : Ends(i, "removed") =>
                     Unmounted(i)' \cap OwnedFiles(i)
                       \subseteq (run[i].unmounted \cup run[i].unread) \ MountNames(i, run[i].plan)
<1>1. ASSUME LInv, [Next]_vars, NEW i \in Instances, Ends(i, "removed"),
             NEW n \in Unmounted(i)' \cap OwnedFiles(i)
      PROVE  n \in (run[i].unmounted \cup run[i].unread) \ MountNames(i, run[i].plan)
  <2>1. PurgeSecrets(i)
    BY <1>1, EndsByItself DEF LInv
  <2>2. pc[i] = "purge" /\ secrets' = Without(PurgeNames(i)) /\ run[i].plan \in Specs
    BY <1>1, <2>1 DEF PurgeSecrets, LInv, IInv, TypeOK, Runs
  <2>3. n \in Owned(i) /\ secrets'[n] # 0 /\ n \in Names
    BY <1>1, OwnedAreNames DEF Unmounted
  <2>4. n \in Present(i) /\ n \notin PurgeNames(i)
    BY <2>2, <2>3 DEF Without, Present
  <2>5. n \in run[i].was => n \in run[i].unread
    BY <1>1, <2>2, <2>4 DEF LInv, LeakInv, PurgeNames
  <2>6. n \notin MountNames(i, run[i].plan)
    BY <1>1, <2>2, <2>4, FilesOfOwned DEF PurgeNames
  <2> QED BY <1>1, <2>2, <2>4, <2>5, <2>6 DEF LInv, LeakInv, RemoveSteps
<1>2. LInv /\ [Next]_vars => [Good]_vars
  BY <1>1
<1> HIDE DEF Good
<1>3. Spec => [][Good]_vars
  BY <1>2, NoLeak, PTL DEF Spec
<1> QED BY <1>3 DEF RemoveLeaksNoFile, Good

(***************************************************************************)
(* When names are distinct                                                 *)
(***************************************************************************)

\* The words of i begin the words of j: j is i, or i followed by '-' and more.
Begins(i, j) == Len(i) <= Len(j) /\ \A k \in 1..Len(i) : i[k] = j[k]

\* It is enough that no instance's name is another's followed by '-' and more:
\* the comment of PodmanSecretStoreName, that the container name namespaces the
\* secrets, needs this much and nothing of the stores or the credentials.
THEOREM PrefixFreeIsDistinct ==
  ASSUME \A i, j \in Instances : i # j => ~Begins(i, j)
  PROVE  NamesDistinct
<1>1. ASSUME NEW i \in Instances, NEW n \in Owned(i)
      PROVE  \A k \in 1..Len(i) : n[k] = i[k]
  <2>0. i \in Seq(STRING)
    BY NamesAssumption
  <2>1. ASSUME NEW c \in Creds, n = CredName(i, c)
        PROVE  \A k \in 1..Len(i) : n[k] = i[k]
    BY <2>0, <2>1 DEF CredName, PodmanSecretStoreName
  <2>2. ASSUME n \in PodmanFileSecretNames(i)
        PROVE  \A k \in 1..Len(i) : n[k] = i[k]
    BY <2>0, <2>2 DEF PodmanFileSecretNames, PodmanSecretStoreName, AppYAML,
                      StatusScript, Logback
  <2>3. ASSUME NEW t \in Stores, n = PodmanStoreSecretName(i, t)
        PROVE  \A k \in 1..Len(i) : n[k] = i[k]
    <3> DEFINE W == STRING \cup {"tls"}
    <3>1. t \in Seq(W)
      BY NamesAssumption
    <3>2. StorePrefix \in Seq(W)
      BY DEF StorePrefix
    <3> HIDE DEF W
    <3> QED BY <2>0, <2>3, <3>1, <3>2
            DEF PodmanStoreSecretName, PodmanSecretStoreName
  <2> QED BY <2>1, <2>2, <2>3 DEF Owned
<1>2. ASSUME NEW i \in Instances, NEW j \in Instances, i # j,
             NEW n \in Owned(i), n \in Owned(j), Len(i) <= Len(j)
      PROVE  FALSE
  <2>1. i \in Seq(STRING) /\ j \in Seq(STRING)
    BY NamesAssumption
  <2>2. \A k \in 1..Len(i) : i[k] = j[k]
    BY <1>1, <1>2, <2>1
  <2> QED BY <1>2, <2>2 DEF Begins
<1>3. \A i, j \in Instances : Len(i) <= Len(j) \/ Len(j) <= Len(i)
  BY NamesAssumption
<1> QED BY <1>2, <1>3 DEF NamesDistinct
=============================================================================
