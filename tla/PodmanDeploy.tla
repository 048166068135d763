---------------------------- MODULE PodmanDeploy ----------------------------
(***************************************************************************)
(* `deploy`, `remove` and `start`/`stop`/`restart` of solmq-conn-util on   *)
(* podman (cmd/solmq-conn-util/main.go, lifecycle.go; internal/gen;        *)
(* internal/runner), against the three stores of state they change:        *)
(*                                                                         *)
(*   - podman's secret store, ONE per account and shared by every instance *)
(*     deployed from it, keyed by name only;                               *)
(*   - the quadlet unit file of each instance, and the copy of it systemd  *)
(*     loaded at its last daemon-reload;                                   *)
(*   - the service of each instance: the container, which keeps the        *)
(*     secrets it was created with.                                        *)
(*                                                                         *)
(* None of it is a transaction.  A run is a sequence of external commands, *)
(* each of which may fail; the tool may be killed between any two of them, *)
(* the host may reboot, the container may die and be restarted by systemd  *)
(* in the middle, and the operator may edit the spec between runs.         *)
(*                                                                         *)
(* Abstracted: the content of a secret is the version of the spec it was   *)
(* rendered from; preflight, generation and resolution errors end a run    *)
(* before it changes anything, so a run begins after them; one run at a    *)
(* time per instance (runs of different instances interleave freely).      *)
(***************************************************************************)
EXTENDS Naturals, Sequences, FiniteSets

CONSTANTS
  Instances,    \* podman.name of each instance, as its '-'-separated words
  Stores,       \* names of tls.stores entries, as their '-'-separated words
  Creds,        \* stable names of credentials; they contain no '-'
  SyslogChoices,\* whether the spec may have, and lack, logging.syslog
  Verbs,        \* the verbs the operator uses
  MaxVersion,   \* bound on the edits of each spec
  MaxFaults     \* bound on failures, kills, crashes and reboots together

ASSUME BoundsAssumption ==
  /\ MaxVersion \in Nat \ {0} /\ MaxFaults \in Nat
  /\ SyslogChoices \subseteq BOOLEAN /\ SyslogChoices # {}

\* Names are sequences of words, and no credential is named like the document
\* secret that one word names: stable names have no '.' (stableName).
ASSUME NamesAssumption ==
  /\ Instances \subseteq Seq(STRING) /\ Stores \subseteq Seq(STRING) \ {<<>>}
  /\ "application.yml" \notin Creds

VARIABLES
  spec,      \* spec[i]: what env.yaml and the workflow files ask for now
  secrets,   \* secrets[n]: version held in podman's secret store, 0 if absent
  unit,      \* unit[i]: the quadlet file on disk
  loaded,    \* loaded[i]: the unit systemd knows since its last daemon-reload
  svc,       \* svc[i]: the service, and the container it created last
  pc,        \* pc[i]: the next step of the run on instance i
  run,       \* run[i]: the run's local variables
  verdict,   \* verdict[i]: how the last deploy or remove ended
  faults     \* faults so far

vars == <<spec, secrets, unit, loaded, svc, pc, run, verdict, faults>>

(***************************************************************************)
(* Names.  A name is the sequence of its '-'-separated words, so that      *)
(* joining with '-' is concatenation.                                      *)
(***************************************************************************)
PodmanSecretStoreName(i, stable) == i \o stable

AppYAML      == <<"application.yml">>
StatusScript == <<"status", "script">>
Logback      == <<"logback", "spring.xml">>
StorePrefix  == <<"tls">>

PodmanFileSecretNames(i) ==
  {PodmanSecretStoreName(i, s) : s \in {AppYAML, StatusScript, Logback}}

PodmanStoreSecretName(i, s) == PodmanSecretStoreName(i, StorePrefix \o s)

CredName(i, c) == PodmanSecretStoreName(i, <<c>>)

\* The secrets a spec mounts: a credential each, and the files.
CredNames(i, sp)  == {CredName(i, c) : c \in sp.creds}
StoreNames(i, sp) == {PodmanStoreSecretName(i, s) : s \in sp.stores}
FileNames(i, sp)  ==
  {PodmanSecretStoreName(i, AppYAML), PodmanSecretStoreName(i, StatusScript)}
    \cup (IF sp.syslog THEN {PodmanSecretStoreName(i, Logback)} ELSE {})
    \cup StoreNames(i, sp)
MountNames(i, sp) == CredNames(i, sp) \cup FileNames(i, sp)

\* Every secret instance i can ever create.
Owned(i) == {CredName(i, c) : c \in Creds}
              \cup PodmanFileSecretNames(i)
              \cup {PodmanStoreSecretName(i, s) : s \in Stores}
Names == UNION {Owned(i) : i \in Instances}

\* The file secrets among them: documents and stores.
OwnedFiles(i) == PodmanFileSecretNames(i)
                   \cup {PodmanStoreSecretName(i, s) : s \in Stores}

\* No two instances on the account can claim one secret name.
NamesDistinct ==
  \A i, j \in Instances : i # j => Owned(i) \cap Owned(j) = {}

(***************************************************************************)
(* Units, services and runs.                                               *)
(***************************************************************************)
Versions == 1..MaxVersion
Specs == [creds : SUBSET Creds, stores : SUBSET Stores,
          syslog : SyslogChoices, ver : Versions]

NoUnit == [mounts |-> {}, ver |-> 0]
Units  == [mounts : SUBSET Names, ver : 0..MaxVersion]

RenderQuadlet(i, sp) == [mounts |-> MountNames(i, sp), ver |-> sp.ver]

\* Mutant of PodmanUnitStoreSecrets: podman's store is scanned by prefix.
ScanStoreByPrefix(u, i) ==
  LET prefix == PodmanStoreSecretName(i, <<>>)
  IN {n \in Names : /\ secrets[n] # 0
                    /\ Len(n) > Len(prefix)
                    /\ SubSeq(n, 1, Len(prefix)) = prefix}

\* The store secrets the unit on disk mounts: its Secret= lines that carry the
\* instance's store prefix.
PodmanUnitStoreSecrets(u, i) ==
  LET prefix == PodmanStoreSecretName(i, <<>>)
  IN {n \in u.mounts : /\ Len(n) > Len(prefix)
                       /\ SubSeq(n, 1, Len(prefix)) = prefix}

States   == {"inactive", "activating", "active", "failed"}
Services == [state : States, unit : Units, files : [Names -> 0..MaxVersion]]

DeploySteps == {"load", "write", "reload", "probe", "verb", "wait"}
RemoveSteps == {"stop", "unlink", "unload", "purge"}
Steps       == {"idle"} \cup DeploySteps \cup RemoveSteps

\* The secrets of instance i that its installed unit does not mount.
Unmounted(i) == {n \in Owned(i) : secrets[n] # 0 /\ n \notin unit[i].mounts}

\* The locals of a run.  was, unmounted, unread and misread record what the run
\* found, for the properties only.
Runs == [plan : Specs, todo : SUBSET Names, cleared : SUBSET Names,
         previous : SUBSET Names, replace : BOOLEAN, rerr : BOOLEAN,
         verb : {"start", "restart"}, job : {"pending", "done", "failed"},
         was : SUBSET Names, unmounted : SUBSET Names, unread : SUBSET Names,
         misread : BOOLEAN]

\* Read once, as the run begins: the stores the installed unit mounts.  Any
\* error is taken for a unit that is not there, and the run goes on.
previousStoreSecrets(i, reads) ==
  IF reads THEN PodmanUnitStoreSecrets(unit[i], i) ELSE {}

NewRun(i, r, reads) ==
  [plan |-> spec[i], todo |-> MountNames(i, spec[i]), cleared |-> {},
   previous |-> previousStoreSecrets(i, reads), replace |-> r,
   rerr |-> FALSE, verb |-> "start", job |-> "pending",
   was |-> unit[i].mounts, unmounted |-> Unmounted(i),
   unread |-> IF reads THEN {} ELSE PodmanUnitStoreSecrets(unit[i], i),
   misread |-> FALSE]

\* The locals of a finished run mean nothing: one value for all of them.
NoRun ==
  [plan |-> CHOOSE sp \in Specs : TRUE,
   todo |-> {}, cleared |-> {}, previous |-> {}, replace |-> FALSE,
   rerr |-> FALSE, verb |-> "start", job |-> "pending",
   was |-> {}, unmounted |-> {}, unread |-> {}, misread |-> FALSE]

Goto(i, from, to) == pc[i] = from /\ pc' = [pc EXCEPT ![i] = to]

Finish(i, v) ==
  /\ pc' = [pc EXCEPT ![i] = "idle"]
  /\ run' = [run EXCEPT ![i] = NoRun]
  /\ verdict' = [verdict EXCEPT ![i] = v]

Fault == faults < MaxFaults /\ faults' = faults + 1

\* Whether the installed unit can be read: only a fault keeps one that is there
\* from it.
ReadsUnit(i, reads) ==
  IF reads THEN UNCHANGED faults ELSE unit[i] # NoUnit /\ Fault

Without(ns) == [n \in Names |-> IF n \in ns THEN 0 ELSE secrets[n]]

(***************************************************************************)
(* deploy                                                                  *)
(***************************************************************************)

\* Everything is generated and resolved, the installed unit's stores are read,
\* and `podman version` decides whether secrets are replaced in one step (an
\* old podman, or a version that cannot be read, means they are not).
BeginDeploy(i, r) ==
  /\ "deploy" \in Verbs
  /\ Goto(i, "idle", "load")
  /\ \E reads \in BOOLEAN :
       ReadsUnit(i, reads) /\ run' = [run EXCEPT ![i] = NewRun(i, r, reads)]
  /\ verdict' = [verdict EXCEPT ![i] = "none"]
  /\ UNCHANGED <<spec, secrets, unit, loaded, svc>>

\* The credentials are loaded before the files.
NextToLoad(i) ==
  LET creds == run[i].todo \cap CredNames(i, run[i].plan)
  IN IF creds # {} THEN creds ELSE run[i].todo

\* Below podman 4.7: `secret rm --ignore` first ...
ClearSecret(i, n) ==
  /\ Goto(i, "load", "load")
  /\ ~run[i].replace /\ run[i].cleared = {}
  /\ n \in NextToLoad(i)
  /\ secrets' = Without({n})
  /\ run' = [run EXCEPT ![i].cleared = {n}]
  /\ UNCHANGED <<spec, unit, loaded, svc, verdict, faults>>

\* Mutant of LoadSecret: a secret that exists is left as it is.
LoadIfAbsent(i, n) ==
  /\ Goto(i, "load", "load")
  /\ IF run[i].replace THEN n \in NextToLoad(i) ELSE n \in run[i].cleared
  /\ secrets' = [secrets EXCEPT ![n] = IF @ = 0 THEN run[i].plan.ver ELSE @]
  /\ run' = [run EXCEPT ![i].todo = @ \ {n}, ![i].cleared = {}]
  /\ UNCHANGED <<spec, unit, loaded, svc, verdict, faults>>

\* ... then `secret create`; with --replace it is one command.
LoadSecret(i, n) ==
  /\ Goto(i, "load", "load")
  /\ IF run[i].replace THEN n \in NextToLoad(i) ELSE n \in run[i].cleared
  /\ secrets' = [secrets EXCEPT ![n] = run[i].plan.ver]
  /\ run' = [run EXCEPT ![i].todo = @ \ {n}, ![i].cleared = {}]
  /\ UNCHANGED <<spec, unit, loaded, svc, verdict, faults>>

\* Mutant of Stale: what the plan mounts is not kept.
StaleIgnoresPlan(i) == PodmanFileSecretNames(i) \cup run[i].previous

\* Mutant of Stale: the stores of the installed unit are forgotten.
StaleForgetsStores(i) ==
  PodmanFileSecretNames(i) \ FileNames(i, run[i].plan)

\* The file secrets the instance may own and the new unit does not mount.
Stale(i) ==
  (PodmanFileSecretNames(i) \cup run[i].previous)
    \ FileNames(i, run[i].plan)

DropStale(i) ==
  /\ run[i].todo = {}
  /\ Goto(i, "load", "write")
  /\ secrets' = Without(Stale(i))
  /\ UNCHANGED <<spec, unit, loaded, svc, run, verdict, faults>>

WriteUnit(i) ==
  /\ Goto(i, "write", "reload")
  /\ unit' = [unit EXCEPT ![i] = RenderQuadlet(i, run[i].plan)]
  /\ UNCHANGED <<spec, secrets, loaded, svc, run, verdict, faults>>

\* daemon-reload reloads every unit of the account, not the one instance's.
DaemonReload(i) ==
  /\ \/ Goto(i, "reload", "probe")
     \/ Goto(i, "unload", "purge")
  /\ loaded' = unit
  /\ UNCHANGED <<spec, secrets, unit, svc, run, verdict, faults>>

\* Mutant of IsActive: a running unit is started, not restarted.
AlwaysStart(i) ==
  /\ Goto(i, "probe", "verb")
  /\ UNCHANGED <<spec, secrets, unit, loaded, svc, run, verdict, faults>>

\* Mutant of IsActive: another verb than systemctl's two.
ReloadVerb(i) ==
  /\ Goto(i, "probe", "verb")
  /\ run' = [run EXCEPT ![i].verb =
       IF svc[i].state = "active" THEN "reload" ELSE "start"]
  /\ UNCHANGED <<spec, secrets, unit, loaded, svc, verdict, faults>>

\* `systemctl is-active` succeeds for an active unit alone.
IsActive(i) ==
  /\ Goto(i, "probe", "verb")
  /\ run' = [run EXCEPT
       ![i].verb = IF svc[i].state = "active" THEN "restart" ELSE "start",
       ![i].misread = svc[i].state = "activating"]
  /\ UNCHANGED <<spec, secrets, unit, loaded, svc, verdict, faults>>

\* The probe itself failing is read as "not active".
IsActiveFails(i) ==
  /\ Fault
  /\ Goto(i, "probe", "verb")
  /\ run' = [run EXCEPT
       ![i].verb = "start",
       ![i].misread = svc[i].state \in {"active", "activating"}]
  /\ UNCHANGED <<spec, secrets, unit, loaded, svc, verdict>>

\* systemd starts the service: a new container from the unit it has loaded.
NoFiles == [n \in Names |-> 0]
Activating(i) ==
  [svc EXCEPT ![i] =
     [state |-> "activating", unit |-> loaded[i], files |-> NoFiles]]
\* A stopped service has no container.
Down == [state |-> "inactive", unit |-> NoUnit, files |-> NoFiles]

\* `systemctl start|restart`: start does nothing to an active unit and joins
\* the job of an activating one.
IssueVerb(i) ==
  /\ Goto(i, "verb", "wait")
  /\ IF run[i].verb = "start" /\ svc[i].state \in {"active", "activating"}
     THEN svc' = svc
     ELSE svc' = Activating(i)
  /\ run' = [run EXCEPT ![i].job =
       IF run[i].verb = "start" /\ svc[i].state = "active"
       THEN "done" ELSE "pending"]
  /\ UNCHANGED <<spec, secrets, unit, loaded, verdict, faults>>

\* systemctl answers when the job it waits for has ended.
ReportDeploy(i) ==
  /\ pc[i] = "wait" /\ run[i].job # "pending"
  /\ Finish(i, IF run[i].job = "done" THEN "deployed" ELSE "failed")
  /\ UNCHANGED <<spec, secrets, unit, loaded, svc, faults>>

(***************************************************************************)
(* remove                                                                  *)
(***************************************************************************)
BeginRemove(i) ==
  /\ "remove" \in Verbs
  /\ Goto(i, "idle", "stop")
  /\ \E reads \in BOOLEAN :
       /\ ReadsUnit(i, reads)
       /\ run' = [run EXCEPT ![i] = [NewRun(i, FALSE, reads) EXCEPT !.todo = {}]]
  /\ verdict' = [verdict EXCEPT ![i] = "none"]
  /\ UNCHANGED <<spec, secrets, unit, loaded, svc>>

\* systemd knows the service: its unit is loaded, or it is still up.
Known(i) == loaded[i] # NoUnit \/ svc[i].state \in {"active", "activating"}

StopService(i) ==
  /\ Known(i)
  /\ Goto(i, "stop", "unlink")
  /\ svc' = [svc EXCEPT ![i] = Down]
  /\ UNCHANGED <<spec, secrets, unit, loaded, run, verdict, faults>>

\* A unit that is already gone is not an error.
RemoveUnitFile(i) ==
  /\ Goto(i, "unlink", "unload")
  /\ unit' = [unit EXCEPT ![i] = NoUnit]
  /\ UNCHANGED <<spec, secrets, loaded, svc, run, verdict, faults>>

\* The first command of the teardown that fails ends it, and the run goes on
\* to the secrets all the same.  Stopping a service systemd does not know
\* fails without any fault.
TeardownFails(i) ==
  /\ \/ pc[i] = "stop" /\ ~Known(i) /\ UNCHANGED faults
     \/ pc[i] \in {"stop", "unlink", "unload"} /\ Fault
  /\ pc' = [pc EXCEPT ![i] = "purge"]
  /\ run' = [run EXCEPT ![i].rerr = TRUE]
  /\ UNCHANGED <<spec, secrets, unit, loaded, svc, verdict>>

\* Mutant of PurgeNames: the stores of the deployed unit are forgotten.
PurgeForgetsUnit(i) == CredNames(i, run[i].plan)
  \cup PodmanFileSecretNames(i) \cup StoreNames(i, run[i].plan)

\* The credentials of the spec, every document secret, the stores of the unit
\* and of the spec.
PurgeNames(i) == CredNames(i, run[i].plan) \cup PodmanFileSecretNames(i)
                   \cup run[i].previous \cup StoreNames(i, run[i].plan)

\* Mutant of PurgeSecrets: the result of the teardown is dropped.
PurgeReportsItself(i) ==
  /\ pc[i] = "purge"
  /\ secrets' = Without(PurgeNames(i))
  /\ Finish(i, "removed")
  /\ UNCHANGED <<spec, unit, loaded, svc, faults>>

PurgeSecrets(i) ==
  /\ pc[i] = "purge"
  /\ secrets' = Without(PurgeNames(i))
  /\ Finish(i, IF run[i].rerr THEN "failed" ELSE "removed")
  /\ UNCHANGED <<spec, unit, loaded, svc, faults>>

(***************************************************************************)
(* Faults of a run                                                         *)
(***************************************************************************)

\* A command of deploy fails without effect, which ends the run there, or the
\* tool is killed before it.
RunEnds(i) ==
  /\ pc[i] # "idle"
  /\ Fault
  /\ Finish(i, "failed")
  /\ UNCHANGED <<spec, secrets, unit, loaded, svc>>

\* `podman secret rm` of several names deletes some of them and fails.
DeleteFailsPartly(i) ==
  /\ Fault
  /\ \E gone \in SUBSET
          (CASE pc[i] = "load" /\ run[i].todo = {} -> Stale(i)
             [] pc[i] = "purge" -> PurgeNames(i)
             [] OTHER -> {}) :
       gone # {} /\ secrets' = Without(gone)
  /\ Finish(i, "failed")
  /\ UNCHANGED <<spec, unit, loaded, svc>>

\* The unit is not written atomically: a failed write leaves its first lines.
\* Its Secret= lines come in the order credentials, application.yml, stores,
\* status script, logback configuration.
TornMounts(i, sp) ==
  LET app == PodmanSecretStoreName(i, AppYAML)
      status == PodmanSecretStoreName(i, StatusScript)
  IN {some \in SUBSET MountNames(i, sp) :
       /\ app \in some => CredNames(i, sp) \subseteq some
       /\ some \cap StoreNames(i, sp) # {} => app \in some
       /\ status \in some => app \in some /\ StoreNames(i, sp) \subseteq some
       /\ PodmanSecretStoreName(i, Logback) \in some => status \in some}

WriteIsTorn(i) ==
  /\ pc[i] = "write"
  /\ Fault
  /\ \E some \in TornMounts(i, run[i].plan) :
       unit' = [unit EXCEPT ![i] =
                  [RenderQuadlet(i, run[i].plan) EXCEPT !.mounts = some]]
  /\ Finish(i, "failed")
  /\ UNCHANGED <<spec, secrets, loaded, svc>>

(***************************************************************************)
(* start, stop, restart: one systemctl command, on the unit as loaded      *)
(***************************************************************************)
LifecycleStart(i) ==
  /\ "start" \in Verbs /\ pc[i] = "idle"
  /\ svc[i].state \in {"inactive", "failed"} /\ loaded[i] # NoUnit
  /\ svc' = Activating(i)
  /\ UNCHANGED <<spec, secrets, unit, loaded, pc, run, verdict, faults>>

LifecycleRestart(i) ==
  /\ "restart" \in Verbs /\ pc[i] = "idle" /\ loaded[i] # NoUnit
  /\ svc' = Activating(i)
  /\ UNCHANGED <<spec, secrets, unit, loaded, pc, run, verdict, faults>>

LifecycleStop(i) ==
  /\ "stop" \in Verbs /\ pc[i] = "idle" /\ Known(i)
  /\ svc' = [svc EXCEPT ![i] = Down]
  /\ UNCHANGED <<spec, secrets, unit, loaded, pc, run, verdict, faults>>

(***************************************************************************)
(* systemd, podman and the operator's editor                               *)
(***************************************************************************)

\* podman creates the container: it needs every secret the unit mounts, and
\* copies them.  A run waiting for the job gets its answer.
CreateContainer(i) ==
  LET u == svc[i].unit
      ok == \A n \in u.mounts : secrets[n] # 0
  IN /\ svc[i].state = "activating"
     /\ svc' = [svc EXCEPT
          ![i].state = IF ok THEN "active" ELSE "failed",
          ![i].files = [n \in Names |-> IF ok /\ n \in u.mounts
                                       THEN secrets[n] ELSE 0]]
     /\ run' = IF pc[i] = "wait"
               THEN [run EXCEPT ![i].job = IF ok THEN "done" ELSE "failed"]
               ELSE run
     /\ UNCHANGED <<spec, secrets, unit, loaded, pc, verdict, faults>>

ContainerDies(i) ==
  /\ Fault
  /\ svc[i].state = "active"
  /\ svc' = [svc EXCEPT ![i].state = "failed"]
  /\ UNCHANGED <<spec, secrets, unit, loaded, pc, run, verdict>>

\* Restart=: systemd starts a service that failed, never one that was stopped.
SystemdRestarts(i) ==
  /\ svc[i].state = "failed" /\ loaded[i] # NoUnit
  /\ svc' = Activating(i)
  /\ UNCHANGED <<spec, secrets, unit, loaded, pc, run, verdict, faults>>

\* The host reboots: every run dies, systemd loads the units it finds and
\* starts them (WantedBy=default.target).
Reboot ==
  /\ Fault
  /\ loaded' = unit
  /\ svc' = [i \in Instances |->
       IF unit[i] = NoUnit THEN Down
       ELSE [state |-> "activating", unit |-> unit[i], files |-> NoFiles]]
  /\ pc' = [i \in Instances |-> "idle"]
  /\ run' = [i \in Instances |-> NoRun]
  /\ verdict' = [i \in Instances |->
       IF pc[i] = "idle" THEN verdict[i] ELSE "failed"]
  /\ UNCHANGED <<spec, secrets, unit>>

\* The operator edits the spec: every value may change, and what is mounted.
\* A run reads the spec once, when it begins, so an edit during it is an edit
\* after it.
EditSpec(i, sp) ==
  /\ pc[i] = "idle"
  /\ spec[i].ver < MaxVersion
  /\ sp.ver = spec[i].ver + 1
  /\ spec' = [spec EXCEPT ![i] = sp]
  /\ UNCHANGED <<secrets, unit, loaded, svc, pc, run, verdict, faults>>

-----------------------------------------------------------------------------
Init ==
  /\ spec \in [Instances -> {sp \in Specs : sp.ver = 1}]
  /\ secrets = [n \in Names |-> 0]
  /\ unit = [i \in Instances |-> NoUnit]
  /\ loaded = [i \in Instances |-> NoUnit]
  /\ svc = [i \in Instances |-> Down]
  /\ pc = [i \in Instances |-> "idle"]
  /\ run = [i \in Instances |-> NoRun]
  /\ verdict = [i \in Instances |-> "none"]
  /\ faults = 0

\* The steps a run takes when nothing goes wrong.
RunStep(i) ==
  \/ \E n \in Names : ClearSecret(i, n) \/ LoadSecret(i, n)
  \/ DropStale(i) \/ WriteUnit(i) \/ DaemonReload(i) \/ IsActive(i)
  \/ IssueVerb(i) \/ ReportDeploy(i)
  \/ StopService(i) \/ RemoveUnitFile(i) \/ PurgeSecrets(i)

FaultStep(i) ==
  \/ IsActiveFails(i) \/ TeardownFails(i) \/ RunEnds(i)
  \/ DeleteFailsPartly(i) \/ WriteIsTorn(i) \/ ContainerDies(i)

Operator(i) ==
  \/ \E r \in BOOLEAN : BeginDeploy(i, r)
  \/ BeginRemove(i)
  \/ LifecycleStart(i) \/ LifecycleRestart(i) \/ LifecycleStop(i)
  \/ \E sp \in Specs : EditSpec(i, sp)

Next ==
  \/ \E i \in Instances :
       \/ RunStep(i) \/ FaultStep(i) \/ Operator(i)
       \/ CreateContainer(i) \/ SystemdRestarts(i)
  \/ Reboot

Spec == Init /\ [][Next]_vars

(***************************************************************************)
(* Type invariant                                                          *)
(***************************************************************************)
\* Every variable keeps its type.
TypeOK ==
  /\ spec \in [Instances -> Specs]
  /\ secrets \in [Names -> 0..MaxVersion]
  /\ unit \in [Instances -> Units]
  /\ loaded \in [Instances -> Units]
  /\ svc \in [Instances -> Services]
  /\ pc \in [Instances -> Steps]
  /\ run \in [Instances -> Runs]
  /\ verdict \in [Instances -> {"none", "deployed", "removed", "failed"}]
  /\ faults \in 0..MaxFaults

(***************************************************************************)
(* What a deploy that reports success has done                             *)
(***************************************************************************)
Ends(i, v) == pc[i] # "idle" /\ pc'[i] = "idle" /\ verdict'[i] = v

\* The service runs the container this plan describes; one that died since and
\* is being restarted is created from the same unit and secrets.
Serves(i, sp) ==
  /\ svc[i].unit = RenderQuadlet(i, sp)
  /\ \A n \in MountNames(i, sp) :
       (IF svc[i].state = "activating" THEN secrets ELSE svc[i].files)[n] = sp.ver

\* A deploy that reports ok has brought up a container created from its own
\* unit and holding its own secrets, whatever ran, died, failed or was started
\* before -- provided the is-active probe told a running unit from a stopped
\* one (podmanDeploy, runner.PodmanDeploy).
DeployServesPlan ==
  [][\A i \in Instances :
       Ends(i, "deployed") /\ ~run[i].misread => Serves(i, run[i].plan)]_vars

UnitIsWhole(i) ==
  /\ unit[i] # NoUnit /\ loaded[i] = unit[i]
  /\ \A n \in unit[i].mounts : secrets[n] = unit[i].ver

\* After a deploy that reported ok, and until the next run, the installed unit
\* can be started, and every secret it mounts comes from the deploy that wrote
\* it: no mix of two deploys (the order of podmanDeploy's steps).
DeployedUnitIsWhole ==
  \A i \in Instances : verdict[i] = "deployed" => UnitIsWhole(i)

\* A deploy that reports ok leaves no file secret of its instance unmounted
\* that was not already unmounted when it began: the stores and documents the
\* spec stopped mounting are gone (podmanDeploy's stale secrets) -- but for the
\* stores of an installed unit it could not read, which previousStoreSecrets
\* takes for none.
DeployLeaksNoFile ==
  [][\A i \in Instances : Ends(i, "deployed") =>
       Unmounted(i)' \cap OwnedFiles(i)
         \subseteq run[i].unmounted \cup run[i].unread]_vars

(***************************************************************************)
(* What a remove that reports success has done                             *)
(***************************************************************************)

IsDown(i) ==
  unit[i] = NoUnit /\ loaded[i] = NoUnit /\ svc[i].state = "inactive"

\* After a remove that reported ok, and until the next run, the instance stays
\* down: no unit on disk or in systemd, and no service a crash, a restart
\* policy or a reboot could bring back (podmanRemove, runner.PodmanRemove).
RemovedStaysDown ==
  \A i \in Instances : verdict[i] = "removed" => IsDown(i)

\* A remove that reports ok leaves no file secret of its instance behind but
\* one that the spec did not mount when it began, and that the unit did not
\* mount either, or mounts as a store the run could not read there
\* (podmanRemove's names).
RemoveLeaksNoFile ==
  [][\A i \in Instances : Ends(i, "removed") =>
       Unmounted(i)' \cap OwnedFiles(i)
         \subseteq (run[i].unmounted \cup run[i].unread)
                     \ MountNames(i, run[i].plan)]_vars

(***************************************************************************)
(* Instances sharing the secret store                                      *)
(***************************************************************************)

\* The secrets of an instance change only while a run of that instance loads
\* or deletes secrets: no other instance's deploy or remove touches them
\* (PodmanSecretStoreName, PodmanUnitStoreSecrets).
OthersKeepSecrets ==
  [][\A i \in Instances : pc[i] \notin {"load", "purge"} =>
       \A n \in Owned(i) : secrets'[n] = secrets[n]]_vars

(***************************************************************************)
(* Why: what is true of instance i at each step of its run                 *)
(***************************************************************************)

\* All that a run of i reads to decide which secrets to touch is i's own.
TouchesItsOwn(i) ==
  /\ unit[i].mounts \subseteq Owned(i)
  /\ run[i].cleared \subseteq run[i].todo /\ run[i].todo \subseteq Owned(i)
  /\ run[i].previous \subseteq Owned(i) \ {CredName(i, c) : c \in Creds}

\* What a deploy has loaded stays loaded until it ends.
LoadedSoFar(i) == pc[i] \in DeploySteps =>
  /\ run[i].todo \subseteq MountNames(i, run[i].plan)
  /\ pc[i] # "load" => run[i].todo = {}
  /\ \A n \in MountNames(i, run[i].plan) \ run[i].todo :
       secrets[n] = run[i].plan.ver

\* What it wrote and reloaded stays so.
InstalledSoFar(i) ==
  /\ pc[i] \in {"reload", "probe", "verb", "wait"} =>
       unit[i] = RenderQuadlet(i, run[i].plan)
  /\ pc[i] \in {"probe", "verb", "wait"} => loaded[i] = unit[i]

\* A container it finds running when it only starts the service is its own.
ServesSoFar(i) == ~run[i].misread =>
  /\ pc[i] = "verb" => \/ run[i].verb = "restart"
                       \/ svc[i].state \in {"inactive", "failed"}
                       \/ Serves(i, run[i].plan)
  /\ pc[i] = "wait" => Serves(i, run[i].plan)

\* What a remove that met no error has taken down stays down.
DownSoFar(i) ==
  /\ pc[i] \in {"unlink", "unload", "purge"} /\ ~run[i].rerr =>
       svc[i].state = "inactive"
  /\ pc[i] \in {"unload", "purge"} /\ ~run[i].rerr => unit[i] = NoUnit
  /\ pc[i] = "purge" /\ ~run[i].rerr => loaded[i] = NoUnit

\* The verdict is of a run that is over.
VerdictIsFinal(i) ==
  verdict[i] \in {"deployed", "removed"} => pc[i] = "idle"

StepInv(i) ==
  /\ TouchesItsOwn(i) /\ LoadedSoFar(i) /\ InstalledSoFar(i) /\ ServesSoFar(i)
  /\ DownSoFar(i) /\ VerdictIsFinal(i)
  /\ verdict[i] = "deployed" => UnitIsWhole(i)
  /\ verdict[i] = "removed" => IsDown(i)

\* The inductive invariant: the steps' part and the verdicts'.
IInv == TypeOK /\ \A i \in Instances : StepInv(i)

(***************************************************************************)
(* Recovery                                                                *)
(***************************************************************************)

\* The host and the tool get on with what they were asked, and the operator
\* keeps deploying: the only assumption about the operator, and one the code
\* cannot make.
FairSpec ==
  /\ Spec
  /\ \A i \in Instances :
       /\ WF_vars(RunStep(i)) /\ WF_vars(CreateContainer(i))
       /\ WF_vars(\E r \in BOOLEAN : BeginDeploy(i, r))

\* No fault at any step leaves an instance where deploying again does not bring
\* up the current spec.
RedeployRecovers ==
  \A i \in Instances :
    []<>(/\ verdict[i] = "deployed" /\ svc[i].state = "active"
         /\ Serves(i, spec[i]))
=============================================================================
