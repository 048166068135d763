# solmq-conn-util, verified

`solmq-conn-util` turns an `env.yaml` and a folder of workflow files into the
configuration of the Solace IBM MQ connector, and deploys, inspects and removes
the connector by running `kubectl`, `docker compose`, `podman` and `systemctl`.
This directory holds TLA+ models of the parts of it whose correctness depends on
the order in which things happen or on two places of the code agreeing, TLC runs
that check them on small instances, and TLAPS proofs about every component.

## 1. Inventory

| Component | Source | State it keeps or changes | Operations |
| --- | --- | --- | --- |
| command line | `cmd/solmq-conn-util/main.go`, `commands.go`, `abbreviation.go`, `completion.go`, `support.go` | none | parse flags, resolve the platform, dispatch, confirm a remove |
| podman instance | `main.go` (`actPodman`, `podmanDeploy`, `podmanRemove`), `lifecycle.go`, `internal/runner` | podman's secret store, the quadlet directory, systemd | deploy, remove, start, stop, restart |
| kubernetes release | `main.go` (`actKubernetes`), `namespace.go`, `secretprobe.go`, `internal/deploy`, `internal/runner` | the objects of a namespace, the namespace | deploy, remove, offer the namespace, start, stop, restart |
| docker project | `main.go` (`actDocker`), `internal/dockergen`, `internal/gen/stores.go` | the compose project | deploy, remove, start, stop, restart |
| operator's Secrets | `secretprobe.go` | none | probe the Secrets a deploy mounts but does not create |
| status | `status.go`, `instances.go`, `internal/statusreport`, `internal/statusscript` | the report; a status script in each container | list instances, collect, install a missing script, watch |
| progress | `progress.go` | one line of the terminal, a frame goroutine | step, stop, pause |
| logs, shell | `logs.go`, `shell.go` | none | pick an instance, stream its log, open a shell |
| jar downloads | `internal/libs` | the libs directory | resolve a Maven closure, verify, write atomically |
| generation | `internal/gen`, `render`, `logback`, `podmangen`, `dockergen`, `yamlwriter`, `storescript`, `statusscript` | none (pure) | render the artifacts from the spec |
| consolidation | `internal/consolidate`, `internal/spec`, `internal/scan` | none (pure) | merge the workflow files, name binders and bindings |
| validation | `internal/validate`, `internal/tls` | none (pure) | lint the spec |
| key stores | `internal/storebuild`, `internal/certfixture` | none (pure) | build PKCS12 and JKS files |

How they interact: the command line loads `env.yaml`, consolidation and
generation turn it into a plan of files and secrets, and a platform's
deploy or remove executes that plan as a *sequence of external commands* through
`runner.Runner`. Nothing in that sequence is a transaction and there is no lock:
podman's secret store, systemd, a namespace and the libs directory are shared
with other instances, other tools and earlier versions of the same spec. So the
hard behaviours are failures and kills between two commands, a restart policy or
a reboot acting in the middle, two instances on one account, decisions taken on
a state that has changed since it was read (the installed unit, the `is-active`
answer, the occupancy of a namespace), and what is left behind when the spec
changes between a deploy and the remove.

What makes each part correct:

- *podman*: a deploy that reports ok runs exactly its plan; the installed unit can
  always be started after it; nothing it stopped using is left in the secret store, as
  far as it could read what it used; a remove that reports ok leaves nothing that can
  come back; an instance never touches another's secrets; a failed run can be repaired
  by deploying again.
- *kubernetes*: a namespace in which the listing shows anyone else's object is not
  deleted (a service-account token is taken for the cluster's); a remove does not
  block on itself; what a deploy created can be found again.
- *progress*: no frame is ever drawn over the report or a prompt, no goroutine
  outlives `stop`, and `stop` returns.
- *downloads*: a jar under its final name is whole and verified; the closure
  terminates and takes the nearest version; ok means that every jar of it is
  there or on the image.
- *consolidation*: a side is bound to the broker it states with the credentials
  it states; a placeholder has its own position's credential; a refusal names
  what the operator can change.
- *validation*: what it lets through does not stop a verb later, and what it
  predicts of the build is what is built.
- *generation and docker*: what runs after a deploy that reports ok has read the
  stores the deploy read, starts the command that was inspected, and can be
  removed again whatever has become of the files it was made from.
- *status*: one instance that cannot be reached hides no other; a declined
  install touches nothing; a script is run only where it was found or installed;
  Ctrl-C ends a watch.

## 2. The modules

| Module | Models | Used by |
| --- | --- | --- |
| `PodmanDeploy` | deploy, remove and the lifecycle verbs on podman | `MCPodmanDeploy`, `PodmanDeployProofs` |
| `KubeRelease` | deploy and remove on kubernetes, and the namespace | `MCKubeRelease`, `KubeReleaseProofs` |
| `Progress` | the progress line of a status run | `MCProgress`, `ProgressProofs` |
| `Selections` | the elements of a list that a loop keeps (operator) | `ConfigSpec`, `LibsClosure`, `SelectionsProofs` |
| `LibsVersions`, `LibsClosure` | the order of versions, the closure of a seed (operators) | `Libs` |
| `LibsDirectory` | what a download promises of its directory (abstract specification) | `Libs`, by `INSTANCE` |
| `Libs` | `download jar`, run after run | `MCLibs`, `LibsProofs` |
| `ConfigSpec`, `ConfigChecks` | what the operator writes and the names derived from it; what `validate` refuses of it (operators) | `Consolidate` |
| `Consolidate` | `consolidate.Build` and the refusal of `gen.build` | `MCConsolidate`, `ConsolidateProofs` |
| `TargetChecks` | what `validate` refuses of the platform sections (operators) | `Targets` |
| `Targets` | validate, generate, deploy and remove over host and platform | `MCTargets`, `TargetsProofs` |
| `StatusRun` | a status run: listing, probe, question, install, run, watch | `MCStatusRun`, `StatusRunProofs` |

The modules meet at values, not at shared variables. `Consolidate` ends with the
stores a spec selects and whether anything needs the credentials mounted, and
`ValidatorPredicts` shows that `validate` foretells both; `Targets` begins with
them as its input. `Targets` has the platform call that ends a verb as one step,
which `KubeRelease` and `PodmanDeploy` take apart. `StatusRun` and `Progress` are
two views of one run: the second has the terminal, the first what is written on
it.

### PodmanDeploy

Shared state: `secrets` (podman's secret store, one per account), `unit` (the
quadlet file of each instance), `loaded` (what systemd read at its last
`daemon-reload`), `svc` (each service and the container it created last). State
of the tool: `pc` and `run` (the locals of `podmanDeploy` or `podmanRemove`),
`verdict` (what the last run reported). `spec` is what `env.yaml` and the
workflow files ask for.

| Code | Actions |
| --- | --- |
| `podmanDeploy` (`main.go`) | `BeginDeploy`, `ClearSecret`, `LoadSecret`, `DropStale`, `WriteUnit` |
| `runner.PodmanDeploy` | `DaemonReload`, `IsActive`, `IsActiveFails`, `IssueVerb`, `ReportDeploy` |
| `podmanRemove`, `runner.PodmanRemove` | `BeginRemove`, `StopService`, `RemoveUnitFile`, `DaemonReload`, `TeardownFails`, `PurgeSecrets` |
| `lifecycle.go` | `LifecycleStart`, `LifecycleRestart`, `LifecycleStop` |
| systemd and podman (external) | `CreateContainer`, `ContainerDies`, `SystemdRestarts` |
| a command fails, the tool is killed, the host reboots | `RunEnds`, `DeleteFailsPartly`, `WriteIsTorn`, `Reboot` |
| the operator's editor | `EditSpec` |

A secret's content is the version of the spec it was rendered from; a name is
the sequence of its `-`-separated words, so that joining with `-` is
concatenation and two ways of reading one name are visible (a store's name has a
word at least, `NamesAssumption`). A unit is the set of
secrets it mounts and its version. What may go wrong before anything is changed
(preflight, validation, an unset credential) is left out: such a run changes
nothing. A run reads the installed unit once, as it begins
(`previousStoreSecrets`); a read that fails costs a fault, is taken for a unit that
is not there, as in the code, and the run goes on. `run.unread` then holds the
stores it did not learn of.

### KubeRelease

Shared state: `phase`, `objs`, `dying`, `made` (per namespace: whether it
exists, what is in it, what carries a deletionTimestamp, what a deploy of this
release put there). `env` is `env.yaml` now; `pc`, `run`, `verdict` are the
run's.

| Code | Actions |
| --- | --- |
| `actKubernetes`, `deploy.Render` with `kubectl apply` | `BeginDeploy`, `ApplyNamespace`, `ApplyObject`, `ReportDeploy` |
| the question of `remove` (`main.go`) and the second reading of `env.yaml` | `BeginRemove`, `AnswerRemove`, `LoadEnv` |
| `Render` with `Teardown`, `kubectl delete` | `DeleteObject`, `DeleteWaited`, `TeardownEnds` |
| `removeNamespace`, `namespaceOccupants`, `isOurs`, `confirmNamespaceRemoval` (`namespace.go`) | `KeepWellKnown`, `ListingFails`, `KeepOccupied`, `OfferNamespace`, `AnswerNamespace`, `DeleteNamespace`, `NamespaceGone` |
| a document fails, the command fails, the tool is killed | `DocumentFails`, `RunEnds` |
| the cluster (external) | `Controller`, `CollectGarbage`, `TerminateObject`, `NamespaceTerminates` |
| other people, the editor | `OthersAct`, `EditEnv` |

What the cluster does is modelled from what the code relies on: that kubectl
deletes in file order and waits for each object (the comment at
`internal/deploy/deploy.go:136-141`), that a claim a Pod mounts is held until
the Pod is gone, that a namespace's deletion takes its content, and that a
Deployment's ReplicaSet and Pod name their direct owner. A PersistentVolume is no
object of the namespace: it can be applied while the namespace is going, and one
that is being deleted is still so when the namespace is. A Secret that holds the
token of a service account is told apart by its `type`: `IsClusterDefault` takes
every such Secret for the cluster's, whoever made it, as `isClusterDefault` does, so
that a namespace with somebody's token in it may be deleted. `Documents` is what
`Render` writes after the namespace, in its order, a part's documents only
`IfAsked`.

### Progress

`label`, `tail`, `width`, `quit`, `lock` are the fields of `progress` (a label is
its length); `closed` and `frames` are the quit channels and the goroutines that
wait on them; `shown` and `last` are the terminal's: the columns of the current
row a live line has written, and the length of the last one. `main` and `call`
say where the run is: between calls, in a method, or writing.

| Code | Actions |
| --- | --- |
| `step`, `stop`, `pause` | `Step`, `Pause`, `EndCollect`, `Return`, each by way of `Enter` |
| `quiesce` | `Quiesce`, `Close`, `Join` |
| the locked part of `step` and of `stop` | `TakeLock`, `BeginStep`, `FinishStop` |
| `spin` | `Exit`, `Tick`, `LockFrame`, `DrawFrame` |
| `status.go` | `BeginCollect`, `Ask`, `Report`, `Fail` |

Under `--watch` and without a terminal the progress is off and draws nothing;
those modes have no states.

### LibsVersions, LibsClosure, LibsDirectory, Libs

`CompareVersions` and `HighestStable` (`LibsVersions`) are `compareVersions` and
`highestStable` of `maven.go`; a version is the sequence of its segments.
`ParentChain`, `ResolveProperty`, `AcceptDependency` and `ResolveDependencyVersion`
(`LibsClosure`) are the helpers `resolveClosureAt` steps through, over a repository
of POMs and metadata of which any document may be lost; `NewDependencies` says which
of a POM's dependencies its loop takes, by their positions, and `Members` what they
add. `Selections!Only` keeps the elements at some positions, in order, here and in
the loops of the configuration.

| Code | Actions of `Libs` |
| --- | --- |
| `runDownload`, `Download`, the seed of `resolveClosureAt` | `Begin`, `MakeDir`, `ResolveSeed` |
| `resolveClosureAt`, one artifact at a time | `Expand` |
| the omission of what the image ships (`image.go`) | `Omit`, `OmitListUnreadable` |
| the loop of `Download`, `downloadWithVerification`, `downloadOne`: kept without `--force`, sidecar, redirects | `Stat`, `Sidecar`, `Redirect`, `Answer` |
| `writeAtomic`: copy and its checks, chmod, rename | `Copy`, `Chmod`, `Rename` |
| `reportDownload`, a kill | `Finish`, `Kill` |

`result` is both `artifacts` and `queue` of `resolveClosureAt`: what is queued is the
part from `next` on. `disk` has the files under their final names, each with what was
fetched into it and whether a digest was compared; `temps` counts temporary files
nobody removed. `LibsDirectory` is the promise: a file appears in one step and whole,
is replaced by another whole one or left alone, and ok means that everything wanted is
there.

### ConfigSpec, ConfigChecks, Consolidate

A side of a workflow is what it states: system, broker, user and password (each a
literal or a host variable), stores, alias, api properties and extra keys. A name
is the sequence of its words and separators, so that `Sanitize` and `StableToken`
fold as the code folds. `ConfigChecks` has one operator for each check of
`internal/validate` over the shared input, true when it reports no error.

| Code | Actions of `Consolidate` |
| --- | --- |
| `validate.Run` | `Validate` |
| `Build`: `register`, in the order of the files | `Register` |
| `assignBinderNames`, `secretRef` | `NameBinders`, `Claim` |
| the binder's blocks: tool, api, extra, defaults | `Wire` |
| the bindings, the leader-election session, the management users | `StartBinding`, `Bind`, `Elect`, `User` |
| `secretConflictError` in `build` (`gen.go`) | `Gate` |

What the files may say is typed by `Decoded` (`InputsAssumption`): credentials,
references to stores and properties are records, and sides have a system. It is what
they say once `spec.Expand` has put the host's variables into them. The override of the
status account's password is the one thing `validate` reads of the environment
itself: unset, or a value that can or cannot be read back out of `application.yml`
(`CheckStatusUser`). `Lay` is
what `mergeProp` and `overlayExtras` share, laying properties over a block that may
have them in another spelling; `Only` keeps the elements a condition selects, in
order. A reference to no store or session (`NoName`) is looked up as the code looks
it up, and finds nothing.

`claims` are the credentials of the position being written; `secrets` the mount
names; `refs` every placeholder with the credential of the position it stands at;
`conflicts` the pairs of positions that claimed one name.

### TargetChecks, Targets

`TargetChecks` gives the findings of `checkTargets` and the checks under it as
sets, in a context that says which platforms are checked, for which verb, and
whether `--allow-command` approves the one foreign binary. They are findings for an
environment, too: an override of the status password that cannot be read back is
refused on every verb (`StatusPasswordErrors`), and a field may be written with a
variable of the host, which `spec.Expand` puts in before anything is checked. Of such
a field the input says in which section it is and for which states of the variable
(unset, empty, set, or set to something odd) its check refuses what comes of it
(`ExpandErrors`). `Targets` runs verbs
over a host (`host`: variables, store files and their versions), the operator's
Secrets (`cluster`), the image's tag at the engine and in the registry (`image`)
and what each platform runs (`world`, with the environment its last deploy found).
A process keeps the environment it was started with, so variables change between
verbs; files, Secrets and tags change at any step. `run` is the verb with its stage
and what it has read. A store that is replaced never gets back bytes it had before.
`EverythingMounted` is an action property, about the step a deploy ends well with:
a container that was made without a store nobody could read is kept by a later
deploy for as long as the store cannot be read, as its digest is the same then
(`internal/gen/stores.go:304`), and once it can be read it lacks the store until a
deploy notices.

| Code | Actions of `Targets` |
| --- | --- |
| the `validate` verb, `gen.Validate` | `Validate` |
| the load and checks of a verb | `Begin` |
| `gen.Generate*`: documents, sizes, stores of kubernetes and podman, teardown | `Generate` |
| `ResolveCredentials`, `missingStoreFiles`, `ResolveDockerStores` | `ResolveCredentials`, `CheckHost`, `ReadStores` |
| `Preflight`, `probeOperatorSecrets` | `Preflight`, `ProbeOperatorSecrets` |
| `checkImageCommand`, with the pull | `InspectImage`, `PullImage` |
| compose up and down, apply and delete, secrets and unit | `CallPlatform` |
| the operator, the registry, the cluster (external) | `ExportVariable`, `ReplaceStore`, `ChangeSecret`, `MoveImage` |

### StatusRun

World: `live` (the instances there are) and `script` (what is at the script's
path in each: nothing, the script of this command line's settings or of others,
or a half of one). Run: `opt` (the command line), `names` (what was typed,
resolved), `pc`, `listed`, `todo`, `missing`, `present`, `do`, `app`, `error`,
`failed`, `prompted`, `pending`, `exit` are the fields of
`statusCollector` and the locals of its methods and of `watchStatus`.

| Code | Actions |
| --- | --- |
| `actStatus`, `resolveIndexes` (`instances.go`) | `Start`, `ResolveIndexes` |
| `collectKubernetes`; `engineNames` and `collectEngine` | `ListPods`, `EngineNames`, `Inspect` |
| the probe of `ContainerPath` in each instance | `ScriptInstalled` |
| `collectApplication`: what to do where it is missing, `confirmInstall` | `Decide`, `Answer`, `Unanswered`, `Decline` |
| the install, piped into the final path | `InstallScript`, `Installed` |
| `RunStatusScript` and its parsed report | `RunStatusScript`, `Ran` |
| `renderOnce`, `watchStatus` | `RenderOnce`, `Tick`, `Stop` |
| the signal, caught while a watch runs and else fatal | `Interrupt`, `Kill` |
| instances made anew, coming and going (external) | `Recreate`, `Come`, `Go` |

Every call of the engine may fail; a failure, like every change of the world, is
one of the `MaxEvents` events of a run.

## 3. What is checked

| Run | Shows |
| --- | --- |
| `podman_faults` | one instance with a credential, a store and the syslog document, every verb, one edit and two faults anywhere, a read of the installed unit among them: what a deploy or remove that reports ok has done, and that it stays so |
| `podman_shared` | instances `conn` and `conn-tls`, with a fault: neither ever touches the other's secrets |
| `podman_recovers` | whatever two faults do, deploying again ends in the current spec being served |
| `kube_release` | two namespaces, one the cluster's, two sets of optional parts, an edit, a fault, a Secret and a service-account token of somebody else's: what a deploy leaves, what a remove leaves, which namespace goes, that a remove does not wait for ever |
| `progress` | both modes, three steps, one question, a report: no frame outlives a stop, what is written starts on a blank row, the run ends |
| `libs` | two downloads over repositories with a diamond, a cycle, parents, a chain deeper than the cap, and lost documents; two faults or kills: the closure is nearest-wins and closed, the directory keeps only whole jars, ok means all is there, a run ends |
| `libs_candidate` | an image with a release candidate is taken to satisfy a later release (violation) |
| `config` | some four thousand inputs: names that fold, shared connections, stores in two roles, overlapping blocks, a session: what is let through is built so that each side reaches its broker as it states, and what is refused is refused for the reason given |
| `config_password` | a binder whose first side leaves the password out has none (violation) |
| `config_binder_names` | three connections give two binders one name (violation) |
| `targets` | 112 `env.yaml` on three platforms, fields written with variables among them; two verbs, of which one may be a validate; one change of host or platform at any moment: what validate foretells, what a deploy that ends well leaves running, and what a remove stops at |
| `status` | two instances, one called by a number, and two events: every listed instance is accounted for, nothing is written without consent, Ctrl-C ends a watch |

Bounds. *podman*: one or two instances (a secret has at most two claimants, and
the only act of one instance on another is `daemon-reload`, which treats all
others alike); two versions (old and new are all that a mixture can mix); two
faults (one to leave a mess, one while it is cleared up); one store and one
credential, as the steps treat the members of each class alike. *kubernetes*:
the parts `credentials` and `image-pull` are left out of `kube_release` because
the documents of one Secret are like those of another (`stores` is the one that
is special, and is in); `libs` is in because a claim is what makes an order of
deletion matter. The choices `{libs, stores}` and `{service}` make every part
that is there come and go with an edit. One edit suffices for each of the three
readings of `env.yaml` to differ from the one before it. Other people act in `prod`
only (`Shared`): whose objects are in a namespace of the cluster's own matters to no
step, as such a namespace is neither listed nor deleted. *progress*: a row of 9
columns, labels that always fit, that fit until the counter grows, and that
never fit; three steps, so that a step meets a finished and an unfinished
predecessor. *libs*: caps of 5 artifacts and 2 levels, met by a repository of 6
and a chain of 3; two runs, so that the second finds what the first left; two
faults, so that an error path fails too. *config*: two workflows, four sides,
which is where two sides meet two others; the inputs are families that vary one
concern each (`MCConsolidate`). *targets*: two stores (a made one and one that
exists), sizes that fit everywhere, only kubernetes and podman, only podman, and
nowhere; one change, at any step of any verb (a variable's between two verbs); two
verbs, so that a verb follows a clean validate, a deploy meets what an earlier one
left and a remove what became of the host. A field written with a variable is one
whose check refuses the variable unset, empty or odd, or only some of these, and its
variable begins in any state; the override of the status password begins unset and
the one change may set it, to a value that can or cannot be read back.
*status*: two instances, `1` and `b`, so that `1` is a name while it lives and an
index when it does not; two events, one that spoils the plan of a collection and
one that spoils the repair; collections under `--watch` are not bounded.

Fairness. `PodmanDeploy` assumes of the code only that a run takes its next step
and of the host that a container that is being created is created or fails; and
of the operator that they deploy again, which is what the property is about.
`KubeRelease` assumes that kubectl and the controllers go on; nothing is assumed
of the operator, of other people, or of faults. `Progress` assumes that
goroutines are scheduled; that a `select` which finds `quit` closed again and
again takes it in the end (strong fairness of `Exit`: Go chooses among the ready
cases uniformly at random, and a tick is ready once in 120 ms); and that a mutex
is not for ever withheld from one who waits for it (strong fairness of `Quiesce`
and `TakeLock`: `sync.Mutex` hands itself to a waiter that has starved for 1 ms).
Steps and questions are not assumed to happen. `Libs` assumes that a request
ends, answered or not (the client has a timeout), and that the process goes on
when it is not killed. `StatusRun` assumes that a call of the engine returns and
that a question is answered or its input ends; and strong fairness of `Stop`: a
`select` that finds the tick and the interrupt ready takes either at random, so a
watch whose collection outlasts its interval does not take the tick for ever.
With weak fairness alone `RunEnds` fails, as it should. `Consolidate` and
`Targets` have only safety properties.

Deadlock is checked in every run but three: in `targets` the verbs are counted, in
`status` a run that is over stops, and in `kube_release` a remove whose Deployment
could not be deleted waits for the claim its Pod mounts for as long as nobody ends
it (`RemoveEnds` is about a remove without such a failure).

Every property of a passing run has a mutant: a plausible bug, written as a
definition beside the one it replaces and marked `Mutant of` or `The slip of`,
under which TLC finds the property violated.

## 4. What is proved

For every value of the constants that their assumptions allow:

- `PodmanDeployProofs!TypeCorrect`, `DeployedWhole`, `RemovedDown`, `DeployServes`,
  `OthersKeep`, `DeployKeepsNoFile` and `RemoveKeepsNoFile`: all the safety
  properties of `PodmanDeploy`, for any instances, stores and credentials, any
  number of edits and of faults. All but the first have the hypothesis
  `NamesDistinct`: no two instances of the account can claim one secret name. It is
  needed, and not guaranteed by the code (see section 6). `PrefixFreeIsDistinct`
  shows it to hold whenever no instance name begins another at a `-`.
- `KubeReleaseProofs!KubeTypes`, `DeployedAsAsked`, `RemovedButDropped` and
  `NamespaceAsListed`: all the safety properties of `KubeRelease`: what a deploy
  that reports ok has put there, what a remove that reports ok has left, which
  namespace it deletes and with what in it, for any namespaces, parts and other
  people's objects (namesakes of the release's included), any number of edits and
  of faults.
- `ProgressProofs!LinesFit`, `FramesEnd`, `EraseIsWideEnough` and `BlankRows`: the
  four safety properties of `Progress`, for any labels, row width, counter and
  number of steps.
- `LibsProofs!LibsTypes`, `ResolvesNearest`, `ResolvesAll`, `NoFileLeft`,
  `KeepsPromise` and `OkLeaves`: all the safety properties of `Libs`: the closure
  takes the nearest version of each coordinate and, when every document was answered
  and no cap was reached, misses none; a temporary file outlives only a killed
  process; `Libs` implements `LibsDirectory`; and ok leaves every jar where it is
  needed; for any repositories, POMs, cycles, inputs, caps, and number of faults and
  runs. `OkLeaves` has the hypothesis `ImageIsReleased`: of the
  closure's jars the image ships no pre-release and no service pack. It is needed, as
  the run `libs_candidate` shows, and a fact about an image, not guaranteed by the
  code: the built-in lists name a few jars at versions such as `1.5.0-alpha` and
  `5.0.0-M4`, and a closure that has one of these is not covered.
- `ConsolidateProofs!ConfigTypes`, `ResolvesItsOwn`, `KeepsThePosture` and
  `SaysNothingTwice`, for any input, any number of files and any folding of names
  and keys; and `SidesReach`, `ConflictsFold` and `PredictsTheBuild` for every such
  input whose binders `assignBinderNames` tells apart (`BindersDiffer`). That
  hypothesis is about the state reached and is needed: the run
  `config_binder_names` shows three connections of which two get one binder name,
  and then a side's binding is another's too. It holds of every input of the run
  `config`.
- `TargetsProofs!TargetTypes`, `ServesRead`, `HandsOverAlways`, `Removable`,
  `MountsEverything` and `ValidateIsComplete`: all the properties of `Targets`, for
  any specs, stores, sizes, limits and number of changes and verbs.
- `StatusRunProofs!TypeCorrect`, `ConsentHolds` and `EveryReportAccounts`: the type
  invariant and both safety properties of `StatusRun`, for any instances, command
  lines and number of events.

Assumptions on constants. `NamesAssumption`: instance and store names are sequences
of words, a store's not empty, and a credential's stable name is never
`application.yml`: stable names match `[A-Za-z_][A-Za-z0-9_]*` (`stableToken` in
`consolidate/names.go`, and `gen.go`). `KubeAssumption`, `OthersAssumption`: the
cluster's own namespaces and the shared ones are among the namespaces, and what other
people have is not the release's, the controllers' or the object with the cluster's
certificate that every namespace has. `ProgressAssumption`: a frame and
the widest counter fit the row (2 and about a dozen of 79 columns).
`CapsAssumption`, `BoundsAssumption`: caps and bounds are numbers.
`CoordsAssumption`, `RepositoryAssumption` and `InputsAssumption` of `Libs`: an
artifact id is a string, a POM's dependencies are what the decoder returns, a set has
a seed and a URL names a file.
`LimitsAssumption`: a container's environment is smaller than an object of
kubernetes and that than a secret of podman (131072, 262144 and 511999 bytes).
`OrderAssumption`: the stores have an order, in which `gen` goes through them.
`VarsAssumption`: the override of the status password is one of the variables.
`InputsAssumption` of `Targets`: an input names known platforms, stores and
variables; of
`Consolidate`: an input is one the YAML decoder can return (`Decoded`).
`StatusAssumption`: no two instances have one rank, `--all` is not given with names
and `--install` not with the container view (`checkStatusFlags` refuses both).

The argument for podman. What a deploy that reports ok has achieved was achieved step
by step, and the others, the restarts and the faults in between must not have undone
it. `IInv` therefore says of every step of a run what is already true: what it loaded
is still in the store (`LoadedSoFar`), what it wrote is still on disk and in systemd
(`InstalledSoFar`), a running container it only starts is its own (`ServesSoFar`),
what a remove took down is down (`DownSoFar`); and `TouchesItsOwn` bounds the names a
run computes by the names its instance can own, which with `NamesDistinct` is why the
others cannot disturb it. Each lemma `...KeepInv` is one group of actions;
`OthersKeepInv` is every action of another instance at once, from the little of the
state it changes. For the files left behind, `LeakInv` adds to it the accounts of a
run: of the secrets that are there, each is one the run found unmounted, one its unit
mounted, or one it is going to mount, or a store of the unit it could not read; and
the second kind shrinks as `DropStale` and `PurgeSecrets` go on. `FilesOfOwned` is the
lemma about names it rests on: a unit read back yields the store secrets that were
written into it, and no credential's.

The argument for progress. `OneGoroutine` says that the goroutine alive is the
one of `p.quit` or the one `quiesce` is joining, and that from the join to the
return of the method there is neither; `LineShown` then knows that nobody draws
between an erase and what follows it, so the row is what the run last drew.

The arguments for kubernetes. Between the listing and the deletion of a namespace the
run holds a promise about objects it does not control (`Offered`): whatever the
listing showed was the release's by name, or a service-account token. It rests on
`OthersLive`: an object of other people's carries a deletionTimestamp only in a
namespace that is going, so in a live one the listing's excuse "it is being deleted"
never hid one of theirs; and a namespace that has gone is brought back only by a
deploy, which is another run. For what a deploy and a remove leave, `Applied` and
`Deleted` say that what is no longer in `run.todo` is done and has stayed so, as long
as the run met no error. `ConfigMapLive` is why a deploy cannot end well in a
namespace that is going: every release has its ConfigMap, which only a live namespace
takes, and after which a namespace can only begin to go by an action that is not the
run's and would take the ConfigMap with it. `Settles` is what all actions of the
cluster and of other people have in common: they make no object of the release and
take away only what was being deleted.

The argument for the directory. The refinement maps `disk`, the names of `items`
and `exit`. `Checked` says what is known of the temporary file at each step of
`writeAtomic`, so that what `Rename` publishes is whole; `Ended` that an item that
is done is on disk and stays there, which is what `ok` says.

The argument for the closure. `MembersAreFresh` says what one artifact's POM adds: new
coordinates, once each, each one it declares. So members stay distinct, and come in
layers (`Layered`): none is further from the seed than one level below the one being
expanded. `ExpandedIn` says that short of the caps all that the members before `next`
declare is in; at the end of the walk these are all members (`ResolvesAll`).
`SourcedIn` has for each member the first one that declares its coordinate, from which
it has its version and its distance (`ResolvesNearest`). `Planned` then says that what
is not on the image is among the items, through the omission and the download loop
alike, and `PlainOrder` that `compareVersions` orders a release against any version as
it should; its order is not transitive over all versions, which is why `OkLeaves` needs
its hypothesis.

`SelectionsProofs` has the facts about `Only` that the closure and the configuration
share: it keeps each chosen position once and in order, and is a function of what the
positions hold. They rest on counting the chosen positions before one.

The arguments for the configuration. `ConsolidateProofs` begins with what the
operators return: that names the tool derives are never empty and start as they must;
that `Lay` says a property once if the block it lays over does, keeps what it does not
override and ends with what the later block says; and what a block states of
certificate validation after it has been merged. It then goes through the phases:

- `Ordered` says where each phase stands and that the binders are the connections
  of the sides read so far, one for each `DedupKey` (`OnePerKey`): each gathered
  from sides that share it, none forgotten. `Wired` and `Bound` say that what is
  rendered is a function of these. `SidesReach` follows.
- a placeholder either waits in `claims` or is `Recorded`: its name is mounted, with
  its own credential unless a conflict is on record (`Inv`); only the phases that
  write placeholders have any waiting, and the gate renders nothing while there is
  a conflict. `ResolvesItsOwn` follows.
- `Refs` says what each placeholder stands for (a binder's user or password, a
  store's, a session's, a management user's) and `Kept` that what waits, is mounted
  or conflicts is such a placeholder. Two positions of one kind with one name are
  the same position when binders differ, so a conflict is between two names that
  fold: `ConflictsFold`. With `StoresUsed`, which has each store's uses so far,
  `PredictsTheBuild` follows.
- `AccBlocks` and `SessionLed` say that every block is the merge of what its sides
  state, in the order of the files. A posture that the validator accepted is the
  same for all sides of a connection, so the merge keeps it (`KeepsThePosture`);
  and no merge repeats a property (`SaysNothingTwice`).

The arguments for the targets. `Served` bounds what a container has loaded from
below by the digest it was made with: one that compose left alone had the digest
of the very versions the deploy read. `Inspected` says that past the inspection
the tag at the engine is the one inspected unless it moved. `Accepted` and
`Deployed` say that what is up was let through by the checks of a deploy with
the same commands allowed and in the same environment, which `Deployed` keeps for each
platform; a remove makes only checks that follow from those. Of the environment these
see no more than `SpecEnv`, the variables fields are written with and the override of
the status password (`SpecEnvCounts`), so that where it has not changed the spec is
not refused.
`Mounting` says what a deploy knows of the stores at each stage and what it can
know: the Secrets it probed are whole and the files in their place unless somebody
changed them since, which `raced` records, and a container that lacks a store has a
digest that is not the store's of now (`Outdated`). `Foretold` says that a clean
validate is still clean while the host is as it was; the findings of every stage of
a verb are then shown to be among those of `validate`, check by check, the sizes by
`Total` over the same stores.

The argument for the status run. `Shape` says of every place of a collection what
the loop has handled and what it has not; `Accounted` that until the scripts are
run each listed instance is undecided, present or in error, and from then on has
an answer or an error; `Counted` that `failed` agrees; `Consent` that a loop that
installs goes over the instances the question named; `Agreement` and `Quiet` that
while nothing intervened an agreed install has left no instance without the
script.

Only model-checked: the liveness properties `RedeployRecovers`, `RemoveEnds`,
`RunsEnd` and both `RunEnds`, which are outside what TLAPS can prove. Nor is it proved
what the recursive functions compute over their data, which would take an induction
over it (`HighestStable`, which folds over the published versions, and `ParentChain`):
the theorems about the closure hold for whatever these return, and the run `libs` has
them at work.

## 5. Not modelled, and the plan

Left out for good:

- rendering, parsing, the grammar of single fields, messages, help and
  completion: text, without a state to go wrong;
- key store formats (`storebuild`): bytes, a function of one input;
- logs and shell: one stream or one exec in the foreground;
- start, stop and restart on docker and kubernetes: one external command each;
- compose's own behaviour beyond what decides whether a container is recreated;
  the `Restart=` back-off and start limits of systemd; kubectl's own retries;
- transform blocks, which are passed through; generated UUIDs;
- a field written with a variable whose new value makes another legal spec (another
  name, another namespace): to the verbs that is an edit of `env.yaml`, which
  `PodmanDeploy` and `KubeRelease` have and `Targets` has not;
- env.yaml without a namespace, which takes kubectl's default and skips the offer
  to delete it;
- examples, the generator page and the build scripts.

Next, in this order:

1. `StatusRun` composed with `Progress` at the calls of `step`, `pause` and
   `stop`, with the reads that only add columns.
2. The cancel of `logs --follow` on a signal.
3. An instance that is absent or served from one whole version of its spec, as an
   abstract specification `PodmanDeploy` implements when no step fails.

## 6. Where the code and what is said of it differ

Shown by a run:

- `libs_candidate`: `compareVersionSegment` compares a number and a qualifier as
  text (`maven.go:595`), so the order of versions is cyclic, `1.0-rc1` is "at
  least" `1.0.1`, and a jar is omitted that the image does not have.
- `config_password`: a binder has the password of the side registered first
  (`consolidate.go:144`), and none if that side repeats the connection without it,
  which `spec.go:395-397` says it may.
- `config_binder_names`: `a-b`, `a.b` and `a-b-2` give two binders `a-b-2`
  (`names.go:112`), against the comment above it.

Seen while modelling, without a run of their own. On podman and kubernetes:

- Secret names of different instances may coincide: instance `conn` with a store
  called `status-script` and instance `conn-tls` called so both own
  `conn-tls-status-script`. The theorems have `NamesDistinct` as a hypothesis, and
  `podman_shared` an instance that satisfies it.
- `remove` on podman leaves a credential that the installed unit mounts and the
  spec has dropped; `RemoveLeaksNoFile` is about files for that reason.
- Any error of reading the installed unit is taken for a unit that is not there
  (`main.go:811-817`; the comment above it speaks of a first deploy only). The run
  goes on and may report ok, and the secrets of stores the spec has dropped stay: a
  deploy has replaced the only list of them, a remove has deleted it.
  `DeployLeaksNoFile` and `RemoveLeaksNoFile` excuse these stores (`run.unread`).
- A deploy that finds its unit activating reports ok for a container of the
  previous unit; `DeployServesPlan` excludes a probe that was misread.
- A namespace is deleted with objects the listing did not show: of another kind,
  or created while the question was open.
- A Secret of type `kubernetes.io/service-account-token` never keeps a namespace,
  whoever made it (`namespace.go:146-147`), against "a namespace containing anything
  this release does not own is never removed" (`namespace.go:30`);
  `NamespaceGoesAsListed` excepts it (`IsToken`).
- The release's own Pod, owned by a ReplicaSet whose name carries a hash, is
  reported as somebody else's.
- Objects an earlier deploy created and the spec no longer asks for survive
  `remove` on kubernetes, except the stores Secret.

Of the configuration:

- `consolidate.go:104-108` says that two credentials can only meet in one name
  through an `-env` variable; `gen.go:857-863` says that this is what can no longer
  happen, and that two names fold into one. `ConflictsAreFolds` shows the second.
- `validate` says that it reports everything the verbs would stop at, and does
  not see an `application.yml` larger than a podman secret, which only
  `ResolvePodmanFiles` measures.
- `stated` reads a block's properties "the way consolidate reads them"
  (`apiprops.go:37-39`) and takes the first occurrence of a key, `mergeProp` keeps
  the last (`consolidate.go`): a block that states `SSL_VALIDATE_CERTIFICATE` twice
  is validated as the one and rendered as the other, and so is a connection
  repeated elsewhere. It is the exception of `PostureKept`.
- `solace-defaults` is neither checked for keys the tool manages nor stripped of
  them; a key `mq-defaults` has in two spellings is written twice.
- Two sides of one MQ binder, one with `tls: false`, get TLS without a word; of two
  ciphers the last wins, with a warning.
- A management user listed twice with different passwords is reported as two names
  "differing only in punctuation".
- `remove` on docker resolves credentials before it looks at the action, so that an
  unset variable stops it (one exception of `DeployedIsRemovable`).
- `remove` validates the spec in the environment of the day: an override of the
  status password that cannot be read back (`validate.go:752-761`), or a variable of
  a field whose new state makes the field illegal (`gen.go:997-1002`), stops it with
  a spec error though the deploy went through (the other exception of
  `DeployedIsRemovable`).
- `loadEnv` (`main.go:1473`) hands the platform calls an `env.yaml` in which no
  variable is expanded, while the artifacts are rendered from the expanded one: a
  command, a namespace or a podman name written as `${...}` is one thing to the
  manifest or the unit and the text itself to the call. The models take these fields
  to be written without a variable.

Of status:

- A failed preflight is printed at the end of the live progress line, which then
  stays on the screen.
- Under `--watch` a "yes" is not remembered: an instance that loses the script
  later is reported as "the install prompt was declined" (`status.go:779-805`).
  `ConsentCovers` accepts this: nothing is written that was not agreed to.
- `--user` and `--management-port` have no effect where a script is already
  installed (`status.go:765-772` only asks whether a file is there).
- An install that is cut short leaves a half script, which every later probe finds
  and runs (the exception of `ReportAccounts`).
- Ctrl-C while the question of a watch is open waits for its answer, as the signal
  is by then the program's.

## 7. Running

In this directory: `tlc -config podman_faults.cfg MCPodmanDeploy.tla` checks a
run, with the module named in `PROJECT.json`; `tlapm PodmanDeployProofs.tla`
checks a module's proofs. The longest runs, `kube_release`, `podman_faults` and `libs`,
take about two minutes on two workers.
