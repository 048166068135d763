------------------------------ MODULE Targets -------------------------------
(***************************************************************************)
(* One env.yaml, three platforms: the verbs validate, generate, deploy and *)
(* remove (cmd/solmq-conn-util/main.go) over what they read of their host  *)
(* -- environment variables, store files -- and of the platform: Secrets   *)
(* the operator manages, what the image's tag names.  A verb is a sequence *)
(* of steps, and between any two of them host and platform may change.     *)
(*                                                                         *)
(* The platform call that ends a verb is one step here: KubeRelease has    *)
(* the apply and the teardown of a release, PodmanDeploy the secrets and   *)
(* the unit.  A version stands for the bytes of a store; 0 is none.        *)
(***************************************************************************)
EXTENDS TargetChecks, SequencesExt

CONSTANTS Inputs,                     \* the specs an operator may write
          StoreOrder,                 \* names of stores, in order of first use
          Vars,                       \* the environment variables credentials and fields name
          VarStates,                  \* what each variable may be found to be
          FileStates,                 \* what a store's file, or its sources, may be found to be
          EnvMax, KubeMax, PodmanMax, \* dockerEnvSizeError, kubeApplyMax, podmanSecretMax
          MaxChanges, MaxRuns         \* bounds: changes of host and platform, verbs run

ASSUME LimitsAssumption ==
    {EnvMax, KubeMax, PodmanMax} \subseteq Nat /\ EnvMax < KubeMax /\ KubeMax < PodmanMax
ASSUME BoundsAssumption == MaxChanges \in Nat /\ MaxRuns \in Nat
ASSUME OrderAssumption == StoreOrder \in Seq(STRING)
EnvStates == {"unset", "empty", "set", "odd"}
ASSUME VarsAssumption ==
    StatusUserPasswordEnvVar \in Vars /\ VarStates \in [Vars -> SUBSET EnvStates]
ASSUME InputsAssumption ==
    \A in \in Inputs : /\ in.sections \subseteq Platforms /\ DOMAIN in.stores \subseteq Range(StoreOrder)
                      /\ in.document \in Nat
                      /\ \A x \in in.expands : x.var \in Vars

VARIABLES input,   \* the spec, its platform sections and the stores it selects
          host,    \* env: of each variable; file: state and version of each store's source
          cluster, \* what each Secret of the operator holds
          image,   \* what the tag names: local, at the engine, and remote, in the registry
          run,     \* the verb, how far it is, what stopped it, what it has read
          clean,   \* the last validate found nothing, and the host has not changed since
          world,   \* what each platform runs
          count    \* changes and verbs so far

vars == <<input, host, cluster, image, run, clean, world, count>>

-----------------------------------------------------------------------------
(***************************************************************************)
(* Reading credentials and stores.  A finding is what a step stops for:    *)
(* Fine is none.                                                           *)
(***************************************************************************)
Fine == "fine"

\* The finding of a list of checks, made in order, each only if those before are fine.
First(findings) ==
    LET found == {i \in DOMAIN findings : findings[i] # Fine}
    IN  IF found = {} THEN Fine ELSE findings[CHOOSE i \in found : \A j \in found : i <= j]

Finds(condition, finding) == IF condition THEN finding ELSE Fine

Selected     == DOMAIN input.stores
\* The finding of f for each store of S, in order.
Each(S, f)   == [i \in DOMAIN StoreOrder |-> IF StoreOrder[i] \in S THEN f[StoreOrder[i]] ELSE Fine]

\* The host's value of a credential: a literal is one that is set, and no check
\* looks at what a password is made of.
Value(cred) == IF cred = "none" THEN "none"
               ELSE IF cred \in Vars /\ host.env[cred] # "odd" THEN host.env[cred] ELSE "set"

\* Mutant of Resolve: an unset variable is reported as the empty password.
ResolveEmpty(creds) == Finds(\E c \in creds : Value(c) = "unset", "empty")

\* ResolveCredentials stops at a variable that is not set.
Resolve(creds) == Finds(\E c \in creds : Value(c) = "unset", "variable")

\* Model.Secrets: the positions that write a placeholder, and their credentials.
Secrets     == {n \in Selected : input.stores[n].pass # "none"}
                   \cup (IF input.cred # "none" THEN {"connection"} ELSE {})
Credentials == {input.cred} \cup {input.stores[n].pass : n \in Selected}

Readable(f) == f.state \notin {"missing", "dir", "unreadable"}
Absent(f)   == f.state \in {"missing", "dir"}
Size(n)     == CASE host.file[n].state = "medium" -> 2
                 [] host.file[n].state = "large"  -> 9
                 [] OTHER -> 1

\* storePassword, then the sources, then what storebuild makes of them.
BuildStore(st, f, pw) ==
    IF pw = "unset" THEN "variable"
    ELSE Finds(\/ pw \in {"none", "empty"} \/ ~Readable(f) \/ f.state = "damaged"
               \/ st.kind = "jks" /\ f.state \in {"locked", "other role"}, "store")

\* An existing store that is not a PKCS12, or that its password does not open.
CheckExistingStore(f, pw) ==
    Finds(f.state = "damaged" \/ (f.state = "locked" /\ pw = "set"), "store")

ReadStore(n) ==
    LET st == input.stores[n]  f == host.file[n]  pw == Value(st.pass)
    IN  IF Created(st) THEN BuildStore(st, f, pw)
        ELSE IF Readable(f) THEN CheckExistingStore(f, pw) ELSE "store"

\* resolveStores: the stores kubernetes is not told to find in an operator's
\* Secret, and the size of the Secret that carries them.
Held == {n \in Selected : input.stores[n].held}
Own  == Selected \ Held
Total(sizes) == FoldFunction(+, 0, sizes)
KubeSizeError(S) == Total([n \in S |-> Size(n)]) > KubeMax

ResolveStores ==
    First(Each(Own, [n \in Own |-> ReadStore(n)]) \o <<Finds(KubeSizeError(Own), "store")>>)

\* ResolvePodmanFiles: the rendered document, then the stores.
ResolvePodmanFiles ==
    LET file == [n \in Selected |-> First(<<ReadStore(n), Finds(Size(n) > PodmanMax, "store")>>)]
    IN  First(<<Finds(input.document > PodmanMax, "document")>> \o Each(Selected, file))

\* ResolveDockerStores: created stores, then the existing ones that can be read.
MadeHere == {n \in Selected : Created(input.stores[n])}
Mounted  == {n \in Selected \ MadeHere : HostHeld(input.stores[n])}

ResolveDockerStores ==
    LET made    == [n \in MadeHere |-> First(<<ReadStore(n), Finds(Size(n) > EnvMax, "store")>>)]
        mounted == [n \in Mounted |-> IF Readable(host.file[n]) THEN ReadStore(n) ELSE Fine]
    IN  First(Each(MadeHere, made) \o Each(Mounted, mounted))

\* Mutant of HostChecks: a directory is something, too.
HostChecksExist == Finds(\E n \in Mounted : host.file[n].state = "missing", "store")

\* missingStoreFiles, on the host that runs the verb.
HostChecks == Finds(\E n \in Mounted : Absent(host.file[n]), "store")

-----------------------------------------------------------------------------
(***************************************************************************)
(* gen.Validate with the host checks of the validate verb.                 *)
(***************************************************************************)
\* Mutant of ValidateStore: a store kept in a Secret is not read for anyone.
ValidateStoreUnheld(n) ==
    input.stores[n].held \/ input.sections = {} \/ ReadStore(n) # "store"

\* One store of validateStores, TRUE if it raises no error: read once, checked
\* for every platform that carries it. An unset password is stood in for, but
\* for what it takes to open a JKS.
ValidateStore(n) ==
    LET st == input.stores[n]  f == host.file[n]  pw == Value(st.pass)
        kubeReads == "kubernetes" \in input.sections /\ ~st.held
        carried   == kubeReads \/ "podman" \in input.sections
        finding   == IF ~Created(st) \/ pw # "unset" THEN ReadStore(n)
                     ELSE IF st.kind = "jks" THEN Finds(~Readable(f) \/ f.state = "damaged", "store")
                     ELSE BuildStore(st, f, "set")
    IN  \/ ~carried /\ "docker" \notin input.sections
        \/ ~carried /\ ~Created(st) /\ ~Readable(f)
        \/ /\ finding = Fine
           /\ Created(st) /\ st.kind = "jks" /\ pw = "unset"
        \/ /\ finding = Fine
           /\ "podman" \in input.sections => Size(n) <= PodmanMax
           /\ "docker" \in input.sections /\ Created(st) => Size(n) <= EnvMax

\* The stores of which validate holds the bytes for the kubernetes stores Secret.
Counted == {n \in Own : ReadStore(n) \in {Fine, "variable"} /\ ~(input.stores[n].kind = "jks" /\ ReadStore(n) = "variable")}

ValidateStores ==
    /\ \A n \in Selected : ValidateStore(n)
    /\ "kubernetes" \in input.sections => ~KubeSizeError(Counted)

ValidateClean ==
    /\ Errors(input, host.env, ValidateContext(input)) = {}
    /\ ValidateStores
    /\ "kubernetes" \in input.sections => input.document <= KubeMax
    /\ "docker" \in input.sections => HostChecks = Fine

-----------------------------------------------------------------------------
(***************************************************************************)
(* What a verb makes of the spec before it reaches the platform.           *)
(***************************************************************************)
Names     == Range(StoreOrder)
Unread    == [n \in Names |-> 0]
ReadNow(S) == [n \in Names |-> IF n \in S THEN host.file[n].ver ELSE 0]

\* Mutant of Teardown: remove renders the Secrets with their contents.
TeardownRenders(r) == FALSE
Teardown(r) == r.platform = "kubernetes" /\ r.verb = "remove"

\* The Secrets of the operator the pod mounts.
SecretProbes ==
    (IF Held # {} THEN {"stores"} ELSE {})
        \cup (IF input.kubernetes.creds = "existing" /\ Secrets # {} THEN {"credentials"} ELSE {})

\* Errors of validate.Run; the status password (chance); on kubernetes what the
\* Secrets carry, and the size of the ConfigMap.
GenerateKubernetes ==
    First(<<Finds(CredentialsCreated(input.kubernetes), Resolve(Credentials)),
            ResolveStores,
            Finds(PullCreated(input.kubernetes), Resolve({input.registryUser, input.registryPass})),
            Finds(input.document > KubeMax, "document")>>)

Generates(r, chance) ==
    First(<<Finds(Errors(input, host.env, VerbContext(r.platform, r.verb, r.allow)) # {}, "spec"),
            chance,
            IF r.platform = "kubernetes" /\ ~Teardown(r) THEN GenerateKubernetes ELSE Fine>>)

\* What follows a check that found nothing: actKubernetes, actDocker, actPodman.
AfterGenerate(r) ==
    IF r.verb = "generate" THEN "ok" ELSE IF r.platform = "docker" THEN "credentials" ELSE "preflight"
AfterPreflight(r) ==
    IF r.verb # "deploy" THEN "platform"
    ELSE IF r.platform = "podman" THEN "credentials"
    ELSE IF r.platform = "docker" /\ MadeHere # {} THEN "image"
    ELSE IF r.platform = "kubernetes" /\ SecretProbes # {} THEN "probe" ELSE "platform"
AfterCredentials(r) ==
    IF r.platform = "podman" THEN "stores" ELSE IF r.verb = "deploy" THEN "host" ELSE "preflight"

NextStage(r) ==
    IF r.at = "generate" THEN AfterGenerate(r)
    ELSE IF r.at = "preflight" THEN AfterPreflight(r)
    ELSE IF r.at = "credentials" THEN AfterCredentials(r)
    ELSE IF r.at = "host" THEN "stores"
    ELSE IF r.at = "stores" /\ r.platform = "docker" THEN "preflight"
    ELSE "platform"

\* run moves on when the finding is Fine, and stops for it otherwise.
Move(r, finding) ==
    run' = IF finding = Fine THEN [r EXCEPT !.at = NextStage(r)]
           ELSE [r EXCEPT !.at = "stopped", !.why = finding]

-----------------------------------------------------------------------------
(***************************************************************************)
(* Initial states: nothing runs; host, Secrets and image are as found. What *)
(* the input does not use is fixed.                                        *)
(***************************************************************************)
FieldVars   == {x.var : x \in input.expands}
Used        == Credentials \cup {input.registryUser, input.registryPass} \cup FieldVars
SpecVars    == FieldVars \cup {StatusUserPasswordEnvVar}
NoEnv       == [v \in Vars |-> "unset"]
\* The part of the environment the checks of the spec see.
SpecEnv     == [v \in Vars |-> IF v \in SpecVars THEN host.env[v] ELSE "unset"]
ImageRead   == "docker" \in input.sections /\ MadeHere # {}
Down        == [up |-> FALSE, allow |-> FALSE, missing |-> {}, loaded |-> Unread,
                digest |-> Unread, image |-> "none", env |-> NoEnv]
Idle        == [verb |-> "none", platform |-> "none", allow |-> FALSE, at |-> "idle", why |-> Fine,
                read |-> Unread, unprobed |-> FALSE, raced |-> {}]
SecretStates == {"whole", "partial", "absent"}
Images       == {"recorded", "other"}

Init ==
    /\ input \in Inputs
    /\ host \in [env : {e \in [Vars -> EnvStates] :
                          \A v \in Vars : IF v \in Used THEN e[v] \in VarStates[v] ELSE e[v] = "unset"},
                 file : {f \in [Names -> [state : FileStates, ver : {1}]] :
                            \A n \in Names : f[n].state = "good" \/ n \in MadeHere \cup Mounted}]
    /\ cluster \in {c \in [{"stores", "credentials"} -> SecretStates] :
                       \A s \in DOMAIN c : c[s] = "whole" \/ ("kubernetes" \in input.sections /\ s \in SecretProbes)}
    /\ image \in {i \in [local : Images \cup {"none"}, remote : Images] :
                     ImageRead \/ i = [local |-> "recorded", remote |-> "recorded"]}
    /\ run = Idle /\ clean = FALSE
    /\ world = [p \in Platforms |-> Down]
    /\ count = [changes |-> 0, runs |-> 0]

-----------------------------------------------------------------------------
(***************************************************************************)
(* The verbs.                                                              *)
(***************************************************************************)
Ended == run.at \in {"idle", "ok", "stopped"}

Validate ==
    /\ Ended /\ count.runs < MaxRuns
    /\ clean' = ValidateClean
    /\ run' = [Idle EXCEPT !.verb = "validate", !.at = IF clean' THEN "ok" ELSE "stopped"]
    /\ count' = [count EXCEPT !.runs = @ + 1]
    /\ UNCHANGED <<input, host, cluster, image, world>>

\* Only a verb that runs the platform's command takes --allow-command.
Begin(verb, p, allow) ==
    /\ Ended /\ count.runs < MaxRuns
    /\ p \in input.sections
    /\ allow => verb # "generate" /\ "other" \in Range(input[p].command)
    /\ run' = [Idle EXCEPT !.verb = verb, !.platform = p, !.allow = allow, !.at = "generate"]
    /\ count' = [count EXCEPT !.runs = @ + 1]
    /\ UNCHANGED <<input, host, cluster, image, clean, world>>

\* resolveStatusPassword draws random bytes unless the password is given.
PasswordGiven == host.env[StatusUserPasswordEnvVar] \notin {"unset", "empty"}

Generate ==
    /\ run.at = "generate"
    /\ \E chance \in IF PasswordGiven THEN {Fine} ELSE {Fine, "random"} :
          LET own == IF run.platform = "kubernetes" /\ ~Teardown(run) THEN Own ELSE {}
          IN  Move([run EXCEPT !.read = ReadNow(own), !.raced = {}], Generates(run, chance))
    /\ UNCHANGED <<input, host, cluster, image, clean, world, count>>

\* docker resolves them for remove too: compose reads the same declarations.
ResolveCredentials ==
    /\ run.at = "credentials"
    /\ Move(run, Resolve(Credentials))
    /\ UNCHANGED <<input, host, cluster, image, clean, world, count>>

CheckHost ==
    /\ run.at = "host"
    /\ Move([run EXCEPT !.raced = @ \ {"files"}], HostChecks)
    /\ UNCHANGED <<input, host, cluster, image, clean, world, count>>

ReadStores ==
    /\ run.at = "stores"
    /\ IF run.platform = "docker"
       THEN Move([run EXCEPT !.read = ReadNow(MadeHere \cup {n \in Mounted : Readable(host.file[n])})],
                 ResolveDockerStores)
       ELSE Move([run EXCEPT !.read = ReadNow(Selected)], ResolvePodmanFiles)
    /\ UNCHANGED <<input, host, cluster, image, clean, world, count>>

Preflight ==
    /\ run.at = "preflight"
    /\ \E chance \in {Fine, "preflight"} : Move(run, chance)
    /\ UNCHANGED <<input, host, cluster, image, clean, world, count>>

\* A Secret that cannot be read is a warning.
ProbeOperatorSecrets ==
    /\ run.at = "probe"
    /\ \E unread \in SUBSET SecretProbes :
          Move([run EXCEPT !.unprobed = (unread # {}), !.raced = @ \ {"cluster"}],
               Finds(\E s \in SecretProbes \ unread : cluster[s] # "whole", "probe"))
    /\ UNCHANGED <<input, host, cluster, image, clean, world, count>>

-----------------------------------------------------------------------------
(***************************************************************************)
(* checkImageCommand: inspect, and pull and inspect again if the engine    *)
(* does not answer.                                                        *)
(***************************************************************************)
\* Mutant of Unanswered: an engine without the image passes the check.
UnansweredPasses(r) == Fine
\* What no answer leads to.
Unanswered(r) == IF r.at = "image" THEN "pull" ELSE "image"

InspectImage ==
    /\ run.at \in {"image", "reinspect"}
    /\ \E answered \in BOOLEAN :
          LET r     == [run EXCEPT !.raced = @ \ {"image"}]
              found == answered /\ image.local # "none"
              next  == IF found THEN Finds(image.local # "recorded", "image") ELSE Unanswered(run)
          IN  IF next = "pull" THEN run' = [r EXCEPT !.at = "pull"] ELSE Move(r, next)
    /\ UNCHANGED <<input, host, cluster, image, clean, world, count>>

PullImage ==
    /\ run.at = "pull"
    /\ \/ /\ image' = [image EXCEPT !.local = image.remote]
          /\ run' = [run EXCEPT !.at = "reinspect"]
       \/ /\ Move(run, "image")
          /\ UNCHANGED image
    /\ UNCHANGED <<input, host, cluster, clean, world, count>>

-----------------------------------------------------------------------------
(***************************************************************************)
(* The platform's call.  It may fail, before or after it took effect.      *)
(***************************************************************************)
\* What a release finds missing when it is applied; a store by its name.
ClusterMissing ==
    LET k == input.kubernetes
    IN  {n \in Held : cluster["stores"] # "whole"}
            \cup (IF /\ Secrets # {}
                     /\ ~CredentialsCreated(k)
                     /\ ~(k.creds = "existing" /\ cluster["credentials"] = "whole")
                  THEN {"credentials"} ELSE {})

\* Mutant of Digest: only the stores made here.
DigestOfMade(r) == [n \in Names |-> IF n \in MadeHere THEN r.read[n] ELSE 0]
\* The digest label covers every store that was read.
Digest(r) == r.read

\* A container of its own, made from what run read and what is mounted now.
Container(img) ==
    LET missing == {n \in Mounted : Absent(host.file[n])}
    IN  [up |-> TRUE, allow |-> run.allow, missing |-> missing,
         loaded |-> [n \in Names |-> IF n \in MadeHere THEN run.read[n]
                                     ELSE IF n \in Mounted \ missing THEN host.file[n].ver ELSE 0],
         digest |-> Digest(run), image |-> img, env |-> SpecEnv]

\* compose up -d: pulls an image the engine lacks; recreates the container when
\* the digest, the image or something else of the service (chance) differs, and
\* then makes a directory at each bind source that is not there.
ComposeUp ==
    LET img      == IF image.local = "none" THEN image.remote ELSE image.local
        now      == world["docker"]
    IN  /\ image' = [image EXCEPT !.local = img]
        /\ \E chance \in BOOLEAN :
              IF chance \/ ~now.up \/ now.digest # Digest(run) \/ now.image # img
              THEN /\ world' = [world EXCEPT !["docker"] = Container(img)]
                   /\ host' = [host EXCEPT !.file = [n \in Names |->
                                  IF n \in Container(img).missing THEN [@[n] EXCEPT !.state = "dir"] ELSE @[n]]]
                   /\ clean' = (clean /\ host' = host)
              ELSE /\ world' = [world EXCEPT !["docker"].allow = run.allow, !["docker"].env = SpecEnv]
                   /\ UNCHANGED <<host, clean>>

Applied == [up |-> TRUE, allow |-> run.allow, loaded |-> run.read, digest |-> run.read, image |-> "none",
            missing |-> IF run.platform = "kubernetes" THEN ClusterMissing ELSE {}, env |-> SpecEnv]

CallPlatform ==
    IF run.verb = "deploy" /\ run.platform = "docker" THEN ComposeUp
    ELSE /\ world' = [world EXCEPT ![run.platform] = IF run.verb = "deploy" THEN Applied ELSE Down]
         /\ UNCHANGED <<host, image, clean>>

Platform ==
    /\ run.at = "platform"
    /\ \/ CallPlatform /\ run' = [run EXCEPT !.at = "ok"]
       \/ CallPlatform /\ Move(run, "platform")
       \/ Move(run, "platform") /\ UNCHANGED <<world, host, image, clean>>
    /\ UNCHANGED <<input, cluster, count>>

-----------------------------------------------------------------------------
(***************************************************************************)
(* What else happens: the operator exports a variable or replaces a store, *)
(* a Secret changes, a tag moves.                                          *)
(***************************************************************************)
Change(what) ==
    /\ count.changes < MaxChanges
    /\ count' = [count EXCEPT !.changes = @ + 1]
    /\ run' = IF Ended THEN run ELSE [run EXCEPT !.raced = @ \cup {what}]
    /\ UNCHANGED <<input, world>>

\* Between verbs: a process keeps the environment it was started with.
ExportVariable(v, value) ==
    /\ Ended
    /\ v \in Used \cup SpecVars /\ value \in VarStates[v] \ {host.env[v]}
    /\ Change("variables")
    /\ host' = [host EXCEPT !.env[v] = value] /\ clean' = FALSE
    /\ UNCHANGED <<cluster, image>>

\* The bytes are new ones: bytes like those of an earlier version are not put back.
ReplaceStore(n, state) ==
    /\ n \in MadeHere \cup Mounted
    /\ Change("files")
    /\ host' = [host EXCEPT !.file[n] = [state |-> state, ver |-> @.ver + 1]] /\ clean' = FALSE
    /\ UNCHANGED <<cluster, image>>

ChangeSecret(s, state) ==
    /\ "kubernetes" \in input.sections /\ s \in SecretProbes /\ cluster[s] # state
    /\ Change("cluster")
    /\ cluster' = [cluster EXCEPT ![s] = state]
    /\ UNCHANGED <<host, image, clean>>

MoveImage(local, remote) ==
    /\ ImageRead
    /\ Change("image")
    /\ image' = [local |-> local, remote |-> remote]
    /\ UNCHANGED <<host, cluster, clean>>

Next ==
    \/ Validate
    \/ \E verb \in {"generate", "deploy", "remove"}, p \in Platforms, allow \in BOOLEAN : Begin(verb, p, allow)
    \/ Generate \/ ResolveCredentials \/ CheckHost \/ ReadStores \/ Preflight
    \/ ProbeOperatorSecrets \/ InspectImage \/ PullImage \/ Platform
    \/ \E v \in Vars, value \in EnvStates : ExportVariable(v, value)
    \/ \E n \in Names, state \in FileStates : ReplaceStore(n, state)
    \/ \E s \in {"stores", "credentials"}, state \in SecretStates : ChangeSecret(s, state)
    \/ \E local \in Images \cup {"none"}, remote \in Images : MoveImage(local, remote)

Spec == Init /\ [][Next]_vars

-----------------------------------------------------------------------------
(***************************************************************************)
(* Properties.                                                             *)
(***************************************************************************)
Stages == {"idle", "generate", "credentials", "host", "stores", "preflight", "probe", "image", "pull",
           "reinspect", "platform", "ok", "stopped"}
Whys   == {Fine, "spec", "random", "variable", "store", "document", "preflight", "probe", "image", "platform"}

\* The types of the variables.
TypeOK ==
    /\ host.env \in [Vars -> EnvStates]
    /\ host.file \in [Names -> [state : FileStates \cup {"dir"}, ver : Nat]]
    /\ cluster \in [{"stores", "credentials"} -> SecretStates]
    /\ image \in [local : Images \cup {"none"}, remote : Images]
    /\ run \in [verb : {"none", "validate", "generate", "deploy", "remove"}, platform : Platforms \cup {"none"},
                allow : BOOLEAN, at : Stages, why : Whys, read : [Names -> Nat], unprobed : BOOLEAN,
                raced : SUBSET {"files", "cluster", "image"}]
    /\ clean \in BOOLEAN
    /\ world \in [Platforms -> [up : BOOLEAN, allow : BOOLEAN, missing : SUBSET (Names \cup {"credentials"}),
                               loaded : [Names -> Nat], digest : [Names -> Nat],
                               image : Images \cup {"none"}, env : [Vars -> EnvStates]]]
    /\ count \in [changes : 0..MaxChanges, runs : 0..MaxRuns]

\* validate reports every error deploy, generate and remove would stop at before
\* they reach a platform (gen.Validate, hostChecks): while the host is as it was
\* at a clean validate, a verb stops only for a variable that is not set, for no
\* random bytes, for what the platform says -- or, on podman, for a document a
\* secret cannot carry, which validate does not render for podman.
ValidateForetells ==
    clean /\ run.at = "stopped" /\ run.verb # "validate" =>
        \/ run.why \in {"variable", "random", "preflight", "probe", "image", "platform"}
        \/ run.platform = "podman" /\ run.why = "document"

\* A deploy that ends well leaves nothing its container mounts missing
\* (missingStoreFiles, probeOperatorSecrets, the checks of the spec), unless a
\* store or a Secret changed after it was checked, or could not be probed. What
\* compose keeps of an earlier container may lack a store only if deploy cannot
\* read it now either: such a store is left out of the digest (ResolveDockerStores).
EverythingMounted ==
    [][/\ run.at = "platform" /\ run'.at = "ok" /\ run.verb = "deploy"
       /\ ~run.unprobed /\ run.raced \cap {"files", "cluster"} = {}
       => \A n \in world'[run.platform].missing :
             run.platform = "docker" /\ ~Absent(host.file[n]) /\ ~Readable(host.file[n])]_vars

\* A docker deploy that ends well leaves a container that has loaded the stores
\* the deploy read, or later ones: the stores digest recreates one that has not
\* (ResolveDockerStores). Other platforms carry what was read.
ServesWhatItRead ==
    run.at = "ok" /\ run.verb = "deploy" =>
        \A n \in Selected \ world[run.platform].missing : world[run.platform].loaded[n] >= run.read[n]

\* A docker container whose entrypoint decodes created stores runs an image that
\* starts with the command the entrypoint hands over to (checkImageCommand),
\* unless the tag was moved at the engine after it was inspected.
HandsOver ==
    run.at = "ok" /\ run.verb = "deploy" /\ run.platform = "docker" /\ MadeHere # {} /\ "image" \notin run.raced =>
        world["docker"].image = "recorded"

\* What was deployed can be removed with the same commands allowed, whatever
\* became of its stores and of the variables that hold its credentials
\* (KubeOpts.Teardown, DockerStorePlaceholders): only docker needs those, which
\* compose reads again. What remove checks of the spec depends on the variables
\* its fields are written with, and on an override of the status password: it can
\* refuse the spec only once one of them is not what it was at the deploy.
DeployedIsRemovable ==
    [][/\ run.at # "stopped" /\ run'.at = "stopped" /\ run'.verb = "remove"
       /\ world[run'.platform].up /\ (world[run'.platform].allow => run'.allow)
       => \/ run'.why \in {"random", "preflight", "platform"}
          \/ run'.platform = "docker" /\ run'.why = "variable"
          \/ run'.why = "spec" /\ world[run'.platform].env # SpecEnv]_vars
=============================================================================
