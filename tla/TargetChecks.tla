---------------------------- MODULE TargetChecks ----------------------------
(***************************************************************************)
(* What validate.Run refuses of the platform sections of env.yaml          *)
(* (checkTargets and the checks under it): each operator is the set of     *)
(* findings of one check, and a run is refused when the union is not       *)
(* empty.  A context names the platforms that are checked, whether it is   *)
(* the validate verb (lint), a kubernetes remove (teardown), and whether   *)
(* --allow-command approves the one foreign binary.                        *)
(*                                                                         *)
(* The grammar of a single field (a label, a quantity, a port, a path) is  *)
(* abstracted: section.malformed names the fields that break theirs, and   *)
(* section.retired the keys the tool no longer reads.  The input is one    *)
(* whose shared part validate accepts (Consolidate): stores holds the      *)
(* stores connections select, cred the password of its connection.         *)
(*                                                                         *)
(* A field may also be written with a variable of the host, which          *)
(* spec.Expand puts in before anything is checked: expands holds, of each  *)
(* such field, the section it is in, the variable, and the states of the   *)
(* variable for which the check of the field refuses what comes of it.  A  *)
(* variable is unset (the field is then its default, or the text ${VAR}    *)
(* itself), empty, set, or set to something odd.                           *)
(***************************************************************************)
EXTENDS Integers, Sequences, FiniteSets

Platforms == {"kubernetes", "docker", "podman"}
NameMax   == 63  \* DNS-1123

Created(st) == st.kind \in {"certs", "jks"}
\* A host-side source: what docker and podman can deliver.
HostHeld(st) == st.kind # "none"

-----------------------------------------------------------------------------
(***************************************************************************)
(* CheckDeployCommand.  A token is a binary of the platform's allowlist,   *)
(* the one --allow-command may approve ("other"), a path, a flag, a flag   *)
(* with its value ("flag="), the end-of-flags marker "--", a word, or one  *)
(* that fails the charset of Tokenize ("unsafe").                          *)
(***************************************************************************)
Approved(token, allow) == token = "binary" \/ (allow /\ token = "other")

CommandOk(tokens, allow) ==
    /\ tokens # <<>> /\ \A i \in DOMAIN tokens : tokens[i] # "unsafe"
    /\ Approved(tokens[1], allow)
    /\ \A i \in 2..Len(tokens) :
          /\ tokens[i] # "--"
          /\ \/ tokens[i] \in {"flag", "flag="}
             \/ Approved(tokens[i], allow)
             \/ tokens[i - 1] = "flag"

CommandErrors(s, ctx) == IF CommandOk(s.command, ctx.allow) THEN {} ELSE {"command"}
RunAsErrors(s) == IF s.runAs = "malformed" THEN {"run-as"} ELSE {}

-----------------------------------------------------------------------------
(***************************************************************************)
(* What the sections share.                                                *)
(***************************************************************************)
\* checkImage, with the registry account's checkCred left to the shared part,
\* and checkJavaOptions: only with a platform in play.
SharedErrors(in, ctx) ==
    IF ctx.platforms = {} THEN {}
    ELSE (IF in.image \in {"absent", "untagged", "unsafe"} THEN {"image"} ELSE {})
         \cup (IF in.java = "portable" THEN {} ELSE {"java-options"})

\* usesCredentials: a connection or a selected store has a secret of its own.
UsesCredentials(in) == in.cred # "none" \/ \E n \in DOMAIN in.stores : in.stores[n].pass # "none"

\* checkClusterOnlyStores, over selectedStoreNames.
ClusterOnlyErrors(in) == {n \in DOMAIN in.stores : ~HostHeld(in.stores[n])}

-----------------------------------------------------------------------------
(***************************************************************************)
(* kubernetes.                                                             *)
(***************************************************************************)
CredentialsWired(k) == k.creds \in {"create", "existing", "both"}
CredentialsCreated(k) == k.creds \in {"create", "both"}
PullCreated(k) == k.pull \in {"create", "create-named"}

\* CreatedNames: the lengths of what is named after deployment.name, each with
\* its suffix; the stores Secret's is always among them.
CreatedLengths(k) ==
    {k.name, k.name + 7}                                        \* -config, -stores
        \cup (IF CredentialsCreated(k) THEN {k.name + 12} ELSE {})  \* -credentials
        \cup (IF PullCreated(k) THEN {k.name + 11} ELSE {})         \* -image-pull
        \cup (IF k.libs = "pvc" THEN {k.name + 5} ELSE {})          \* -libs

KubeNameErrors(k) ==
    (IF \E n \in CreatedLengths(k) : n > NameMax THEN {"deployment.name"} ELSE {})
    \cup (IF k.libs = "pvc" /\ k.namespace + 1 + k.name + 8 > NameMax THEN {"libs.pvc"} ELSE {})

\* checkLibs: exactly one mode, and exactly one of the two within pvc.
KubeLibsErrors(k) ==
    IF k.libs \in {"none", "pvc", "pvc-existing", "download"} THEN {} ELSE {"libs"}

\* checkImagePull: create builds the Secret from the registry account.
PullErrors(in, k) ==
    IF \/ k.pull = "unnamed"
       \/ PullCreated(k) /\ "none" \in {in.registryUser, in.registryPass}
    THEN {"image-pull"} ELSE {}

\* checkRetiredCreateNames, which the validate verb alone runs.
RetiredNameErrors(k) ==
    (IF k.pull = "create-named" THEN {"image-pull.name"} ELSE {})
    \cup (IF k.storesBlock = "create" THEN {"secrets.stores"} ELSE {})
    \cup (k.retired \cap {"create.name", "libs.create.name"})

\* What a teardown only warns of: the retired stores.existing, and credentials
\* nothing would mount.
WiringErrors(in, k) ==
    (IF k.storesBlock = "existing" THEN {"stores.existing"} ELSE {})
    \cup (IF UsesCredentials(in) /\ ~CredentialsWired(k) THEN {"credentials unwired"} ELSE {})

\* checkKube, checkRunAs and the wiring check of checkTargets.
KubeErrors(in, ctx) ==
    LET k == in.kubernetes
    IN  CommandErrors(k, ctx) \cup RunAsErrors(k) \cup KubeNameErrors(k) \cup k.malformed
        \cup (k.retired \ {"create.name", "libs.create.name"})
        \cup (IF in.standalone /\ k.replicas > 1 THEN {"replicas"} ELSE {})
        \cup (IF k.creds \in {"both", "neither"} THEN {"credentials"} ELSE {})
        \cup KubeLibsErrors(k) \cup PullErrors(in, k)
        \cup (IF ctx.lint THEN RetiredNameErrors(k) ELSE {})
        \cup (IF ctx.teardown THEN {} ELSE WiringErrors(in, k))

-----------------------------------------------------------------------------
(***************************************************************************)
(* docker and podman.                                                      *)
(***************************************************************************)
\* checkRestart: each engine's own words; podman's are systemd's.
RestartWords(p) ==
    {"", "no", "always", "on-failure"}
        \cup (IF p = "podman" THEN {"on-success", "on-abnormal", "on-abort", "on-watchdog"}
              ELSE {"unless-stopped", "on-failure:3"})

\* checkContainerStores: docker alone writes a store's path into its artifact,
\* and it reads every store env.yaml defines, selected or not.
PathErrors(in, p) == IF p = "docker" THEN in.unsafePaths ELSE {}

\* checkContainerTarget, checkDocker or checkPodman, and checkRunAs. base-dir is
\* only warned about.
ContainerErrors(in, p, ctx) ==
    LET s == in[p]
    IN  CommandErrors(s, ctx) \cup RunAsErrors(s) \cup s.malformed \cup (s.retired \ {"base-dir"})
        \cup (IF s.restart \in RestartWords(p) THEN {} ELSE {"restart"})
        \cup PathErrors(in, p) \cup ClusterOnlyErrors(in)

-----------------------------------------------------------------------------
(***************************************************************************)
(* What the environment of the host adds.                                  *)
(***************************************************************************)
StatusUserPasswordEnvVar == "SECURITY_USER_SOLMQ_STATUS_PASSWORD"

\* checkStatusUser: an override of the status account's password must survive
\* being written into application.yml and read back by the status script.
StatusPasswordErrors(env) ==
    IF env[StatusUserPasswordEnvVar] = "odd" THEN {StatusUserPasswordEnvVar} ELSE {}

\* Expand, and the checks of the fields it has filled in. A section's fields are
\* checked with their section, the shared ones always.
ExpandErrors(in, env, ctx) ==
    {x.field : x \in {y \in in.expands : /\ y.section \in ctx.platforms \cup {"shared"}
                                        /\ env[y.var] \in y.refused}}

-----------------------------------------------------------------------------
\* checkTargets, and the checks of validate.Run before it that a platform or the
\* environment adds.
Errors(in, env, ctx) ==
    StatusPasswordErrors(env) \cup ExpandErrors(in, env, ctx) \cup SharedErrors(in, ctx)
        \cup (IF "kubernetes" \in ctx.platforms THEN KubeErrors(in, ctx) ELSE {})
        \cup UNION {ContainerErrors(in, p, ctx) : p \in ctx.platforms \cap {"docker", "podman"}}

\* The context of gen.Validate: every section present, and the lint.
ValidateContext(in) == [platforms |-> in.sections, lint |-> TRUE, teardown |-> FALSE, allow |-> FALSE]

\* The context of GenerateKubernetes, GenerateDocker and GeneratePodman.
VerbContext(p, verb, allow) ==
    [platforms |-> {p}, lint |-> FALSE, teardown |-> p = "kubernetes" /\ verb = "remove", allow |-> allow]
=============================================================================
