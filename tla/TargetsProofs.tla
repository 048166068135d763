---------------------------- MODULE TargetsProofs ----------------------------
(***************************************************************************)
(* Proofs about the verbs: what a docker deploy leaves running, and that   *)
(* whatever was deployed can be removed.                                   *)
(***************************************************************************)
EXTENDS Targets, WellFoundedInduction, TLAPS

(***************************************************************************)
(* The fields of the records, and the versions as numbers: what a step on  *)
(* one field needs to know of the others.                                  *)
(***************************************************************************)
RunShape ==
    run = [verb |-> run.verb, platform |-> run.platform, allow |-> run.allow, at |-> run.at, why |-> run.why,
           read |-> run.read, unprobed |-> run.unprobed, raced |-> run.raced]
WorldShape ==
    /\ world = [p \in Platforms |-> world[p]]
    /\ \A p \in Platforms :
          world[p] = [up |-> world[p].up, allow |-> world[p].allow, missing |-> world[p].missing,
                      loaded |-> world[p].loaded, digest |-> world[p].digest, image |-> world[p].image,
                      env |-> world[p].env]
HostShape ==
    /\ host = [env |-> host.env, file |-> host.file]
    /\ host.file = [n \in Names |-> host.file[n]]
    /\ \A n \in Names : /\ host.file[n] = [state |-> host.file[n].state, ver |-> host.file[n].ver]
                        /\ host.file[n].ver \in Nat
ImageShape == image = [local |-> image.local, remote |-> image.remote]
Shape == RunShape /\ WorldShape /\ HostShape /\ ImageShape

\* Move keeps every field of r but at and why.
LEMMA MoveFields ==
    ASSUME NEW STATE r, NEW STATE f, Move(r, f),
           r = [verb |-> r.verb, platform |-> r.platform, allow |-> r.allow, at |-> r.at, why |-> r.why,
                read |-> r.read, unprobed |-> r.unprobed, raced |-> r.raced]
    PROVE  /\ RunShape'
           /\ run'.verb = r.verb /\ run'.platform = r.platform /\ run'.allow = r.allow
           /\ run'.read = r.read /\ run'.raced = r.raced /\ run'.unprobed = r.unprobed
           /\ f = Fine => run'.at = NextStage(r) /\ run'.why = r.why
           /\ f # Fine => run'.at = "stopped" /\ run'.why = f
  <1>1. CASE f = Fine
    <2>1. run' = [r EXCEPT !.at = NextStage(r)] BY <1>1 DEF Move
    <2> DEFINE next == NextStage(r)
    <2>2. run' = [verb |-> r.verb, platform |-> r.platform, allow |-> r.allow, at |-> next, why |-> r.why,
                  read |-> r.read, unprobed |-> r.unprobed, raced |-> r.raced]
      <3> HIDE DEF next
      <3> QED BY <2>1 DEF next
    <2> HIDE DEF next
    <2> QED BY <1>1, <2>2 DEF RunShape, next
  <1>2. CASE f # Fine
    <2>1. run' = [r EXCEPT !.at = "stopped", !.why = f] BY <1>2 DEF Move
    <2> QED BY <1>2, <2>1 DEF RunShape
  <1> QED BY <1>1, <1>2

-----------------------------------------------------------------------------
(***************************************************************************)
(* Which stages which verb goes through.                                   *)
(***************************************************************************)
Verbs == {"generate", "deploy", "remove"}
Kind ==
    /\ input \in Inputs
    /\ Ended \/ run.verb \in Verbs
    /\ run.verb \in Verbs => run.platform \in Platforms
    /\ run.at = "probe" => run.platform = "kubernetes"
    /\ run.at \in {"credentials", "stores"} => run.platform # "kubernetes"
    /\ run.at = "host" => run.platform = "docker"
    /\ run.at \in {"image", "pull", "reinspect"} => run.platform = "docker" /\ run.verb = "deploy"
    /\ run.verb = "generate" => run.at \in {"generate", "ok", "stopped"}
    /\ run.verb = "remove" =>
          \/ run.at \in {"generate", "preflight", "platform", "ok", "stopped"}
          \/ run.at = "credentials" /\ run.platform = "docker"

LEMMA ShapeInit == Init => Shape /\ Kind
  <1> SUFFICES ASSUME Init PROVE Shape /\ Kind OBVIOUS
  <1>1. RunShape BY DEF Init, RunShape, Idle
  <1>2. WorldShape BY DEF Init, WorldShape, Down
  <1>3. HostShape
    <2>1. /\ host = [env |-> host.env, file |-> host.file]
          /\ host.file \in [Names -> [state : FileStates, ver : {1}]]
      BY DEF Init
    <2> QED BY <2>1 DEF HostShape
  <1>4. ImageShape BY DEF Init, ImageShape
  <1>5. Kind BY DEF Init, Kind, Idle, Ended, Verbs
  <1> QED BY <1>1, <1>2, <1>3, <1>4, <1>5 DEF Shape

\* The steps between Begin and Platform change run alone, but for a pull.
Checks == Generate \/ ResolveCredentials \/ CheckHost \/ ReadStores \/ Preflight
              \/ ProbeOperatorSecrets \/ InspectImage \/ PullImage

LEMMA ChecksKeep ==
    Checks => UNCHANGED <<input, host, cluster, clean, world, count>>
  BY DEF Checks, Generate, ResolveCredentials, CheckHost, ReadStores, Preflight,
         ProbeOperatorSecrets, InspectImage, PullImage

\* The next stage depends on who runs and how far it is alone.
LEMMA StageOf ==
    ASSUME NEW STATE r, r.at = run.at, r.verb = run.verb, r.platform = run.platform
    PROVE  NextStage(r) = NextStage(run)
  BY DEF NextStage, AfterGenerate, AfterPreflight, AfterCredentials

\* What a check may have read or noted is all it changes of run before it moves.
Like(r) == r = [verb |-> run.verb, platform |-> run.platform, allow |-> run.allow, at |-> run.at,
                why |-> run.why, read |-> r.read, unprobed |-> r.unprobed, raced |-> r.raced]

LEMMA LikeMoves ==
    ASSUME NEW STATE r, NEW STATE f, Like(r), Move(r, f)
    PROVE  /\ RunShape'
           /\ run'.verb = run.verb /\ run'.platform = run.platform /\ run'.allow = run.allow
           /\ run'.read = r.read /\ run'.raced = r.raced /\ run'.unprobed = r.unprobed
           /\ \/ f = Fine /\ run'.at = NextStage(run) /\ run'.why = run.why
              \/ f # Fine /\ run'.at = "stopped" /\ run'.why = f
  <1>1. /\ r = [verb |-> r.verb, platform |-> r.platform, allow |-> r.allow, at |-> r.at, why |-> r.why,
                read |-> r.read, unprobed |-> r.unprobed, raced |-> r.raced]
        /\ r.verb = run.verb /\ r.platform = run.platform /\ r.allow = run.allow
        /\ r.at = run.at /\ r.why = run.why
    BY DEF Like
  <1>2. NextStage(r) = NextStage(run) BY <1>1, StageOf
  <1> QED BY <1>1, <1>2, MoveFields

\* A step that moves a record like run with a finding.
Moved(why, x, y) ==
    /\ RunShape'
    /\ run'.verb = run.verb /\ run'.platform = run.platform /\ run'.allow = run.allow
    /\ run'.read = x /\ run'.raced = y /\ run'.unprobed \in BOOLEAN \cup {run.unprobed}
    /\ \/ why = Fine /\ run'.at = NextStage(run) /\ run'.why = run.why
       \/ why # Fine /\ run'.at = "stopped" /\ run'.why = why

\* The records the checks move.
LEMMA RunMoves ==
    ASSUME RunShape,  NEW STATE f, NEW STATE r, r = run, Move(r, f)
    PROVE  Moved(f, run.read, run.raced)
  <1>1. Like(r) /\ r.read = run.read /\ r.raced = run.raced /\ r.unprobed = run.unprobed BY DEF RunShape, Like
  <1> QED BY <1>1, LikeMoves DEF Moved

LEMMA ReadMoves ==
    ASSUME RunShape, NEW STATE x, NEW STATE f, NEW STATE r, r = [run EXCEPT !.read = x], Move(r, f)
    PROVE  Moved(f, x, run.raced)
  <1>1. Like(r) /\ r.read = x /\ r.raced = run.raced /\ r.unprobed = run.unprobed BY DEF RunShape, Like
  <1> QED BY <1>1, LikeMoves DEF Moved

LEMMA RacedMoves ==
    ASSUME RunShape, NEW STATE y, NEW STATE f, NEW STATE r, r = [run EXCEPT !.raced = y], Move(r, f)
    PROVE  Moved(f, run.read, y)
  <1>1. Like(r) /\ r.read = run.read /\ r.raced = y /\ r.unprobed = run.unprobed BY DEF RunShape, Like
  <1> QED BY <1>1, LikeMoves DEF Moved

LEMMA ReadRacedMoves ==
    ASSUME RunShape, NEW STATE x, NEW STATE y, NEW STATE f, NEW STATE r, r = [run EXCEPT !.read = x, !.raced = y], Move(r, f)
    PROVE  Moved(f, x, y)
  <1>1. Like(r) /\ r.read = x /\ r.raced = y /\ r.unprobed = run.unprobed BY DEF RunShape, Like
  <1> QED BY <1>1, LikeMoves DEF Moved

LEMMA ProbedMoves ==
    ASSUME RunShape, NEW STATE y, NEW STATE z, z \in BOOLEAN, NEW STATE f, NEW STATE r, r = [run EXCEPT !.unprobed = z, !.raced = y], Move(r, f)
    PROVE  Moved(f, run.read, y) /\ run'.unprobed = z
  <1>1. Like(r) /\ r.read = run.read /\ r.raced = y /\ r.unprobed = z BY DEF RunShape, Like
  <1> QED BY <1>1, LikeMoves DEF Moved

\* What each check does to run.
LEMMA GenerateMoves ==
    ASSUME RunShape, Generate
    PROVE  \E chance \in {Fine, "random"} :
              Moved(Generates(run, chance),
                    ReadNow(IF run.platform = "kubernetes" /\ ~Teardown(run) THEN Own ELSE {}), {})
  <1> DEFINE x == ReadNow(IF run.platform = "kubernetes" /\ ~Teardown(run) THEN Own ELSE {})
  <1>1. PICK chance \in {Fine, "random"} : Move([run EXCEPT !.read = x, !.raced = {}], Generates(run, chance))
    BY DEF Generate
  <1> HIDE DEF x
  <1>2. Moved(Generates(run, chance), x, {}) BY <1>1, ReadRacedMoves
  <1> QED BY <1>2 DEF x

LEMMA CredentialsMove == ASSUME RunShape, ResolveCredentials PROVE Moved(Resolve(Credentials), run.read, run.raced)
  BY RunMoves DEF ResolveCredentials

LEMMA PreflightMoves ==
    ASSUME RunShape, Preflight PROVE \E chance \in {Fine, "preflight"} : Moved(chance, run.read, run.raced)
  BY RunMoves DEF Preflight

LEMMA HostMoves == ASSUME RunShape, CheckHost PROVE Moved(HostChecks, run.read, run.raced \ {"files"})
  <1> DEFINE y == run.raced \ {"files"}
  <1>1. Move([run EXCEPT !.raced = y], HostChecks) BY DEF CheckHost
  <1> HIDE DEF y
  <1> QED BY <1>1, RacedMoves DEF y

\* What a docker deploy can read of the stores.
DockerReads == MadeHere \cup {n \in Mounted : Readable(host.file[n])}

LEMMA StoresMove ==
    ASSUME RunShape, ReadStores
    PROVE  /\ run.platform = "docker" => Moved(ResolveDockerStores, ReadNow(DockerReads), run.raced)
           /\ run.platform # "docker" => Moved(ResolvePodmanFiles, ReadNow(Selected), run.raced)
  <1>1. CASE run.platform = "docker"
    <2> DEFINE x == ReadNow(DockerReads)
    <2>1. Move([run EXCEPT !.read = x], ResolveDockerStores) BY <1>1 DEF ReadStores, DockerReads
    <2> HIDE DEF x
    <2>2. Moved(ResolveDockerStores, x, run.raced) BY <2>1, ReadMoves
    <2> QED BY <1>1, <2>2 DEF x
  <1>2. CASE run.platform # "docker"
    <2> DEFINE x == ReadNow(Selected)
    <2>1. Move([run EXCEPT !.read = x], ResolvePodmanFiles) BY <1>2 DEF ReadStores
    <2> HIDE DEF x
    <2>2. Moved(ResolvePodmanFiles, x, run.raced) BY <2>1, ReadMoves
    <2> QED BY <1>2, <2>2 DEF x
  <1> QED BY <1>1, <1>2

\* A probe that could read every Secret, and stops for none, has found them whole.
LEMMA ProbeMoves ==
    ASSUME RunShape, ProbeOperatorSecrets
    PROVE  \E f : /\ Moved(f, run.read, run.raced \ {"cluster"})
                  /\ f = Fine /\ ~run'.unprobed => \A s \in SecretProbes : cluster[s] = "whole"
  <1> DEFINE y == run.raced \ {"cluster"}
             f(unread) == Finds(\E s \in SecretProbes \ unread : cluster[s] # "whole", "probe")
  <1>1. PICK unread \in SUBSET SecretProbes :
           Move([run EXCEPT !.unprobed = (unread # {}), !.raced = y], f(unread))
    BY DEF ProbeOperatorSecrets
  <1> DEFINE z == unread # {}  why == f(unread)
  <1>2. Move([run EXCEPT !.unprobed = z, !.raced = y], why) BY <1>1
  <1>0. z \in BOOLEAN OBVIOUS
  <1>3. why = Fine /\ ~z => \A s \in SecretProbes : cluster[s] = "whole" BY DEF Finds, Fine
  <1> HIDE DEF y, z, why
  <1>4. Moved(why, run.read, y) /\ run'.unprobed = z BY <1>0, <1>2, ProbedMoves
  <1>5. Moved(why, run.read, y) /\ (why = Fine /\ ~run'.unprobed => \A s \in SecretProbes : cluster[s] = "whole")
    BY <1>3, <1>4
  <1> QED BY <1>5 DEF y

\* An inspection pulls, stops, or has found the recorded image.
LEMMA InspectMoves ==
    ASSUME RunShape, InspectImage
    PROVE  /\ RunShape' /\ run.at \in {"image", "reinspect"}
           /\ run'.verb = run.verb /\ run'.platform = run.platform /\ run'.allow = run.allow
           /\ run'.read = run.read /\ run'.raced = run.raced \ {"image"}
           /\ run'.unprobed \in BOOLEAN \cup {run.unprobed}
           /\ \/ run'.at = "pull" /\ run'.why = run.why
              \/ run'.at = "stopped" /\ run'.why = "image"
              \/ run'.at = "platform" /\ run'.why = run.why /\ image.local = "recorded"
  <1> DEFINE y == run.raced \ {"image"}
             next(answered) == IF answered /\ image.local # "none" THEN Finds(image.local # "recorded", "image")
                               ELSE Unanswered(run)
  <1>1. PICK answered \in BOOLEAN :
           IF next(answered) = "pull" THEN run' = [[run EXCEPT !.raced = y] EXCEPT !.at = "pull"]
           ELSE Move([run EXCEPT !.raced = y], next(answered))
    BY DEF InspectImage
  <1> DEFINE why == next(answered)
  <1>2. /\ run.at \in {"image", "reinspect"}
        /\ why = Fine => image.local = "recorded"
        /\ why \in {Fine, "image", "pull"}
    BY DEF InspectImage, Finds, Fine, Unanswered
  <1>3. CASE why = "pull"
    <2>1. run' = [[run EXCEPT !.raced = y] EXCEPT !.at = "pull"] BY <1>1, <1>3
    <2> HIDE DEF y, why
    <2>2. RunShape' /\ run'.at = "pull" /\ run'.raced = y /\ run'.verb = run.verb /\ run'.platform = run.platform
          /\ run'.allow = run.allow /\ run'.read = run.read /\ run'.why = run.why /\ run'.unprobed = run.unprobed
      BY <2>1 DEF RunShape
    <2> QED BY <1>2, <2>2 DEF y
  <1>4. CASE why # "pull"
    <2>1. Move([run EXCEPT !.raced = y], why) BY <1>1, <1>4
    <2> HIDE DEF y, why
    <2>2. Moved(why, run.read, y) BY <2>1, RacedMoves
    <2>3. NextStage(run) = "platform" BY <1>2 DEF NextStage
    <2> QED BY <1>2, <1>4, <2>2, <2>3 DEF Moved, y
  <1> QED BY <1>3, <1>4

LEMMA PullMoves ==
    ASSUME RunShape, PullImage
    PROVE  /\ RunShape' /\ run.at = "pull"
           /\ run'.verb = run.verb /\ run'.platform = run.platform /\ run'.allow = run.allow
           /\ run'.read = run.read /\ run'.raced = run.raced
           /\ run'.unprobed \in BOOLEAN \cup {run.unprobed}
           /\ \/ run'.at = "reinspect" /\ run'.why = run.why /\ image' = [image EXCEPT !.local = image.remote]
              \/ run'.at = "stopped" /\ run'.why = "image" /\ UNCHANGED image
  <1>1. run.at = "pull" BY DEF PullImage
  <1>2. CASE image' = [image EXCEPT !.local = image.remote] /\ run' = [run EXCEPT !.at = "reinspect"]
    BY <1>1, <1>2 DEF RunShape
  <1>3. CASE Move(run, "image") /\ UNCHANGED image
    <2>1. Moved("image", run.read, run.raced) BY <1>3, RunMoves
    <2> QED BY <1>1, <1>3, <2>1 DEF Moved, Fine
  <1> QED BY <1>2, <1>3 DEF PullImage

LEMMA ValidateMoves ==
    ASSUME Validate
    PROVE  /\ RunShape' /\ run'.verb = "validate" /\ run'.at \in {"ok", "stopped"} /\ run'.read = Unread
           /\ run'.platform = "none" /\ run'.allow = FALSE /\ run'.why = Fine
           /\ run'.unprobed = FALSE /\ run'.raced = {}
  <1> DEFINE at == IF clean' THEN "ok" ELSE "stopped"
  <1>1. run' = [[Idle EXCEPT !.verb = "validate"] EXCEPT !.at = at] BY DEF Validate
  <1>2. at \in {"ok", "stopped"} OBVIOUS
  <1> HIDE DEF at
  <1> QED BY <1>1, <1>2 DEF RunShape, Idle

LEMMA BeginMoves ==
    ASSUME NEW verb, NEW p, NEW allow, Begin(verb, p, allow)
    PROVE  /\ RunShape' /\ run'.verb = verb /\ run'.platform = p /\ run'.allow = allow
           /\ run'.at = "generate" /\ run'.read = Unread /\ p \in input.sections
           /\ run'.why = Fine /\ run'.unprobed = FALSE /\ run'.raced = {}
  BY DEF Begin, RunShape, Idle

\* What happens to the host and the platform on their own.
Environment ==
    \/ \E v \in Vars, value \in EnvStates : ExportVariable(v, value)
    \/ \E n \in Names, state \in FileStates : ReplaceStore(n, state)
    \/ \E s \in {"stores", "credentials"}, state \in SecretStates : ChangeSecret(s, state)
    \/ \E local \in Images \cup {"none"}, remote \in Images : MoveImage(local, remote)

LEMMA ChangeMoves ==
    ASSUME RunShape, NEW what, Change(what)
    PROVE  /\ RunShape'
           /\ run'.verb = run.verb /\ run'.platform = run.platform /\ run'.allow = run.allow
           /\ run'.at = run.at /\ run'.why = run.why /\ run'.read = run.read /\ run'.unprobed = run.unprobed
           /\ IF Ended THEN run' = run ELSE run'.raced = run.raced \cup {what}
           /\ UNCHANGED <<input, world>>
  <1> DEFINE y == run.raced \cup {what}
  <1>1. IF Ended THEN run' = run ELSE run' = [run EXCEPT !.raced = y] BY DEF Change
  <1>2. UNCHANGED <<input, world>> BY DEF Change
  <1> HIDE DEF y
  <1>3. CASE Ended BY <1>1, <1>2, <1>3 DEF RunShape
  <1>4. CASE ~Ended
    <2>1. run' = [run EXCEPT !.raced = y] BY <1>1, <1>4
    <2>2. RunShape' /\ run'.raced = y /\ run'.verb = run.verb /\ run'.platform = run.platform
          /\ run'.allow = run.allow /\ run'.at = run.at /\ run'.why = run.why /\ run'.read = run.read
          /\ run'.unprobed = run.unprobed
      BY <2>1 DEF RunShape
    <2> QED BY <1>2, <1>4, <2>2 DEF y
  <1> QED BY <1>3, <1>4

LEMMA EnvironmentMoves ==
    ASSUME RunShape, Environment
    PROVE  /\ RunShape'
           /\ run'.verb = run.verb /\ run'.platform = run.platform /\ run'.allow = run.allow
           /\ run'.at = run.at /\ run'.why = run.why /\ run'.read = run.read /\ run'.unprobed = run.unprobed
           /\ UNCHANGED <<input, world>>
  <1>1. \E what : Change(what)
    BY DEF Environment, ExportVariable, ReplaceStore, ChangeSecret, MoveImage
  <1> QED BY <1>1, ChangeMoves

LEMMA PlatformMoves ==
    ASSUME RunShape, Platform
    PROVE  /\ RunShape' /\ run.at = "platform"
           /\ run'.verb = run.verb /\ run'.platform = run.platform /\ run'.allow = run.allow
           /\ run'.read = run.read /\ run'.raced = run.raced /\ run'.unprobed = run.unprobed
           /\ \/ run'.at = "ok" /\ run'.why = run.why
              \/ run'.at = "stopped" /\ run'.why = "platform"
           /\ \/ CallPlatform
              \/ run'.at = "stopped" /\ UNCHANGED <<world, host, image, clean>>
           /\ UNCHANGED <<input, cluster, count>>
  <1>1. run.at = "platform" /\ UNCHANGED <<input, cluster, count>> BY DEF Platform
  <1>2. CASE CallPlatform /\ run' = [run EXCEPT !.at = "ok"]
    <2>1. run' = [run EXCEPT !.at = "ok"] BY <1>2
    <2>2. RunShape' /\ run'.verb = run.verb /\ run'.platform = run.platform /\ run'.allow = run.allow
          /\ run'.read = run.read /\ run'.raced = run.raced /\ run'.at = "ok"
          /\ run'.unprobed = run.unprobed /\ run'.why = run.why
      BY <2>1 DEF RunShape
    <2> QED BY <1>1, <1>2, <2>2
  <1>3. CASE Move(run, "platform") /\ (CallPlatform \/ UNCHANGED <<world, host, image, clean>>)
    <2>1. Moved("platform", run.read, run.raced) BY <1>3, RunMoves
    <2>2. RunShape' /\ run'.verb = run.verb /\ run'.platform = run.platform /\ run'.allow = run.allow
          /\ run'.read = run.read /\ run'.raced = run.raced /\ run'.at = "stopped" /\ run'.why = "platform"
          /\ run'.unprobed = run.unprobed
      <3>1. /\ RunShape' /\ run'.verb = run.verb /\ run'.platform = run.platform /\ run'.allow = run.allow
            /\ run'.read = run.read /\ run'.raced = run.raced /\ run'.at = "stopped" /\ run'.why = "platform"
        BY <2>1 DEF Moved, Fine
      <3>2. run'.unprobed = run.unprobed BY <1>3, MoveFields DEF RunShape
      <3> QED BY <3>1, <3>2
    <2> QED BY <1>1, <1>3, <2>2
  <1> QED BY <1>2, <1>3 DEF Platform

LEMMA StepsOf ==
    [Next]_vars => \/ Validate
                   \/ \E verb \in Verbs, p \in Platforms, allow \in BOOLEAN : Begin(verb, p, allow)
                   \/ Checks \/ Platform \/ Environment \/ UNCHANGED vars
  BY DEF Next, Verbs, Checks, Environment

\* A check keeps who runs, and leads to the next stage, to a stop, or around the
\* questions to the image.
LEMMA ChecksMove ==
    ASSUME RunShape, Checks
    PROVE  /\ RunShape'
           /\ run'.verb = run.verb /\ run'.platform = run.platform /\ run'.allow = run.allow
           /\ \/ run'.at = NextStage(run) /\ run.at \notin {"image", "pull", "reinspect", "platform", "ok", "stopped", "idle"}
              \/ run'.at = "platform" /\ run.at \in {"image", "reinspect"} /\ image.local = "recorded" /\ UNCHANGED image
              \/ run'.at = "stopped"
              \/ run.at \in {"image", "reinspect"} /\ run'.at = "pull"
              \/ run.at = "pull" /\ run'.at = "reinspect"
  <1>1. CASE Generate BY <1>1, GenerateMoves DEF Moved, Generate
  <1>2. CASE ResolveCredentials BY <1>2, CredentialsMove DEF Moved, ResolveCredentials
  <1>3. CASE CheckHost BY <1>3, HostMoves DEF Moved, CheckHost
  <1>4. CASE ReadStores BY <1>4, StoresMove DEF Moved, ReadStores
  <1>5. CASE Preflight BY <1>5, PreflightMoves DEF Moved, Preflight
  <1>6. CASE ProbeOperatorSecrets BY <1>6, ProbeMoves DEF Moved, ProbeOperatorSecrets
  <1>7. CASE InspectImage BY <1>7, InspectMoves DEF InspectImage
  <1>8. CASE PullImage BY <1>8, PullMoves
  <1> QED BY <1>1, <1>2, <1>3, <1>4, <1>5, <1>6, <1>7, <1>8 DEF Checks

LEMMA ChecksAreLive == Checks => ~Ended
  BY DEF Checks, Ended, Generate, ResolveCredentials, CheckHost, ReadStores, Preflight,
         ProbeOperatorSecrets, InspectImage, PullImage

LEMMA KindNext == ASSUME RunShape, Kind, [Next]_vars PROVE RunShape' /\ Kind'
  <1>1. CASE Validate
    BY <1>1, ValidateMoves DEF Kind, Ended, Verbs, Validate
  <1>2. ASSUME NEW verb \in Verbs, NEW p \in Platforms, NEW allow \in BOOLEAN, Begin(verb, p, allow)
        PROVE  RunShape' /\ Kind'
    <2>1. input' = input /\ input \in Inputs BY <1>2 DEF Begin, Kind
    <2>2. /\ RunShape' /\ run'.verb \in Verbs /\ run'.platform \in Platforms
          /\ run'.at = "generate"
      BY <1>2, BeginMoves
    <2> QED BY <2>1, <2>2 DEF Kind
  <1>3. CASE Checks
    <2>1. input' = input BY <1>3, ChecksKeep
    <2>2. ~Ended BY <1>3, ChecksAreLive
    <2>3. NextStage(run) \in {"ok", "credentials", "preflight", "probe", "platform", "image", "host", "stores"}
      BY DEF NextStage, AfterGenerate, AfterPreflight, AfterCredentials
    <2>4. run.verb \in Verbs /\ run.platform \in Platforms BY <2>2 DEF Kind
    <2>5. CASE run'.at = NextStage(run) /\ run.at \notin {"image", "pull", "reinspect", "platform", "ok", "stopped", "idle"}
      <3>1. /\ NextStage(run) = "probe" => run.platform = "kubernetes"
            /\ NextStage(run) = "host" => run.platform = "docker"
            /\ NextStage(run) \in {"credentials", "stores"} => run.platform # "kubernetes"
            /\ NextStage(run) = "image" => run.platform = "docker" /\ run.verb = "deploy"
        BY <2>4 DEF NextStage, AfterGenerate, AfterPreflight, AfterCredentials, Platforms, Verbs, Kind
      <3>2. /\ run.verb = "generate" => NextStage(run) = "ok"
            /\ run.verb = "remove" => \/ NextStage(run) \in {"preflight", "platform"}
                                      \/ NextStage(run) = "credentials" /\ run.platform = "docker"
        BY <2>4, <2>5 DEF NextStage, AfterGenerate, AfterPreflight, AfterCredentials, Platforms, Verbs, Kind
      <3> QED BY <1>3, <2>1, <2>3, <2>4, <2>5, <3>1, <3>2, ChecksMove DEF Kind
    <2> QED BY <1>3, <2>1, <2>4, <2>5, ChecksMove DEF Kind
  <1>4. CASE Platform BY <1>4, PlatformMoves DEF Kind, Ended
  <1>5. CASE Environment BY <1>5, EnvironmentMoves DEF Kind, Ended
  <1>6. CASE UNCHANGED vars BY <1>6 DEF vars, RunShape, Kind, Ended
  <1> QED BY <1>1, <1>2, <1>3, <1>4, <1>5, <1>6, StepsOf

-----------------------------------------------------------------------------
(***************************************************************************)
(* What the platform's call does, field by field.                          *)
(***************************************************************************)
Pulled == IF image.local = "none" THEN image.remote ELSE image.local

\* The versions of the stores' files stay or grow.
VersionsGrow == \A n \in Names : host'.file[n].ver \in Nat /\ host.file[n].ver <= host'.file[n].ver

LEMMA SetWorld ==
    ASSUME WorldShape, NEW p \in Platforms, NEW STATE x, world' = [world EXCEPT ![p] = x],
           x = [up |-> x.up, allow |-> x.allow, missing |-> x.missing,
                loaded |-> x.loaded, digest |-> x.digest, image |-> x.image, env |-> x.env]
    PROVE  WorldShape' /\ world'[p] = x /\ \A q \in Platforms : q # p => world'[q] = world[q]
  BY DEF WorldShape

LEMMA VersionsStay == HostShape => \A n \in Names : host.file[n].ver \in Nat /\ host.file[n].ver <= host.file[n].ver
  <1>1. \A k \in Nat : k <= k OBVIOUS
  <1>2. HostShape => \A n \in Names : host.file[n].ver \in Nat BY DEF HostShape
  <1> QED BY <1>1, <1>2

LEMMA ComposeUpEffect ==
    ASSUME WorldShape, HostShape, ImageShape, ComposeUp
    PROVE  /\ WorldShape' /\ HostShape' /\ ImageShape' /\ VersionsGrow
           /\ image'.local = Pulled
           /\ \A q \in Platforms : q # "docker" => world'[q] = world[q]
           /\ world'["docker"].up /\ world'["docker"].allow = run.allow /\ world'["docker"].env = SpecEnv
           /\ host'.env = host.env
           /\ \/ world'["docker"] = Container(Pulled)
              \/ /\ world["docker"].up /\ world["docker"].digest = Digest(run) /\ world["docker"].image = Pulled
                 /\ world'["docker"].missing = world["docker"].missing
                 /\ world'["docker"].loaded = world["docker"].loaded
                 /\ world'["docker"].digest = world["docker"].digest
                 /\ world'["docker"].image = world["docker"].image
  <1>0. "docker" \in Platforms BY DEF Platforms
  <1>1. image' = [image EXCEPT !.local = Pulled] BY DEF ComposeUp, Pulled
  <1>2. ImageShape' /\ image'.local = Pulled
    <2> DEFINE l == Pulled
    <2>1. image' = [image EXCEPT !.local = l] BY <1>1
    <2> HIDE DEF l
    <2>2. ImageShape' /\ image'.local = l BY <2>1 DEF ImageShape
    <2> QED BY <2>2 DEF l
  <1>3. PICK chance \in BOOLEAN :
           IF chance \/ ~world["docker"].up \/ world["docker"].digest # Digest(run) \/ world["docker"].image # Pulled
           THEN /\ world' = [world EXCEPT !["docker"] = Container(Pulled)]
                /\ host' = [host EXCEPT !.file = [n \in Names |->
                               IF n \in Container(Pulled).missing THEN [@[n] EXCEPT !.state = "dir"] ELSE @[n]]]
           ELSE /\ world' = [world EXCEPT !["docker"].allow = run.allow, !["docker"].env = SpecEnv]
                /\ UNCHANGED host
    BY DEF ComposeUp, Pulled
  <1>4. CASE chance \/ ~world["docker"].up \/ world["docker"].digest # Digest(run) \/ world["docker"].image # Pulled
    <2> DEFINE x == Container(Pulled)
               file == [n \in Names |-> IF n \in x.missing THEN [host.file[n] EXCEPT !.state = "dir"] ELSE host.file[n]]
    <2>1. world' = [world EXCEPT !["docker"] = x] BY <1>3, <1>4
    <2>2. host' = [host EXCEPT !.file = file] BY <1>3, <1>4
    <2>3. /\ x = [up |-> x.up, allow |-> x.allow, missing |-> x.missing,
                  loaded |-> x.loaded, digest |-> x.digest, image |-> x.image, env |-> x.env]
          /\ x.up /\ x.allow = run.allow /\ x.env = SpecEnv
      BY DEF Container
    <2>4. \A n \in Names : /\ file[n] = [state |-> file[n].state, ver |-> file[n].ver]
                          /\ file[n].ver = host.file[n].ver
      <3> SUFFICES ASSUME NEW n \in Names
                   PROVE  /\ file[n] = [state |-> file[n].state, ver |-> file[n].ver]
                          /\ file[n].ver = host.file[n].ver
        OBVIOUS
      <3>1. host.file[n] = [state |-> host.file[n].state, ver |-> host.file[n].ver] BY DEF HostShape
      <3>2. CASE n \in x.missing
        <4> DEFINE g == file[n]
        <4>1. g = [host.file[n] EXCEPT !.state = "dir"] BY <3>2
        <4> HIDE DEF g, file, x
        <4>2. g = [state |-> "dir", ver |-> host.file[n].ver] BY <3>1, <4>1
        <4>3. g = [state |-> g.state, ver |-> g.ver] /\ g.ver = host.file[n].ver BY <4>2
        <4> QED BY <4>3 DEF g
      <3>3. CASE n \notin x.missing
        <4>1. file[n] = host.file[n] BY <3>3
        <4> HIDE DEF file
        <4> QED BY <3>1, <4>1
      <3> QED BY <3>2, <3>3
    <2>5. file = [n \in Names |-> file[n]] OBVIOUS
    <2> HIDE DEF x, file
    <2>6. host' = [env |-> host'.env, file |-> host'.file] /\ host'.file = file /\ host'.env = host.env
      BY <2>2 DEF HostShape
    <2>7. HostShape' /\ VersionsGrow
      <3>1. \A n \in Names : file[n].ver \in Nat /\ host.file[n].ver <= file[n].ver
        BY <2>4, VersionsStay
      <3> QED BY <2>4, <2>5, <2>6, <3>1 DEF HostShape, VersionsGrow
    <2>8. WorldShape' /\ world'["docker"] = x /\ \A q \in Platforms : q # "docker" => world'[q] = world[q]
      BY <1>0, <2>1, <2>3, SetWorld
    <2> QED BY <1>2, <2>3, <2>6, <2>7, <2>8 DEF x
  <1>5. CASE ~(chance \/ ~world["docker"].up \/ world["docker"].digest # Digest(run) \/ world["docker"].image # Pulled)
    <2> DEFINE e == SpecEnv
               x == [world["docker"] EXCEPT !.allow = run.allow, !.env = e]
    <2>1. world' = [world EXCEPT !["docker"].allow = run.allow, !["docker"].env = e] /\ UNCHANGED host BY <1>3, <1>5
    <2> HIDE DEF e
    <2>2. world' = [world EXCEPT !["docker"] = x] BY <1>0, <2>1 DEF WorldShape
    <2>3. x = [world["docker"] EXCEPT !.allow = run.allow, !.env = e] OBVIOUS
    <2> HIDE DEF x
    <2>4. x = [up |-> world["docker"].up, allow |-> run.allow, missing |-> world["docker"].missing,
               loaded |-> world["docker"].loaded, digest |-> world["docker"].digest, image |-> world["docker"].image,
               env |-> e]
      <3> DEFINE w == world["docker"]
      <3>1. w = [up |-> w.up, allow |-> w.allow, missing |-> w.missing, loaded |-> w.loaded,
                 digest |-> w.digest, image |-> w.image, env |-> w.env]
        BY <1>0 DEF WorldShape
      <3>2. x = [w EXCEPT !.allow = run.allow, !.env = e] BY <2>3
      <3> HIDE DEF w
      <3>3. x = [up |-> w.up, allow |-> run.allow, missing |-> w.missing, loaded |-> w.loaded,
                 digest |-> w.digest, image |-> w.image, env |-> e]
        BY <3>1, <3>2
      <3> QED BY <3>3 DEF w
    <2>5. x = [up |-> x.up, allow |-> x.allow, missing |-> x.missing,
               loaded |-> x.loaded, digest |-> x.digest, image |-> x.image, env |-> x.env]
      BY <2>4
    <2>6. WorldShape' /\ world'["docker"] = x /\ \A q \in Platforms : q # "docker" => world'[q] = world[q]
      BY <1>0, <2>2, <2>5, SetWorld
    <2>7. HostShape' /\ VersionsGrow
      <3>1. HostShape' BY <2>1 DEF HostShape
      <3> QED BY <2>1, <3>1, VersionsStay DEF VersionsGrow
    <2>8. /\ x.up = world["docker"].up /\ x.allow = run.allow /\ x.missing = world["docker"].missing
          /\ x.loaded = world["docker"].loaded /\ x.digest = world["docker"].digest
          /\ x.image = world["docker"].image /\ x.env = e
      BY <2>4
    <2>9. world["docker"].up /\ world["docker"].digest = Digest(run) /\ world["docker"].image = Pulled BY <1>5
    <2>10. host'.env = host.env BY <2>1
    <2> QED BY <1>2, <2>6, <2>7, <2>8, <2>9, <2>10 DEF e
  <1> QED BY <1>4, <1>5

\* The other calls set what one platform runs.
LEMMA CallEffect ==
    ASSUME WorldShape, Kind, run.verb \in Verbs, CallPlatform, ~(run.verb = "deploy" /\ run.platform = "docker")
    PROVE  /\ WorldShape' /\ UNCHANGED <<host, image>>
           /\ world'[run.platform] = IF run.verb = "deploy" THEN Applied ELSE Down
           /\ \A q \in Platforms : q # run.platform => world'[q] = world[q]
  <1> DEFINE x == IF run.verb = "deploy" THEN Applied ELSE Down
  <1>1. world' = [world EXCEPT ![run.platform] = x] /\ UNCHANGED <<host, image>> BY DEF CallPlatform
  <1>2. x = [up |-> x.up, allow |-> x.allow, missing |-> x.missing,
             loaded |-> x.loaded, digest |-> x.digest, image |-> x.image, env |-> x.env]
    BY DEF Applied, Down
  <1>3. run.platform \in Platforms BY DEF Kind
  <1> HIDE DEF x
  <1>4. WorldShape' /\ world'[run.platform] = x /\ \A q \in Platforms : q # run.platform => world'[q] = world[q]
    BY <1>1, <1>2, <1>3, SetWorld
  <1> QED BY <1>1, <1>4 DEF x

LEMMA EnvironmentHost ==
    ASSUME HostShape, ImageShape, Environment PROVE HostShape' /\ ImageShape' /\ VersionsGrow
  <1>1. CASE \E v \in Vars, value \in EnvStates : ExportVariable(v, value)
    <2>1. PICK v \in Vars, value \in EnvStates : ExportVariable(v, value) BY <1>1
    <2>2. host' = [host EXCEPT !.env[v] = value] /\ UNCHANGED image BY <2>1 DEF ExportVariable
    <2> DEFINE e == [host.env EXCEPT ![v] = value]
    <2>3. host' = [host EXCEPT !.env = e] BY <2>2
    <2> HIDE DEF e
    <2>4. host' = [env |-> host'.env, file |-> host'.file] /\ host'.file = host.file BY <2>3 DEF HostShape
    <2>5. HostShape' BY <2>4 DEF HostShape
    <2> QED BY <2>2, <2>4, <2>5, VersionsStay DEF VersionsGrow, ImageShape
  <1>2. CASE \E n \in Names, state \in FileStates : ReplaceStore(n, state)
    <2>1. PICK n \in Names, state \in FileStates : ReplaceStore(n, state) BY <1>2
    <2> DEFINE new == [state |-> state, ver |-> host.file[n].ver + 1]
               file == [host.file EXCEPT ![n] = new]
    <2>2. host' = [host EXCEPT !.file = file] /\ UNCHANGED image BY <2>1 DEF ReplaceStore
    <2>3. new = [state |-> new.state, ver |-> new.ver] /\ new.ver = host.file[n].ver + 1 OBVIOUS
    <2>4. \A k \in Nat : k + 1 \in Nat /\ k <= k + 1 OBVIOUS
    <2>5. new.ver \in Nat /\ host.file[n].ver <= new.ver BY <2>3, <2>4, VersionsStay
    <2> HIDE DEF new
    <2>6. /\ file = [m \in Names |-> file[m]] /\ file[n] = new
          /\ \A m \in Names : m # n => file[m] = host.file[m]
      BY DEF HostShape
    <2>7. \A m \in Names : /\ file[m] = [state |-> file[m].state, ver |-> file[m].ver]
                          /\ file[m].ver \in Nat /\ host.file[m].ver <= file[m].ver
      <3> SUFFICES ASSUME NEW m \in Names
                   PROVE  /\ file[m] = [state |-> file[m].state, ver |-> file[m].ver]
                          /\ file[m].ver \in Nat /\ host.file[m].ver <= file[m].ver
        OBVIOUS
      <3> HIDE DEF file
      <3>1. CASE m = n BY <3>1, <2>3, <2>5, <2>6
      <3>2. CASE m # n
        <4>1. file[m] = host.file[m] BY <3>2, <2>6
        <4>2. file[m] = [state |-> file[m].state, ver |-> file[m].ver] BY <4>1 DEF HostShape
        <4> QED BY <4>1, <4>2, VersionsStay
      <3> QED BY <3>1, <3>2
    <2> HIDE DEF file
    <2>8. host' = [env |-> host'.env, file |-> host'.file] /\ host'.file = file BY <2>2 DEF HostShape
    <2>9. HostShape' /\ VersionsGrow BY <2>6, <2>7, <2>8 DEF HostShape, VersionsGrow
    <2> QED BY <2>2, <2>9 DEF ImageShape
  <1>3. CASE \E s \in {"stores", "credentials"}, state \in SecretStates : ChangeSecret(s, state)
    <2>1. UNCHANGED <<host, image>> BY <1>3 DEF ChangeSecret
    <2>2. HostShape' BY <2>1 DEF HostShape
    <2> QED BY <2>1, <2>2, VersionsStay DEF VersionsGrow, ImageShape
  <1>4. CASE \E local \in Images \cup {"none"}, remote \in Images : MoveImage(local, remote)
    <2>1. UNCHANGED host /\ ImageShape' BY <1>4 DEF MoveImage, ImageShape
    <2>2. HostShape' BY <2>1 DEF HostShape
    <2> QED BY <2>1, <2>2, VersionsStay DEF VersionsGrow
  <1> QED BY <1>1, <1>2, <1>3, <1>4 DEF Environment

LEMMA StillHost == ASSUME Shape, UNCHANGED <<host, image>> PROVE HostShape' /\ ImageShape' /\ VersionsGrow
  <1>1. HostShape' /\ ImageShape' BY DEF Shape, HostShape, ImageShape
  <1> QED BY <1>1, VersionsStay DEF Shape, VersionsGrow

\* What the platform's call does to the host.
LEMMA PlatformHost ==
    ASSUME Shape, Kind, Platform PROVE WorldShape' /\ HostShape' /\ ImageShape' /\ VersionsGrow
  <1>1. run.verb \in Verbs BY PlatformMoves DEF Shape, Kind, Ended
  <1>2. CASE CallPlatform /\ run.verb = "deploy" /\ run.platform = "docker"
    <2>1. ComposeUp BY <1>2 DEF CallPlatform
    <2> QED BY <2>1, ComposeUpEffect DEF Shape
  <1>3. CASE CallPlatform /\ ~(run.verb = "deploy" /\ run.platform = "docker")
    BY <1>1, <1>3, CallEffect, StillHost DEF Shape
  <1>4. CASE UNCHANGED <<world, host, image, clean>>
    <2>1. WorldShape' BY <1>4 DEF Shape, WorldShape
    <2> QED BY <1>4, <2>1, StillHost
  <1> QED BY <1>2, <1>3, <1>4, PlatformMoves DEF Shape

LEMMA ShapeNext == ASSUME Shape, Kind, [Next]_vars PROVE Shape' /\ Kind' /\ VersionsGrow
  <1>1. RunShape' /\ Kind' BY KindNext DEF Shape
  <1>2. CASE Platform BY <1>1, <1>2, PlatformHost DEF Shape
  <1>3. CASE Environment
    <2>1. WorldShape' BY <1>3, EnvironmentMoves DEF Shape, WorldShape
    <2> QED BY <1>1, <1>3, <2>1, EnvironmentHost DEF Shape
  <1>4. CASE PullImage
    <2>1. UNCHANGED <<host, world>> BY <1>4 DEF PullImage
    <2>2. ImageShape' BY <1>4, PullMoves DEF Shape, ImageShape
    <2>3. WorldShape' /\ HostShape' BY <2>1 DEF Shape, WorldShape, HostShape
    <2> QED BY <1>1, <2>1, <2>2, <2>3, VersionsStay DEF Shape, VersionsGrow
  <1>5. ASSUME UNCHANGED <<host, world, image>> PROVE Shape' /\ VersionsGrow
    <2>1. WorldShape' BY <1>5 DEF Shape, WorldShape
    <2> QED BY <1>1, <1>5, <2>1, StillHost DEF Shape
  <1>6. Validate \/ (Checks /\ ~PullImage) \/ UNCHANGED vars => UNCHANGED <<host, world, image>>
    BY DEF Validate, Checks, Generate, ResolveCredentials, CheckHost, ReadStores, Preflight,
           ProbeOperatorSecrets, InspectImage, vars
  <1>7. (\E verb \in Verbs, p \in Platforms, allow \in BOOLEAN : Begin(verb, p, allow))
            => UNCHANGED <<host, world, image>>
    BY DEF Begin
  <1> QED BY <1>1, <1>2, <1>3, <1>4, <1>5, <1>6, <1>7, StepsOf

-----------------------------------------------------------------------------
(***************************************************************************)
(* ServesWhatItRead.  A docker container that is up has loaded, of every   *)
(* store it finds, at least the version its digest label stands for: what  *)
(* compose keeps for the sake of an equal digest is then not older than    *)
(* what was read.                                                          *)
(***************************************************************************)
ReadBound ==
    /\ run.read \in [Names -> Nat]
    /\ \A n \in Names : run.read[n] <= host.file[n].ver
    /\ run.platform = "docker" => \A n \in Names \ (MadeHere \cup Mounted) : run.read[n] = 0
LoadedBound ==
    world["docker"].up =>
        \A n \in Selected \ world["docker"].missing : world["docker"].loaded[n] >= world["docker"].digest[n]
Served == ReadBound /\ LoadedBound /\ ServesWhatItRead

LEMMA ReadNowBound ==
    ASSUME HostShape, NEW STATE S
    PROVE  /\ ReadNow(S) \in [Names -> Nat]
           /\ \A n \in Names : ReadNow(S)[n] <= host.file[n].ver
           /\ \A n \in Names \ S : ReadNow(S)[n] = 0
  <1>1. \A n \in Names : host.file[n].ver \in Nat /\ host.file[n].ver <= host.file[n].ver BY VersionsStay
  <1>2. \A k \in Nat : 0 <= k OBVIOUS
  <1>3. \A n \in Names : ReadNow(S)[n] = IF n \in S THEN host.file[n].ver ELSE 0 BY DEF ReadNow
  <1>4. \A n \in Names : ReadNow(S)[n] \in Nat /\ ReadNow(S)[n] <= host.file[n].ver
    <2> TAKE n \in Names
    <2>1. CASE n \in S BY <1>1, <1>3, <2>1
    <2>2. CASE n \notin S
      <3>1. ReadNow(S)[n] = 0 BY <1>3, <2>2
      <3> QED BY <1>1, <1>2, <3>1
    <2> QED BY <2>1, <2>2
  <1>5. ReadNow(S) \in [Names -> Nat] BY <1>4 DEF ReadNow
  <1> QED BY <1>3, <1>4, <1>5

LEMMA UnreadBound ==
    ASSUME HostShape
    PROVE  Unread \in [Names -> Nat] /\ \A n \in Names : Unread[n] = 0 /\ Unread[n] <= host.file[n].ver
  <1>1. \A k \in Nat : 0 <= k OBVIOUS
  <1>2. \A n \in Names : Unread[n] = 0 BY DEF Unread
  <1>3. \A n \in Names : host.file[n].ver \in Nat BY VersionsStay
  <1> QED BY <1>1, <1>2, <1>3 DEF Unread

LEMMA ReadBoundNext == ASSUME Shape, Kind, ReadBound, [Next]_vars PROVE ReadBound'
  <1>0. HostShape /\ RunShape /\ VersionsGrow BY ShapeNext DEF Shape
  <1>1. ASSUME UNCHANGED <<host, input>>, run'.read = Unread PROVE ReadBound'
    BY <1>0, <1>1, UnreadBound DEF ReadBound, Names
  <1>2. ASSUME NEW STATE S, UNCHANGED <<host, input>>, run'.read = ReadNow(S),
               run'.platform = "docker" => S \subseteq MadeHere \cup Mounted
        PROVE  ReadBound'
    <2>1. MadeHere' = MadeHere /\ Mounted' = Mounted BY <1>2 DEF MadeHere, Mounted, Selected
    <2>2. /\ ReadNow(S) \in [Names -> Nat]
          /\ \A n \in Names : ReadNow(S)[n] <= host.file[n].ver
          /\ \A n \in Names \ S : ReadNow(S)[n] = 0
      BY <1>0, ReadNowBound
    <2> DEFINE x == ReadNow(S)
    <2>3. run'.read = x BY <1>2
    <2> HIDE DEF x
    <2> QED BY <1>2, <2>1, <2>2, <2>3 DEF ReadBound, x
  <1>3. ASSUME input' = input, run'.read = run.read, run'.platform = run.platform PROVE ReadBound'
    <2>1. MadeHere' = MadeHere /\ Mounted' = Mounted BY <1>3 DEF MadeHere, Mounted, Selected
    <2>2. \A n \in Names : run.read[n] <= host'.file[n].ver
      <3> TAKE n \in Names
      <3>1. /\ run.read[n] \in Nat /\ run.read[n] <= host.file[n].ver
            /\ host.file[n].ver <= host'.file[n].ver
            /\ host.file[n].ver \in Nat /\ host'.file[n].ver \in Nat
        BY <1>0, VersionsStay DEF ReadBound, VersionsGrow
      <3>2. \A i, j, k \in Nat : i <= j /\ j <= k => i <= k OBVIOUS
      <3> QED BY <3>1, <3>2
    <2> QED BY <1>3, <2>1, <2>2 DEF ReadBound
  <1>4. CASE Validate
    <2>1. UNCHANGED <<host, input>> BY <1>4 DEF Validate
    <2> QED BY <1>1, <1>4, <2>1, ValidateMoves
  <1>5. ASSUME NEW verb \in Verbs, NEW p \in Platforms, NEW allow \in BOOLEAN, Begin(verb, p, allow)
        PROVE  ReadBound'
    <2>1. UNCHANGED <<host, input>> BY <1>5 DEF Begin
    <2> QED BY <1>1, <1>5, <2>1, BeginMoves
  <1>6. CASE Checks
    <2>1. UNCHANGED <<host, input>> BY <1>6, ChecksKeep
    <2>2. CASE Generate
      <3> DEFINE S == IF run.platform = "kubernetes" /\ ~Teardown(run) THEN Own ELSE {}
      <3>1. run'.read = ReadNow(S) /\ run'.platform = run.platform BY <1>0, <2>2, GenerateMoves DEF Moved
      <3>2. run'.platform = "docker" => S \subseteq MadeHere \cup Mounted BY <3>1
      <3> HIDE DEF S
      <3> QED BY <1>2, <2>1, <3>1, <3>2
    <2>3. CASE ReadStores
      <3>1. CASE run.platform = "docker"
        <4>1. run'.read = ReadNow(DockerReads) BY <1>0, <2>3, <3>1, StoresMove DEF Moved
        <4>2. DockerReads \subseteq MadeHere \cup Mounted BY DEF DockerReads
        <4> QED BY <1>2, <2>1, <4>1, <4>2
      <3>2. CASE run.platform # "docker"
        <4>1. run'.read = ReadNow(Selected) /\ run'.platform = run.platform
          BY <1>0, <2>3, <3>2, StoresMove DEF Moved
        <4> QED BY <1>2, <2>1, <3>2, <4>1
      <3> QED BY <3>1, <3>2
    <2>4. CASE ResolveCredentials \/ CheckHost \/ Preflight \/ ProbeOperatorSecrets
      <3>1. run'.read = run.read /\ run'.platform = run.platform
        BY <1>0, <2>4, CredentialsMove, HostMoves, PreflightMoves, ProbeMoves DEF Moved
      <3> QED BY <1>3, <2>1, <3>1
    <2>5. CASE InspectImage \/ PullImage
      <3>1. run'.read = run.read /\ run'.platform = run.platform BY <1>0, <2>5, InspectMoves, PullMoves
      <3> QED BY <1>3, <2>1, <3>1
    <2> QED BY <1>6, <2>2, <2>3, <2>4, <2>5 DEF Checks
  <1>7. CASE Platform BY <1>0, <1>3, <1>7, PlatformMoves
  <1>8. CASE Environment BY <1>0, <1>3, <1>8, EnvironmentMoves
  <1>9. CASE UNCHANGED vars BY <1>3, <1>9 DEF vars
  <1> QED BY <1>4, <1>5, <1>6, <1>7, <1>8, <1>9, StepsOf

LEMMA SelectedNames == ASSUME Kind PROVE Selected \subseteq Names
  BY InputsAssumption DEF Kind, Selected, Names

\* A container of its own loads what was read, or what is mounted now.
LEMMA ContainerLoads ==
    ASSUME Kind, HostShape, ReadBound, run.platform = "docker", NEW STATE img,
           NEW n \in Selected, n \notin Container(img).missing
    PROVE  /\ Container(img).digest[n] = run.read[n]
           /\ Container(img).loaded[n] >= run.read[n]
  <1>1. n \in Names BY SelectedNames
  <1>2. run.read[n] \in Nat /\ run.read[n] <= host.file[n].ver /\ host.file[n].ver \in Nat
    BY <1>1, VersionsStay DEF ReadBound
  <1>3. Container(img).digest[n] = run.read[n] BY DEF Container, Digest
  <1>4. Container(img).loaded[n] = IF n \in MadeHere THEN run.read[n]
                                  ELSE IF n \in Mounted THEN host.file[n].ver ELSE 0
    BY <1>1 DEF Container
  <1>5. CASE n \in MadeHere
    <2>1. Container(img).loaded[n] = run.read[n] BY <1>4, <1>5
    <2> QED BY <1>2, <1>3, <2>1
  <1>6. CASE n \notin MadeHere /\ n \in Mounted
    <2>1. Container(img).loaded[n] = host.file[n].ver BY <1>4, <1>6
    <2> QED BY <1>2, <1>3, <2>1
  <1>7. CASE n \notin MadeHere /\ n \notin Mounted
    <2>1. Container(img).loaded[n] = 0 BY <1>4, <1>7
    <2>2. run.read[n] = 0 BY <1>1, <1>7 DEF ReadBound
    <2> QED BY <1>3, <2>1, <2>2
  <1> QED BY <1>5, <1>6, <1>7

\* Only the platform's call, or generate, ends a verb well.
LEMMA EndsWell ==
    ASSUME Shape, Kind, [Next]_vars, ~Platform, run'.at = "ok", run'.verb = "deploy"
    PROVE  run'.platform = run.platform /\ run.at = "ok" /\ run.verb = "deploy"
           /\ run'.read = run.read /\ UNCHANGED <<input, world>>
  <1>1. CASE Validate BY <1>1, ValidateMoves
  <1>2. CASE \E verb \in Verbs, p \in Platforms, allow \in BOOLEAN : Begin(verb, p, allow) BY <1>2, BeginMoves
  <1>3. CASE Checks
    <2>1. ~Ended BY <1>3, ChecksAreLive
    <2>2. run'.verb = run.verb /\ run'.at = NextStage(run) BY <1>3, ChecksMove DEF Shape
    <2>3. NextStage(run) # "ok" BY <2>2 DEF NextStage, AfterGenerate, AfterPreflight, AfterCredentials
    <2> QED BY <2>2, <2>3
  <1>4. CASE Environment BY <1>4, EnvironmentMoves DEF Shape
  <1>5. CASE UNCHANGED vars BY <1>5 DEF vars
  <1> QED BY <1>1, <1>2, <1>3, <1>4, <1>5, StepsOf

LEMMA WorldStays == ASSUME Shape, Kind, [Next]_vars, ~Platform PROVE UNCHANGED <<input, world>>
  BY StepsOf, ChecksKeep, EnvironmentMoves DEF Validate, Begin, vars, Shape

LEMMA ServedNext == ASSUME Shape, Kind, Served, [Next]_vars PROVE Served'
  <1>0. ReadBound' BY ReadBoundNext DEF Served
  <1>1. CASE ~Platform
    <2>1. UNCHANGED <<input, world>> BY <1>1, WorldStays
    <2>2. LoadedBound' BY <2>1 DEF Served, LoadedBound, Selected
    <2>3. ServesWhatItRead' BY <1>1, <2>1, EndsWell DEF Served, ServesWhatItRead, Selected
    <2> QED BY <1>0, <2>2, <2>3 DEF Served
  <1>2. CASE Platform
    <2>0. /\ input' = input /\ run'.platform = run.platform /\ run'.verb = run.verb /\ run'.read = run.read
          /\ run.verb \in Verbs /\ run.platform \in Platforms
      BY <1>2, PlatformMoves DEF Shape, Kind, Ended
    <2>1. CASE CallPlatform /\ run.verb = "deploy" /\ run.platform = "docker"
      <3>1. ComposeUp BY <2>1 DEF CallPlatform
      <3>2. CASE world'["docker"] = Container(Pulled)
        <4> DEFINE img == Pulled  c == Container(img)
        <4>1. \A n \in Selected \ c.missing : c.digest[n] = run.read[n] /\ c.loaded[n] >= run.read[n]
          BY <2>1, ContainerLoads DEF Shape, Served
        <4>2. world'["docker"] = c BY <3>2
        <4>3. Selected' = Selected BY <2>0 DEF Selected
        <4> HIDE DEF c
        <4>4. LoadedBound' BY <4>1, <4>2, <4>3 DEF LoadedBound
        <4>5. ServesWhatItRead' BY <2>0, <2>1, <4>1, <4>2, <4>3 DEF ServesWhatItRead
        <4> QED BY <1>0, <4>4, <4>5 DEF Served
      <3>3. CASE /\ world["docker"].up /\ world["docker"].digest = Digest(run)
                 /\ world'["docker"].missing = world["docker"].missing
                 /\ world'["docker"].loaded = world["docker"].loaded
                 /\ world'["docker"].digest = world["docker"].digest
        <4>1. world["docker"].digest = run.read BY <3>3 DEF Digest
        <4>2. LoadedBound' BY <2>0, <3>3 DEF Served, LoadedBound, Selected
        <4>3. ServesWhatItRead' BY <2>0, <2>1, <3>3, <4>1 DEF Served, LoadedBound, ServesWhatItRead, Selected
        <4> QED BY <1>0, <4>2, <4>3 DEF Served
      <3> QED BY <3>1, <3>2, <3>3, ComposeUpEffect DEF Shape
    <2>2. CASE CallPlatform /\ ~(run.verb = "deploy" /\ run.platform = "docker")
      <3>1. /\ world'[run.platform] = IF run.verb = "deploy" THEN Applied ELSE Down
            /\ \A q \in Platforms : q # run.platform => world'[q] = world[q]
        BY <2>0, <2>2, CallEffect DEF Shape
      <3>2. LoadedBound'
        <4>1. CASE run.platform = "docker"
          <5>1. world'["docker"] = Down BY <2>2, <3>1, <4>1
          <5> QED BY <5>1 DEF LoadedBound, Down
        <4>2. CASE run.platform # "docker"
          <5>1. world'["docker"] = world["docker"] BY <3>1, <4>2 DEF Platforms
          <5> QED BY <2>0, <5>1 DEF Served, LoadedBound, Selected
        <4> QED BY <4>1, <4>2
      <3>3. ServesWhatItRead'
        <4>1. CASE run.verb = "deploy"
          <5>1. world'[run.platform].loaded = run.read BY <3>1, <4>1 DEF Applied
          <5>2. \A n \in Names : run.read[n] \in Nat BY DEF Served, ReadBound
          <5>3. \A k \in Nat : k >= k OBVIOUS
          <5>4. Selected' \subseteq Names BY <2>0, SelectedNames DEF Selected
          <5> QED BY <2>0, <5>1, <5>2, <5>3, <5>4 DEF ServesWhatItRead
        <4>2. CASE run.verb # "deploy" BY <2>0, <4>2 DEF ServesWhatItRead
        <4> QED BY <4>1, <4>2
      <3> QED BY <1>0, <3>2, <3>3 DEF Served
    <2>3. CASE run'.at = "stopped" /\ UNCHANGED <<world, host, image, clean>>
      <3>1. LoadedBound' BY <2>0, <2>3 DEF Served, LoadedBound, Selected
      <3>2. ServesWhatItRead' BY <2>3 DEF ServesWhatItRead
      <3> QED BY <1>0, <3>1, <3>2 DEF Served
    <2> QED BY <1>2, <2>1, <2>2, <2>3, PlatformMoves DEF Shape
  <1> QED BY <1>1, <1>2

\* A docker deploy that ends well leaves a container that has loaded the stores
\* the deploy read or later ones, whatever is replaced while it runs, for any
\* specs, stores and number of verbs: the digest label that decides whether the
\* container stays covers everything that was read (ResolveDockerStores).
THEOREM ServesRead == Spec => []ServesWhatItRead
  <1>1. Init => Shape /\ Kind /\ Served
    <2> SUFFICES ASSUME Init PROVE Shape /\ Kind /\ Served OBVIOUS
    <2>1. Shape /\ Kind BY ShapeInit
    <2>2. run.read = Unread /\ run.at = "idle" BY DEF Init, Idle
    <2>3. ReadBound BY <2>1, <2>2, UnreadBound DEF ReadBound, Shape
    <2>4. LoadedBound
      <3>1. "docker" \in Platforms BY DEF Platforms
      <3>2. ~world["docker"].up BY <3>1 DEF Init, Down
      <3> QED BY <3>2 DEF LoadedBound
    <2>5. ServesWhatItRead BY <2>2 DEF ServesWhatItRead
    <2> QED BY <2>1, <2>3, <2>4, <2>5 DEF Served
  <1>2. Shape /\ Kind /\ Served /\ [Next]_vars => (Shape /\ Kind /\ Served)' BY ShapeNext, ServedNext
  <1>3. Served => ServesWhatItRead BY DEF Served
  <1> QED BY <1>1, <1>2, <1>3, PTL DEF Spec

-----------------------------------------------------------------------------
(***************************************************************************)
(* HandsOver.  A docker deploy with created stores reaches the platform's  *)
(* call by way of an inspection that found the recorded image, and whoever *)
(* moves the tag after it leaves a trace in raced.                         *)
(***************************************************************************)
Carries   == run.verb = "deploy" /\ run.platform = "docker" /\ MadeHere # {} /\ "image" \notin run.raced
Inspected == run.at = "platform" /\ Carries => image.local = "recorded"

LEMMA EnvironmentImage ==
    ASSUME RunShape, Environment, "image" \notin run'.raced
    PROVE  Ended \/ (image' = image /\ "image" \notin run.raced)
  <1>1. CASE \E local \in Images \cup {"none"}, remote \in Images : MoveImage(local, remote)
    <2>1. Change("image") BY <1>1 DEF MoveImage
    <2> QED BY <2>1, ChangeMoves
  <1>2. ASSUME UNCHANGED image, \E what : Change(what) PROVE Ended \/ (image' = image /\ "image" \notin run.raced)
    BY <1>2, ChangeMoves
  <1>3. CASE \E v \in Vars, value \in EnvStates : ExportVariable(v, value)
    BY <1>2, <1>3 DEF ExportVariable
  <1>4. CASE \E n \in Names, state \in FileStates : ReplaceStore(n, state)
    BY <1>2, <1>4 DEF ReplaceStore
  <1>5. CASE \E s \in {"stores", "credentials"}, state \in SecretStates : ChangeSecret(s, state)
    BY <1>2, <1>5 DEF ChangeSecret
  <1> QED BY <1>1, <1>3, <1>4, <1>5 DEF Environment

LEMMA EnvironmentEnded == ASSUME RunShape, Environment, Ended PROVE run' = run
  <1>1. \E what : Change(what) BY DEF Environment, ExportVariable, ReplaceStore, ChangeSecret, MoveImage
  <1> QED BY <1>1, ChangeMoves

LEMMA InspectedNext == ASSUME Shape, Kind, Inspected, [Next]_vars PROVE Inspected'
  <1> SUFFICES ASSUME run'.at = "platform", Carries' PROVE image'.local = "recorded" BY DEF Inspected
  <1>0. MadeHere' = MadeHere
    <2>1. input' = input
      BY StepsOf, ChecksKeep, EnvironmentMoves, PlatformMoves DEF Shape, Validate, Begin, vars
    <2> QED BY <2>1 DEF MadeHere, Selected
  <1>1. CASE Validate BY <1>1, ValidateMoves
  <1>2. CASE \E verb \in Verbs, p \in Platforms, allow \in BOOLEAN : Begin(verb, p, allow) BY <1>2, BeginMoves
  <1>3. CASE Checks
    <2>1. run.verb = "deploy" /\ run.platform = "docker" /\ MadeHere # {}
      BY <1>0, <1>3, ChecksMove DEF Shape, Carries
    <2>2. run.at # "probe" BY <2>1 DEF Kind
    <2>3. run.at \in {"generate", "preflight", "credentials", "host", "stores"} => NextStage(run) # "platform"
      BY <2>1 DEF NextStage, AfterGenerate, AfterPreflight, AfterCredentials
    <2>4. run.at \in {"generate", "preflight", "credentials", "host", "stores", "probe", "image", "reinspect", "pull"}
      BY <1>3 DEF Checks, Generate, ResolveCredentials, CheckHost, ReadStores, Preflight,
                  ProbeOperatorSecrets, InspectImage, PullImage
    <2> QED BY <1>3, <2>2, <2>3, <2>4, ChecksMove DEF Shape
  <1>4. CASE Platform BY <1>4, PlatformMoves DEF Shape
  <1>5. CASE Environment
    <2>1. run.at = "platform" /\ run.verb = "deploy" /\ run.platform = "docker"
      BY <1>5, EnvironmentMoves DEF Shape, Carries
    <2>2. image' = image /\ "image" \notin run.raced BY <1>5, <2>1, EnvironmentImage DEF Shape, Carries, Ended
    <2> QED BY <1>0, <2>1, <2>2 DEF Inspected, Carries
  <1>6. CASE UNCHANGED vars BY <1>6 DEF vars, Inspected, Carries, MadeHere, Selected
  <1> QED BY <1>1, <1>2, <1>3, <1>4, <1>5, <1>6, StepsOf

LEMMA HandsOverNext == ASSUME Shape, Kind, Inspected, HandsOver, [Next]_vars PROVE HandsOver'
  <1> SUFFICES ASSUME run'.at = "ok", run'.verb = "deploy", run'.platform = "docker", MadeHere' # {},
                      "image" \notin run'.raced
               PROVE  world'["docker"].image = "recorded"
    BY DEF HandsOver
  <1>1. CASE Platform
    <2>1. /\ run.at = "platform" /\ run.verb = "deploy" /\ run.platform = "docker" /\ "image" \notin run.raced
          /\ CallPlatform /\ input' = input
      BY <1>1, PlatformMoves DEF Shape
    <2>2. MadeHere # {} BY <2>1 DEF MadeHere, Selected
    <2>3. image.local = "recorded" BY <2>1, <2>2 DEF Inspected, Carries
    <2>4. ComposeUp BY <2>1 DEF CallPlatform
    <2>5. Pulled = "recorded" BY <2>3 DEF Pulled
    <2>6. Container(Pulled).image = Pulled BY DEF Container
    <2> QED BY <2>4, <2>5, <2>6, ComposeUpEffect DEF Shape
  <1>2. CASE ~Platform
    <2>1. UNCHANGED <<input, world>> BY <1>2, WorldStays
    <2>2. run.at = "ok" /\ run.verb = "deploy" /\ run.platform = "docker" BY <1>2, EndsWell
    <2>3. MadeHere # {} BY <2>1 DEF MadeHere, Selected
    <2>4. run' = run
      <3>1. Ended BY <2>2 DEF Ended
      <3>2. ~Checks BY <3>1, ChecksAreLive
      <3>3. ~Validate BY ValidateMoves
      <3>4. ~(\E verb \in Verbs, p \in Platforms, allow \in BOOLEAN : Begin(verb, p, allow)) BY BeginMoves
      <3>5. Environment \/ UNCHANGED vars BY <1>2, <3>2, <3>3, <3>4, StepsOf
      <3> QED BY <3>1, <3>5, EnvironmentEnded DEF Shape, vars
    <2> QED BY <2>1, <2>2, <2>3, <2>4 DEF HandsOver
  <1> QED BY <1>1, <1>2

\* A docker container whose entrypoint decodes created stores runs an image that
\* starts with the command the entrypoint hands over to, unless the tag moved at
\* the engine after it was inspected: also when the engine had no image, or did
\* not answer, and the image was pulled (checkImageCommand).
THEOREM HandsOverAlways == Spec => []HandsOver
  <1>1. Init => Inspected /\ HandsOver BY DEF Init, Idle, Inspected, Carries, HandsOver
  <1>2. Shape /\ Kind /\ Inspected /\ HandsOver /\ [Next]_vars => (Shape /\ Kind /\ Inspected /\ HandsOver)'
    BY ShapeNext, InspectedNext, HandsOverNext
  <1> QED BY <1>1, <1>2, ShapeInit, PTL DEF Spec

-----------------------------------------------------------------------------
(***************************************************************************)
(* Findings: what the first of a list of checks says.                      *)
(***************************************************************************)
LEMMA LeastOf == ASSUME NEW S \in SUBSET Nat, S # {} PROVE \E m \in S : \A k \in S : m <= k
  <1> DEFINE R == OpToRel(<, Nat)
  <1>1. IsWellFoundedOn(R, Nat) BY NatLessThanWellFounded
  <1>2. \A x, y \in Nat : <<y, x>> \notin R => x <= y BY DEF OpToRel
  <1> HIDE DEF R
  <1>3. \E m \in S : \A k \in S : ~(<<k, m>> \in R) BY <1>1, WFMin
  <1> QED BY <1>2, <1>3

LEMMA FirstIs ==
    ASSUME NEW f, DOMAIN f \in SUBSET Nat
    PROVE  \/ First(f) = Fine /\ \A i \in DOMAIN f : f[i] = Fine
           \/ \E m \in DOMAIN f : /\ f[m] # Fine /\ First(f) = f[m]
                                  /\ \A i \in DOMAIN f : i < m => f[i] = Fine
  <1> DEFINE found == {i \in DOMAIN f : f[i] # Fine}
             least == CHOOSE i \in found : \A j \in found : i <= j
  <1>1. First(f) = IF found = {} THEN Fine ELSE f[least] BY DEF First
  <1>2. CASE found = {} BY <1>1, <1>2
  <1>3. CASE found # {}
    <2>1. \E m \in found : \A k \in found : m <= k BY <1>3, LeastOf
    <2>2. least \in found /\ \A j \in found : least <= j BY <2>1
    <2> HIDE DEF least
    <2>3. First(f) = f[least] BY <1>1, <1>3
    <2>4. \A i \in DOMAIN f : i < least => f[i] = Fine
      <3> SUFFICES ASSUME NEW i \in DOMAIN f, i < least, f[i] # Fine PROVE FALSE OBVIOUS
      <3>1. least <= i BY <2>2
      <3> QED BY <2>2, <3>1
    <2> QED BY <2>2, <2>3, <2>4
  <1> QED BY <1>2, <1>3

\* A list of checks goes on with the next one where all of the first are fine.
LEMMA FirstConcat ==
    ASSUME NEW V, NEW s \in Seq(V), NEW t \in Seq(V)
    PROVE  First(s \o t) = IF First(s) = Fine THEN First(t) ELSE First(s)
  <1> DEFINE g == s \o t
  <1>1. /\ g \in Seq(V) /\ DOMAIN g = 1..(Len(s) + Len(t)) /\ DOMAIN s = 1..Len(s) /\ DOMAIN t = 1..Len(t)
        /\ Len(s) \in Nat /\ Len(t) \in Nat
        /\ \A i \in DOMAIN s : i \in DOMAIN g /\ g[i] = s[i]
        /\ \A i \in DOMAIN t : i + Len(s) \in DOMAIN g /\ g[i + Len(s)] = t[i]
        /\ \A i \in DOMAIN g : i \in DOMAIN s \/ (i - Len(s) \in DOMAIN t /\ g[i] = t[i - Len(s)])
    OBVIOUS
  <1> HIDE DEF g
  <1>2. DOMAIN g \in SUBSET Nat /\ DOMAIN s \in SUBSET Nat /\ DOMAIN t \in SUBSET Nat BY <1>1
  <1>3. CASE First(s) # Fine
    <2>1. PICK m \in DOMAIN s : /\ s[m] # Fine /\ First(s) = s[m]
                                /\ \A i \in DOMAIN s : i < m => s[i] = Fine
      BY <1>2, <1>3, FirstIs
    <2>2. PICK k \in DOMAIN g : /\ g[k] # Fine /\ First(g) = g[k]
                                /\ \A i \in DOMAIN g : i < k => g[i] = Fine
      BY <1>1, <1>2, <2>1, FirstIs
    <2>3. ~(m < k) BY <1>1, <2>1, <2>2
    <2>4. k \in DOMAIN s BY <1>1, <2>3
    <2>5. k = m BY <1>1, <2>1, <2>2, <2>3, <2>4
    <2> QED BY <1>1, <1>3, <2>1, <2>2, <2>5 DEF g
  <1>4. CASE First(s) = Fine
    <2>1. \A i \in DOMAIN s : s[i] = Fine BY <1>2, <1>4, FirstIs
    <2>2. CASE First(t) = Fine
      <3>1. \A i \in DOMAIN t : t[i] = Fine BY <1>2, <2>2, FirstIs
      <3>2. \A i \in DOMAIN g : g[i] = Fine BY <1>1, <2>1, <3>1
      <3>3. First(g) = Fine BY <1>2, <3>2, FirstIs
      <3> QED BY <1>4, <2>2, <3>3 DEF g
    <2>3. CASE First(t) # Fine
      <3>1. PICK m \in DOMAIN t : /\ t[m] # Fine /\ First(t) = t[m]
                                  /\ \A i \in DOMAIN t : i < m => t[i] = Fine
        BY <1>2, <2>3, FirstIs
      <3>2. PICK k \in DOMAIN g : /\ g[k] # Fine /\ First(g) = g[k]
                                  /\ \A i \in DOMAIN g : i < k => g[i] = Fine
        BY <1>1, <1>2, <3>1, FirstIs
      <3>3. k \notin DOMAIN s /\ k - Len(s) \in DOMAIN t /\ g[k] = t[k - Len(s)] BY <1>1, <2>1, <3>2
      <3>4. ~(m + Len(s) < k) BY <1>1, <3>1, <3>2
      <3>5. ~(k - Len(s) < m) BY <3>1, <3>2, <3>3
      <3>6. k - Len(s) = m BY <1>1, <3>3, <3>4, <3>5
      <3> QED BY <1>4, <3>1, <3>2, <3>3, <3>6 DEF g
    <2> QED BY <2>2, <2>3
  <1> QED BY <1>3, <1>4

LEMMA FirstOfOne == ASSUME NEW a PROVE First(<<a>>) = a
  <1> DEFINE f == <<a>>
  <1>1. DOMAIN f = {1} /\ f[1] = a OBVIOUS
  <1> HIDE DEF f
  <1>2. DOMAIN f \in SUBSET Nat BY <1>1
  <1>3. First(f) = a BY <1>1, <1>2, FirstIs
  <1> QED BY <1>3 DEF f

LEMMA FirstOfTwo ==
    ASSUME NEW a, NEW b
    PROVE  First(<<a, b>>) = IF a = Fine THEN b ELSE a
  <1> DEFINE f == <<a, b>>
  <1>1. DOMAIN f = {1, 2} /\ f[1] = a /\ f[2] = b OBVIOUS
  <1> HIDE DEF f
  <1>2. DOMAIN f \in SUBSET Nat BY <1>1
  <1>3. First(f) = IF a = Fine THEN b ELSE a BY <1>1, <1>2, FirstIs
  <1> QED BY <1>3 DEF f

LEMMA FirstOfThree ==
    ASSUME NEW a, NEW b, NEW c
    PROVE  First(<<a, b, c>>) = IF a # Fine THEN a ELSE IF b # Fine THEN b ELSE c
  <1> DEFINE f == <<a, b, c>>
  <1>1. DOMAIN f = {1, 2, 3} /\ f[1] = a /\ f[2] = b /\ f[3] = c OBVIOUS
  <1> HIDE DEF f
  <1>2. DOMAIN f \in SUBSET Nat BY <1>1
  <1>3. First(f) = IF a # Fine THEN a ELSE IF b # Fine THEN b ELSE c BY <1>1, <1>2, FirstIs
  <1> QED BY <1>3 DEF f

LEMMA FirstOfFour ==
    ASSUME NEW a, NEW b, NEW c, NEW d
    PROVE  First(<<a, b, c, d>>) = IF a # Fine THEN a ELSE IF b # Fine THEN b ELSE IF c # Fine THEN c ELSE d
  <1> DEFINE f == <<a, b, c, d>>
  <1>1. DOMAIN f = {1, 2, 3, 4} /\ f[1] = a /\ f[2] = b /\ f[3] = c /\ f[4] = d OBVIOUS
  <1> HIDE DEF f
  <1>2. DOMAIN f \in SUBSET Nat BY <1>1
  <1>3. First(f) = IF a # Fine THEN a ELSE IF b # Fine THEN b ELSE IF c # Fine THEN c ELSE d BY <1>1, <1>2, FirstIs
  <1> QED BY <1>3 DEF f

\* The checks of some stores, in order: one of them speaks unless all are fine.
LEMMA EachIs ==
    ASSUME NEW S, S \subseteq Names, NEW f
    PROVE  /\ \A V : (\A n \in S : f[n] \in V) /\ Fine \in V => Each(S, f) \in Seq(V)
           /\ \/ First(Each(S, f)) = Fine /\ \A n \in S : f[n] = Fine
              \/ \E n \in S : f[n] # Fine /\ First(Each(S, f)) = f[n]
  <1> DEFINE g == Each(S, f)
  <1>1. /\ DOMAIN StoreOrder = 1..Len(StoreOrder) /\ Len(StoreOrder) \in Nat
        /\ \A n \in Names : \E i \in DOMAIN StoreOrder : StoreOrder[i] = n
    BY OrderAssumption DEF Names, Range
  <1>2. /\ DOMAIN g = DOMAIN StoreOrder
        /\ \A i \in DOMAIN g : g[i] = IF StoreOrder[i] \in S THEN f[StoreOrder[i]] ELSE Fine
    BY DEF Each
  <1>3. g = [i \in 1..Len(StoreOrder) |-> g[i]] BY <1>1 DEF Each
  <1> HIDE DEF g
  <1>4. ASSUME NEW V, \A n \in S : f[n] \in V, Fine \in V PROVE g \in Seq(V)
    <2>1. \A i \in 1..Len(StoreOrder) : g[i] \in V BY <1>1, <1>2, <1>4
    <2> QED BY <1>1, <1>3, <2>1
  <1>5. DOMAIN g \in SUBSET Nat BY <1>1, <1>2
  <1>6. CASE First(g) = Fine /\ \A i \in DOMAIN g : g[i] = Fine
    <2>1. \A n \in S : f[n] = Fine
      <3> TAKE n \in S
      <3>1. PICK i \in DOMAIN StoreOrder : StoreOrder[i] = n BY <1>1
      <3> QED BY <1>2, <1>6, <3>1
    <2> QED BY <1>4, <1>6, <2>1 DEF g
  <1>7. CASE \E m \in DOMAIN g : g[m] # Fine /\ First(g) = g[m]
    <2>1. PICK m \in DOMAIN g : g[m] # Fine /\ First(g) = g[m] BY <1>7
    <2>2. StoreOrder[m] \in S /\ g[m] = f[StoreOrder[m]] BY <1>2, <2>1
    <2> QED BY <1>4, <2>1, <2>2 DEF g
  <1> QED BY <1>5, <1>6, <1>7, FirstIs

-----------------------------------------------------------------------------
(***************************************************************************)
(* DeployedIsRemovable.  What a remove refuses of a spec in an environment, *)
(* a deploy refuses there too, and of the environment only the variables of *)
(* the spec's fields and the password's override count; and a remove reads  *)
(* neither stores nor, but for docker, credentials.                         *)
(***************************************************************************)
LEMMA RemoveAcceptsMore ==
    ASSUME NEW in, NEW env, NEW p \in Platforms, NEW a, NEW b, a => b,
           Errors(in, env, VerbContext(p, "deploy", a)) = {}
    PROVE  Errors(in, env, VerbContext(p, "remove", b)) = {}
  <1> DEFINE d == VerbContext(p, "deploy", a)  r == VerbContext(p, "remove", b)
  <1>1. /\ d.platforms = {p} /\ ~d.lint /\ ~d.teardown /\ d.allow = a
        /\ r.platforms = {p} /\ ~r.lint /\ r.allow = b
    BY DEF VerbContext
  <1> HIDE DEF d, r
  <1>2. SharedErrors(in, r) = SharedErrors(in, d) BY <1>1 DEF SharedErrors
  <1>3. \A t : CommandOk(t, a) => CommandOk(t, b) BY DEF CommandOk, Approved
  <1>4. \A s : CommandErrors(s, r) \subseteq CommandErrors(s, d) BY <1>1, <1>3 DEF CommandErrors
  <1>5. KubeErrors(in, r) \subseteq KubeErrors(in, d)
    <2>1. (IF r.teardown THEN {} ELSE WiringErrors(in, in.kubernetes))
             \subseteq (IF d.teardown THEN {} ELSE WiringErrors(in, in.kubernetes))
      BY <1>1
    <2>2. CommandErrors(in.kubernetes, r) \subseteq CommandErrors(in.kubernetes, d) BY <1>4
    <2> QED BY <1>1, <2>1, <2>2 DEF KubeErrors
  <1>6. \A q : ContainerErrors(in, q, r) \subseteq ContainerErrors(in, q, d) BY <1>4 DEF ContainerErrors
  <1>7. ExpandErrors(in, env, r) = ExpandErrors(in, env, d) BY <1>1 DEF ExpandErrors
  <1> QED BY <1>1, <1>2, <1>5, <1>6, <1>7 DEF Errors, d, r

\* The checks see the part of the environment that is recorded of a deploy.
LEMMA SpecEnvCounts == ASSUME Kind, NEW ctx PROVE Errors(input, SpecEnv, ctx) = Errors(input, host.env, ctx)
  <1>1. /\ StatusUserPasswordEnvVar \in SpecVars \cap Vars
        /\ \A x \in input.expands : x.var \in SpecVars \cap Vars
    BY VarsAssumption, InputsAssumption DEF Kind, SpecVars, FieldVars
  <1>2. \A v \in SpecVars \cap Vars : SpecEnv[v] = host.env[v] BY DEF SpecEnv
  <1>3. StatusPasswordErrors(SpecEnv) = StatusPasswordErrors(host.env) BY <1>1, <1>2 DEF StatusPasswordErrors
  <1>4. ExpandErrors(input, SpecEnv, ctx) = ExpandErrors(input, host.env, ctx) BY <1>1, <1>2 DEF ExpandErrors
  <1> QED BY <1>3, <1>4 DEF Errors

\* A deploy goes on, and something runs, only for a spec that deploy accepts.
Accepts(in, env, p, allow) == Errors(in, env, VerbContext(p, "deploy", allow)) = {}
Past     == {"credentials", "host", "stores", "preflight", "probe", "image", "pull", "reinspect", "platform"}
Accepted == run.verb = "deploy" /\ run.at \in Past => Accepts(input, host.env, run.platform, run.allow)
Deployed == \A p \in Platforms : world[p].up => Accepts(input, world[p].env, p, world[p].allow)

\* What generate says, to a deploy and to a remove.
LEMMA GeneratesWhat ==
    ASSUME NEW chance \in {Fine, "random"}
    PROVE  /\ Generates(run, chance) = Fine /\ run.verb = "deploy" => Accepts(input, host.env, run.platform, run.allow)
           /\ run.verb = "remove" => Generates(run, chance) \in {"spec", chance}
           /\ /\ run.verb = "remove"
              /\ Errors(input, host.env, VerbContext(run.platform, "remove", run.allow)) = {}
              => Generates(run, chance) = chance
  <1> DEFINE a == Finds(Errors(input, host.env, VerbContext(run.platform, run.verb, run.allow)) # {}, "spec")
             c == IF run.platform = "kubernetes" /\ ~Teardown(run) THEN GenerateKubernetes ELSE Fine
  <1>1. Generates(run, chance) = First(<<a, chance, c>>) BY DEF Generates
  <1>2. /\ a \in {Fine, "spec"}
        /\ a = Fine <=> Errors(input, host.env, VerbContext(run.platform, run.verb, run.allow)) = {}
    BY DEF Finds, Fine
  <1>3. run.verb = "remove" => c = Fine BY DEF Teardown
  <1> HIDE DEF a, c
  <1> QED BY <1>1, <1>2, <1>3, FirstOfThree DEF Accepts

\* A check is one of a stage before the platform's call.
LEMMA CheckStages ==
    Checks => run.at \in {"generate"} \cup (Past \ {"platform"})
  BY DEF Checks, Past, Generate, ResolveCredentials, CheckHost, ReadStores, Preflight,
         ProbeOperatorSecrets, InspectImage, PullImage

\* The variables change between verbs.
LEMMA EnvironmentEnv == ASSUME HostShape, Environment, ~Ended PROVE host'.env = host.env
  <1>1. CASE \E n \in Names, state \in FileStates : ReplaceStore(n, state)
    <2>1. PICK n \in Names, state \in FileStates : ReplaceStore(n, state) BY <1>1
    <2> DEFINE file == [host.file EXCEPT ![n] = [state |-> state, ver |-> @.ver + 1]]
    <2>2. host' = [host EXCEPT !.file = file] BY <2>1 DEF ReplaceStore
    <2> HIDE DEF file
    <2> QED BY <2>2 DEF HostShape
  <1>2. CASE UNCHANGED host BY <1>2
  <1> QED BY <1>1, <1>2 DEF Environment, ExportVariable, ChangeSecret, MoveImage

LEMMA AcceptedNext == ASSUME Shape, Kind, Accepted, [Next]_vars PROVE Accepted'
  <1> SUFFICES ASSUME run'.verb = "deploy", run'.at \in Past PROVE Accepts(input', host'.env, run'.platform, run'.allow)
    BY DEF Accepted
  <1>0. input' = input
    BY StepsOf, ChecksKeep, EnvironmentMoves, PlatformMoves DEF Shape, Validate, Begin, vars
  <1>1. CASE Validate BY <1>1, ValidateMoves
  <1>2. CASE \E verb \in Verbs, p \in Platforms, allow \in BOOLEAN : Begin(verb, p, allow)
    BY <1>2, BeginMoves DEF Past
  <1>3. CASE Checks
    <2>1. /\ run.verb = "deploy" /\ run'.platform = run.platform /\ run'.allow = run.allow /\ host' = host
      BY <1>3, ChecksMove, ChecksKeep DEF Shape
    <2>2. CASE run.at \in Past BY <1>0, <2>1, <2>2 DEF Accepted
    <2>3. CASE run.at \notin Past
      <3>1. Generate /\ run.at = "generate"
        BY <1>3, <2>3 DEF Checks, Past, Generate, ResolveCredentials, CheckHost, ReadStores, Preflight,
           ProbeOperatorSecrets, InspectImage, PullImage
      <3>2. PICK chance \in {Fine, "random"} :
               Moved(Generates(run, chance), ReadNow(IF run.platform = "kubernetes" /\ ~Teardown(run) THEN Own ELSE {}), {})
        BY <3>1, GenerateMoves DEF Shape
      <3>3. Generates(run, chance) = Fine BY <3>2 DEF Moved, Past
      <3>4. Accepts(input, host.env, run.platform, run.allow) BY <2>1, <3>3, GeneratesWhat
      <3> QED BY <1>0, <2>1, <3>4
    <2> QED BY <2>2, <2>3
  <1>4. CASE Platform BY <1>4, PlatformMoves DEF Shape, Past
  <1>5. CASE Environment
    <2>1. run.at \in Past /\ run.verb = "deploy" /\ run'.platform = run.platform /\ run'.allow = run.allow
      BY <1>5, EnvironmentMoves DEF Shape
    <2>2. host'.env = host.env BY <1>5, <2>1, EnvironmentEnv DEF Shape, Ended, Past
    <2> QED BY <1>0, <2>1, <2>2 DEF Accepted
  <1>6. CASE UNCHANGED vars BY <1>0, <1>6 DEF vars, Accepted
  <1> QED BY <1>1, <1>2, <1>3, <1>4, <1>5, <1>6, StepsOf

LEMMA DeployedNext == ASSUME Shape, Kind, Accepted, Deployed, [Next]_vars PROVE Deployed'
  <1>1. CASE ~Platform
    <2>1. UNCHANGED <<input, world>> BY <1>1, WorldStays
    <2> QED BY <2>1 DEF Deployed
  <1>2. CASE Platform
    <2>0. /\ input' = input /\ run.at = "platform" /\ run.verb \in Verbs /\ run.platform \in Platforms
          /\ CallPlatform \/ UNCHANGED <<world, host, image, clean>>
      BY <1>2, PlatformMoves DEF Shape, Kind, Ended
    <2>1. run.verb = "deploy" => Accepts(input, SpecEnv, run.platform, run.allow)
      BY <2>0, SpecEnvCounts DEF Accepted, Past, Accepts
    <2>2. CASE CallPlatform /\ run.verb = "deploy" /\ run.platform = "docker"
      <3>1. ComposeUp BY <2>2 DEF CallPlatform
      <3>2. world'["docker"].allow = run.allow /\ world'["docker"].env = SpecEnv /\ \A q \in Platforms : q # "docker" => world'[q] = world[q]
        BY <3>1, ComposeUpEffect DEF Shape
      <3> QED BY <2>0, <2>1, <2>2, <3>2 DEF Deployed
    <2>3. CASE CallPlatform /\ ~(run.verb = "deploy" /\ run.platform = "docker")
      <3>1. /\ world'[run.platform] = IF run.verb = "deploy" THEN Applied ELSE Down
            /\ \A q \in Platforms : q # run.platform => world'[q] = world[q]
        BY <2>0, <2>3, CallEffect DEF Shape
      <3>2. Applied.allow = run.allow /\ Applied.env = SpecEnv /\ ~Down.up BY DEF Applied, Down
      <3> QED BY <2>0, <2>1, <3>1, <3>2 DEF Deployed
    <2>4. CASE UNCHANGED <<world, host, image, clean>> BY <2>0, <2>4 DEF Deployed
    <2> QED BY <2>0, <2>2, <2>3, <2>4
  <1> QED BY <1>1, <1>2

\* What ends a remove of something that runs, one step before it ends.
LEMMA RemoveStops ==
    ASSUME Shape, Kind, Deployed, Checks, run.verb = "remove", run'.at = "stopped",
           world[run.platform].up, world[run.platform].allow => run.allow
    PROVE  \/ run'.why \in {"random", "preflight"}
           \/ run.platform = "docker" /\ run'.why = "variable"
           \/ run'.why = "spec" /\ world[run.platform].env # SpecEnv
  <1>0. run.platform \in Platforms BY DEF Kind, Verbs
  <1>1. CASE Generate
    <2>1. world[run.platform].env = SpecEnv
             => Errors(input, host.env, VerbContext(run.platform, "remove", run.allow)) = {}
      <3> SUFFICES ASSUME world[run.platform].env = SpecEnv
                   PROVE  Errors(input, host.env, VerbContext(run.platform, "remove", run.allow)) = {}
        OBVIOUS
      <3>1. Errors(input, SpecEnv, VerbContext(run.platform, "deploy", world[run.platform].allow)) = {}
        BY <1>0 DEF Deployed, Accepts
      <3>2. Errors(input, SpecEnv, VerbContext(run.platform, "remove", run.allow)) = {}
        BY <1>0, <3>1, RemoveAcceptsMore
      <3> QED BY <3>2, SpecEnvCounts
    <2>2. PICK chance \in {Fine, "random"} :
             Moved(Generates(run, chance), ReadNow(IF run.platform = "kubernetes" /\ ~Teardown(run) THEN Own ELSE {}), {})
      BY <1>1, GenerateMoves DEF Shape
    <2>3. /\ Generates(run, chance) \in {"spec", chance}
          /\ world[run.platform].env = SpecEnv => Generates(run, chance) = chance
      BY <2>1, GeneratesWhat
    <2>4. NextStage(run) # "stopped" BY DEF NextStage, AfterGenerate, AfterPreflight, AfterCredentials
    <2> QED BY <2>2, <2>3, <2>4 DEF Moved, Fine
  <1>2. CASE ResolveCredentials
    <2>1. run.platform = "docker" BY <1>2 DEF Kind, ResolveCredentials
    <2>2. NextStage(run) # "stopped" BY DEF NextStage, AfterGenerate, AfterPreflight, AfterCredentials
    <2>3. Moved(Resolve(Credentials), run.read, run.raced) BY <1>2, CredentialsMove DEF Shape
    <2>4. Resolve(Credentials) \in {Fine, "variable"} BY DEF Resolve, Finds
    <2> QED BY <2>1, <2>2, <2>3, <2>4 DEF Moved
  <1>3. CASE Preflight
    <2>1. NextStage(run) # "stopped" BY DEF NextStage, AfterGenerate, AfterPreflight, AfterCredentials
    <2> QED BY <1>3, <2>1, PreflightMoves DEF Shape, Moved
  <1>4. ~CheckHost /\ ~ReadStores /\ ~ProbeOperatorSecrets /\ ~InspectImage /\ ~PullImage
    BY DEF Kind, CheckHost, ReadStores, ProbeOperatorSecrets, InspectImage, PullImage
  <1> QED BY <1>1, <1>2, <1>3, <1>4 DEF Checks

\* What a remove may stop for.
MayStop ==
    \/ run'.why \in {"random", "preflight", "platform"}
    \/ run'.platform = "docker" /\ run'.why = "variable"
    \/ run'.why = "spec" /\ world[run'.platform].env # SpecEnv

StopsRightly ==
    /\ run.at # "stopped" /\ run'.at = "stopped" /\ run'.verb = "remove"
    /\ world[run'.platform].up /\ (world[run'.platform].allow => run'.allow)
    => MayStop

LEMMA RemovableStep ==
    ASSUME Shape, Kind, Deployed, [Next]_vars, run.at # "stopped", run'.at = "stopped", run'.verb = "remove",
           world[run'.platform].up, world[run'.platform].allow => run'.allow
    PROVE  MayStop
  <1>1. CASE Validate BY <1>1, ValidateMoves
  <1>2. CASE \E verb \in Verbs, p \in Platforms, allow \in BOOLEAN : Begin(verb, p, allow) BY <1>2, BeginMoves
  <1>3. CASE Checks
    <2>1. run.verb = "remove" /\ run'.platform = run.platform /\ run'.allow = run.allow
      BY <1>3, ChecksMove DEF Shape
    <2> QED BY <1>3, <2>1, RemoveStops DEF MayStop
  <1>4. CASE Platform BY <1>4, PlatformMoves DEF Shape, MayStop
  <1>5. CASE Environment BY <1>5, EnvironmentMoves DEF Shape
  <1>6. CASE UNCHANGED vars BY <1>6 DEF vars
  <1> QED BY <1>1, <1>2, <1>3, <1>4, <1>5, <1>6, StepsOf

\* What was deployed can be removed with the same commands allowed, whatever
\* became of its stores, its credentials and the cluster: remove never renders a
\* Secret and never reads a store (KubeOpts.Teardown, DockerStorePlaceholders),
\* and docker alone may stop at a credential's variable that is not set. The spec
\* is refused only if a variable of its fields, or the override of the status
\* password, is not what it was at the deploy (validate.Run, spec.Expand).
THEOREM Removable == Spec => DeployedIsRemovable
  <1>1. Init => Accepted /\ Deployed
    BY DEF Init, Idle, Down, Accepted, Past, Deployed
  <1>2. Shape /\ Kind /\ Accepted /\ Deployed /\ [Next]_vars => (Shape /\ Kind /\ Accepted /\ Deployed)'
    BY ShapeNext, AcceptedNext, DeployedNext
  <1>3. Shape /\ Kind /\ Deployed /\ [Next]_vars => [StopsRightly]_vars BY RemovableStep DEF StopsRightly
  <1>4. [][StopsRightly]_vars => DeployedIsRemovable BY DEF DeployedIsRemovable, StopsRightly, MayStop
  <1> QED BY <1>1, <1>2, <1>3, <1>4, ShapeInit, PTL DEF Spec
-----------------------------------------------------------------------------
(***************************************************************************)
(* EverythingMounted.  A kubernetes deploy has found the operator's        *)
(* Secrets whole, a docker deploy each store it mounts in its place, and   *)
(* whoever changes one afterwards leaves a trace in raced.  A docker       *)
(* container that lacks a store carries a digest which is older than what  *)
(* the store has become since: it stays for an equal digest only while the *)
(* store cannot be read.                                                   *)
(***************************************************************************)
Clear(what) == run.verb = "deploy" /\ what \notin run.raced

Probed ==
    run.at = "platform" /\ run.platform = "kubernetes" /\ Clear("cluster") /\ ~run.unprobed =>
        \A s \in SecretProbes : cluster[s] = "whole"
InPlace ==
    /\ run.platform = "docker" /\ Clear("files")
    /\ run.at \in {"stores", "preflight", "image", "pull", "reinspect", "platform"}
    => \A n \in Mounted : ~Absent(host.file[n])
ReadExactly ==
    /\ run.platform = "docker" /\ Clear("files")
    /\ run.at \in {"preflight", "image", "pull", "reinspect", "platform"}
    => \A n \in Mounted : Readable(host.file[n]) => run.read[n] = host.file[n].ver
Outdated ==
    /\ world["docker"].missing \subseteq Mounted
    /\ \A n \in world["docker"].missing :
          /\ world["docker"].digest[n] \in Nat /\ world["docker"].digest[n] <= host.file[n].ver
          /\ \/ world["docker"].digest[n] = 0
             \/ Absent(host.file[n])
             \/ world["docker"].digest[n] < host.file[n].ver
Versions == \A n \in Names : 0 < host.file[n].ver
Mounting == Probed /\ InPlace /\ ReadExactly /\ Outdated /\ Versions

LEMMA EnvironmentFiles ==
    ASSUME RunShape, Environment, "files" \notin run'.raced
    PROVE  Ended \/ (host'.file = host.file /\ "files" \notin run.raced)
  <1>1. CASE \E n \in Names, state \in FileStates : ReplaceStore(n, state)
    <2>1. Change("files") BY <1>1 DEF ReplaceStore
    <2> QED BY <2>1, ChangeMoves
  <1>2. ASSUME host'.file = host.file, \E what : Change(what)
        PROVE  Ended \/ (host'.file = host.file /\ "files" \notin run.raced)
    BY <1>2, ChangeMoves
  <1>3. CASE \E v \in Vars, value \in EnvStates : ExportVariable(v, value)
    <2>1. PICK v \in Vars, value \in EnvStates : ExportVariable(v, value) BY <1>3
    <2> DEFINE e == [host.env EXCEPT ![v] = value]
    <2>2. host' = [host EXCEPT !.env = e] /\ Change("variables") BY <2>1 DEF ExportVariable
    <2> HIDE DEF e
    <2>3. host'.file = host.file BY <2>2
    <2> QED BY <1>2, <2>2, <2>3
  <1>4. CASE \E s \in {"stores", "credentials"}, state \in SecretStates : ChangeSecret(s, state)
    BY <1>2, <1>4 DEF ChangeSecret
  <1>5. CASE \E local \in Images \cup {"none"}, remote \in Images : MoveImage(local, remote)
    BY <1>2, <1>5 DEF MoveImage
  <1> QED BY <1>1, <1>3, <1>4, <1>5 DEF Environment

LEMMA EnvironmentCluster ==
    ASSUME RunShape, Environment, "cluster" \notin run'.raced
    PROVE  Ended \/ (cluster' = cluster /\ "cluster" \notin run.raced)
  <1>1. CASE \E s \in {"stores", "credentials"}, state \in SecretStates : ChangeSecret(s, state)
    <2>1. Change("cluster") BY <1>1 DEF ChangeSecret
    <2> QED BY <2>1, ChangeMoves
  <1>2. ASSUME UNCHANGED cluster, \E what : Change(what)
        PROVE  Ended \/ (cluster' = cluster /\ "cluster" \notin run.raced)
    BY <1>2, ChangeMoves
  <1>3. CASE \E v \in Vars, value \in EnvStates : ExportVariable(v, value)
    BY <1>2, <1>3 DEF ExportVariable
  <1>4. CASE \E n \in Names, state \in FileStates : ReplaceStore(n, state)
    BY <1>2, <1>4 DEF ReplaceStore
  <1>5. CASE \E local \in Images \cup {"none"}, remote \in Images : MoveImage(local, remote)
    BY <1>2, <1>5 DEF MoveImage
  <1> QED BY <1>1, <1>3, <1>4, <1>5 DEF Environment

\* A store's file is replaced by a later version, or stays; what is not there
\* then is still not there.
FileStays(n) ==
    \/ host.file[n].ver < host'.file[n].ver
    \/ host'.file[n].ver = host.file[n].ver /\ (Absent(host.file[n]) => Absent(host'.file[n]))

LEMMA ComposeUpFiles ==
    ASSUME HostShape, ComposeUp
    PROVE  \A n \in Names : /\ host'.file[n].ver = host.file[n].ver
                            /\ Absent(host.file[n]) => Absent(host'.file[n])
  <1>1. CASE UNCHANGED host BY <1>1
  <1>2. CASE host' = [host EXCEPT !.file = [n \in Names |->
                         IF n \in Container(Pulled).missing THEN [@[n] EXCEPT !.state = "dir"] ELSE @[n]]]
    <2> DEFINE m == Container(Pulled).missing
               file == [n \in Names |-> IF n \in m THEN [host.file[n] EXCEPT !.state = "dir"] ELSE host.file[n]]
    <2>1. host' = [host EXCEPT !.file = file] BY <1>2
    <2>2. \A n \in Names : file[n] = host.file[n] \/ file[n] = [host.file[n] EXCEPT !.state = "dir"] OBVIOUS
    <2> HIDE DEF m, file
    <2>3. host'.file = file BY <2>1 DEF HostShape
    <2> TAKE n \in Names
    <2>4. host.file[n] = [state |-> host.file[n].state, ver |-> host.file[n].ver] BY DEF HostShape
    <2>5. CASE file[n] = host.file[n] BY <2>3, <2>5
    <2>6. CASE file[n] = [host.file[n] EXCEPT !.state = "dir"]
      <3>1. file[n].state = "dir" /\ file[n].ver = host.file[n].ver BY <2>4, <2>6
      <3> QED BY <2>3, <3>1 DEF Absent
    <2> QED BY <2>2, <2>5, <2>6
  <1> QED BY <1>1, <1>2 DEF ComposeUp, Pulled

LEMMA FilesMove == ASSUME Shape, Kind, [Next]_vars PROVE \A n \in Names : FileStays(n)
  <1>1. ASSUME host'.file = host.file PROVE \A n \in Names : FileStays(n) BY <1>1 DEF FileStays
  <1>2. CASE Platform
    <2>1. CASE ComposeUp BY <2>1, ComposeUpFiles DEF Shape, FileStays
    <2>2. CASE ~ComposeUp
      <3>1. UNCHANGED host BY <1>2, <2>2, PlatformMoves DEF Shape, CallPlatform
      <3> QED BY <1>1, <3>1
    <2> QED BY <2>1, <2>2
  <1>3. CASE \E n \in Names, state \in FileStates : ReplaceStore(n, state)
    <2>1. PICK n \in Names, state \in FileStates : ReplaceStore(n, state) BY <1>3
    <2> DEFINE new == [state |-> state, ver |-> host.file[n].ver + 1]
               file == [host.file EXCEPT ![n] = new]
    <2>2. host' = [host EXCEPT !.file = file] BY <2>1 DEF ReplaceStore
    <2>3. host.file[n].ver \in Nat BY DEF Shape, HostShape
    <2>4. host.file[n].ver < new.ver BY <2>3
    <2> HIDE DEF new
    <2>5. file[n] = new /\ \A m \in Names : m # n => file[m] = host.file[m] BY DEF Shape, HostShape
    <2> HIDE DEF file
    <2>6. host'.file = file BY <2>2 DEF Shape, HostShape
    <2> TAKE m \in Names
    <2>7. CASE m = n BY <2>4, <2>5, <2>6, <2>7 DEF FileStays
    <2>8. CASE m # n BY <2>5, <2>6, <2>8 DEF FileStays
    <2> QED BY <2>7, <2>8
  <1>4. CASE Environment /\ ~(\E n \in Names, state \in FileStates : ReplaceStore(n, state))
    <2>1. CASE \E v \in Vars, value \in EnvStates : ExportVariable(v, value)
      <3>1. PICK v \in Vars, value \in EnvStates : ExportVariable(v, value) BY <2>1
      <3> DEFINE e == [host.env EXCEPT ![v] = value]
      <3>2. host' = [host EXCEPT !.env = e] BY <3>1 DEF ExportVariable
      <3> HIDE DEF e
      <3> QED BY <1>1, <3>2
    <2>2. CASE UNCHANGED host BY <1>1, <2>2
    <2> QED BY <1>4, <2>1, <2>2 DEF Environment, ChangeSecret, MoveImage
  <1>5. CASE ~Platform /\ ~Environment
    <2>1. UNCHANGED host BY <1>5, StepsOf, ChecksKeep DEF Validate, Begin, vars
    <2> QED BY <1>1, <2>1
  <1> QED BY <1>2, <1>3, <1>4, <1>5

LEMMA InputStays == ASSUME Shape, [Next]_vars PROVE UNCHANGED input
  BY StepsOf, ChecksKeep, EnvironmentMoves, PlatformMoves DEF Shape, Validate, Begin, vars

LEMMA ProbedNext == ASSUME Shape, Kind, Probed, [Next]_vars PROVE Probed'
  <1> SUFFICES ASSUME run'.at = "platform", run'.platform = "kubernetes", Clear("cluster")', ~run'.unprobed
               PROVE  \A s \in SecretProbes' : cluster'[s] = "whole"
    BY DEF Probed
  <1>0. SecretProbes' = SecretProbes
    BY InputStays DEF SecretProbes, Held, Secrets, Selected
  <1>1. CASE Validate BY <1>1, ValidateMoves
  <1>2. CASE \E verb \in Verbs, p \in Platforms, allow \in BOOLEAN : Begin(verb, p, allow) BY <1>2, BeginMoves
  <1>3. CASE Checks
    <2>1. cluster' = cluster BY <1>3, ChecksKeep
    <2>2. run.verb = "deploy" /\ run.platform = "kubernetes" BY <1>3, ChecksMove DEF Shape, Clear
    <2>3. run'.at = NextStage(run) /\ run.at \notin {"image", "pull", "reinspect"}
      BY <1>3, <2>2, ChecksMove DEF Shape, Kind
    <2>4. run.at \notin {"credentials", "stores", "host"} BY <2>2 DEF Kind
    <2>5. CASE run.at = "preflight"
      <3>1. SecretProbes = {} BY <2>2, <2>3, <2>5 DEF NextStage, AfterPreflight
      <3> QED BY <1>0, <3>1
    <2>6. CASE run.at = "probe"
      <3>1. ProbeOperatorSecrets
        BY <1>3, <2>6 DEF Checks, Generate, ResolveCredentials, CheckHost, ReadStores, Preflight,
           InspectImage, PullImage
      <3>2. PICK f : /\ Moved(f, run.read, run.raced \ {"cluster"})
                     /\ f = Fine /\ ~run'.unprobed => \A s \in SecretProbes : cluster[s] = "whole"
        BY <3>1, ProbeMoves DEF Shape
      <3> QED BY <1>0, <2>1, <3>2 DEF Moved
    <2>7. CASE run.at = "generate" BY <2>2, <2>3, <2>7 DEF NextStage, AfterGenerate
    <2> QED BY <1>3, <2>3, <2>4, <2>5, <2>6, <2>7, CheckStages DEF Past
  <1>4. CASE Platform BY <1>4, PlatformMoves DEF Shape
  <1>5. CASE Environment
    <2>1. run.at = "platform" /\ run.platform = "kubernetes" /\ run.verb = "deploy" /\ ~run.unprobed
      BY <1>5, EnvironmentMoves DEF Shape, Clear
    <2>2. cluster' = cluster /\ "cluster" \notin run.raced
      BY <1>5, <2>1, EnvironmentCluster DEF Shape, Clear, Ended
    <2> QED BY <1>0, <2>1, <2>2 DEF Probed, Clear
  <1>6. CASE UNCHANGED vars BY <1>0, <1>6 DEF vars, Probed, Clear
  <1> QED BY <1>1, <1>2, <1>3, <1>4, <1>5, <1>6, StepsOf

\* Which step leads a docker deploy to where it relies on the stores it mounts.
Mounts == {"preflight", "image", "pull", "reinspect", "platform"}

LEMMA DockerStages ==
    ASSUME Shape, Kind, Checks, run'.platform = "docker", run'.verb = "deploy"
    PROVE  /\ run'.at = "stores" => CheckHost
           /\ run'.at \in Mounts => ReadStores \/ (run.at \in Mounts /\ ~ReadStores /\ ~CheckHost /\ ~Generate)
  <1>1. run.platform = "docker" /\ run.verb = "deploy" BY ChecksMove DEF Shape
  <1>2. run.at # "probe" BY <1>1 DEF Kind
  <1>3. /\ run.at = "generate" => NextStage(run) = "credentials"
        /\ run.at = "credentials" => NextStage(run) = "host"
        /\ run.at = "host" => NextStage(run) = "stores"
        /\ run.at = "stores" => NextStage(run) = "preflight"
        /\ run.at = "preflight" => NextStage(run) \in {"image", "platform"}
    BY <1>1 DEF NextStage, AfterGenerate, AfterPreflight, AfterCredentials
  <1>4. /\ run.at = "host" <=> CheckHost
        /\ run.at = "stores" <=> ReadStores
        /\ Generate => run.at = "generate"
    BY DEF Checks, Generate, ResolveCredentials, CheckHost, ReadStores, Preflight,
           ProbeOperatorSecrets, InspectImage, PullImage
  <1> QED BY <1>1, <1>2, <1>3, <1>4, ChecksMove, CheckStages DEF Shape, Past, Mounts

\* What else a check does to raced: nothing, where the stores are relied on.
LEMMA FilesClear ==
    ASSUME Shape, Checks, ~CheckHost, ~Generate, "files" \notin run'.raced PROVE "files" \notin run.raced
  <1>1. CASE InspectImage BY <1>1, InspectMoves DEF Shape
  <1>2. CASE ~InspectImage
    BY <1>2, CredentialsMove, StoresMove, PreflightMoves, ProbeMoves, PullMoves DEF Shape, Moved, Checks
  <1> QED BY <1>1, <1>2

LEMMA HostChecksFine == HostChecks = Fine => \A n \in Mounted : ~Absent(host.file[n])
  BY DEF HostChecks, Finds, Fine

LEMMA InPlaceNext == ASSUME Shape, Kind, InPlace, ReadExactly, [Next]_vars PROVE InPlace' /\ ReadExactly'
  <1> SUFFICES ASSUME run'.platform = "docker", Clear("files")', run'.at \in {"stores"} \cup Mounts
               PROVE  /\ \A n \in Mounted' : ~Absent(host'.file[n])
                      /\ run'.at \in Mounts =>
                            \A n \in Mounted' : Readable(host'.file[n]) => run'.read[n] = host'.file[n].ver
    BY DEF InPlace, ReadExactly, Mounts
  <1>0. Mounted' = Mounted /\ MadeHere' = MadeHere /\ Mounted \subseteq Names
    BY InputStays, SelectedNames DEF Mounted, MadeHere, Selected
  <1>1. CASE Validate BY <1>1, ValidateMoves DEF Mounts
  <1>2. CASE \E verb \in Verbs, p \in Platforms, allow \in BOOLEAN : Begin(verb, p, allow)
    BY <1>2, BeginMoves DEF Mounts
  <1>3. CASE Checks
    <2>1. host' = host BY <1>3, ChecksKeep
    <2>2. run.verb = "deploy" /\ run.platform = "docker" BY <1>3, ChecksMove DEF Shape, Clear
    <2>3. CASE CheckHost
      <3>1. Moved(HostChecks, run.read, run.raced \ {"files"}) BY <2>3, HostMoves DEF Shape
      <3>2. HostChecks = Fine BY <3>1 DEF Moved, Mounts
      <3>3. run'.at = "stores" BY <2>3, <3>1, <3>2 DEF Moved, CheckHost, NextStage, AfterGenerate
      <3> QED BY <1>0, <2>1, <3>2, <3>3, HostChecksFine DEF Mounts
    <2>4. CASE ReadStores
      <3>1. "files" \notin run.raced BY <1>3, <2>4, FilesClear DEF Clear, CheckHost, Generate, ReadStores
      <3>2. run.at = "stores" BY <2>4 DEF ReadStores
      <3>3. \A n \in Mounted : ~Absent(host.file[n]) BY <2>2, <3>1, <3>2 DEF InPlace, Clear
      <3>4. run'.read = ReadNow(DockerReads) BY <2>2, <2>4, StoresMove DEF Shape, Moved
      <3>5. \A n \in Mounted : Readable(host.file[n]) => ReadNow(DockerReads)[n] = host.file[n].ver
        BY <1>0 DEF ReadNow, DockerReads
      <3> QED BY <1>0, <2>1, <3>3, <3>4, <3>5
    <2>5. CASE ~CheckHost /\ ~ReadStores
      <3>1. run.at \in Mounts /\ ~Generate /\ run'.at \in Mounts
        BY <1>3, <2>2, <2>5, DockerStages, ChecksMove DEF Shape, Clear
      <3>2. "files" \notin run.raced BY <1>3, <2>5, <3>1, FilesClear DEF Clear
      <3>3. run'.read = run.read
        BY <1>3, <2>5, <3>1, CredentialsMove, PreflightMoves, ProbeMoves, InspectMoves, PullMoves
           DEF Shape, Moved, Checks
      <3> QED BY <1>0, <2>1, <2>2, <3>1, <3>2, <3>3 DEF InPlace, ReadExactly, Clear, Mounts
    <2> QED BY <2>3, <2>4, <2>5
  <1>4. CASE Platform BY <1>4, PlatformMoves DEF Shape, Mounts
  <1>5. CASE Environment
    <2>1. run.at = run'.at /\ run.platform = "docker" /\ run.verb = "deploy" /\ run'.read = run.read
      BY <1>5, EnvironmentMoves DEF Shape, Clear
    <2>2. ~Ended BY <2>1 DEF Ended, Mounts
    <2>3. host'.file = host.file /\ "files" \notin run.raced
      BY <1>5, <2>2, EnvironmentFiles DEF Shape, Clear
    <2> QED BY <1>0, <2>1, <2>3 DEF InPlace, ReadExactly, Clear, Mounts
  <1>6. CASE UNCHANGED vars BY <1>0, <1>6 DEF vars, InPlace, ReadExactly, Clear, Mounts
  <1> QED BY <1>1, <1>2, <1>3, <1>4, <1>5, <1>6, StepsOf

LEMMA VersionsNext == ASSUME Shape, Kind, Versions, [Next]_vars PROVE Versions'
  <1>1. VersionsGrow BY ShapeNext
  <1>2. \A i, j \in Nat : 0 < i /\ i <= j => 0 < j OBVIOUS
  <1>3. Names' = Names BY DEF Names
  <1> QED BY <1>1, <1>2, <1>3, VersionsStay DEF Shape, Versions, VersionsGrow

LEMMA OutdatedStays ==
    ASSUME Shape, Kind, Outdated, [Next]_vars,
           world'["docker"].missing = world["docker"].missing, world'["docker"].digest = world["docker"].digest
    PROVE  Outdated'
  <1>1. Mounted' = Mounted /\ Mounted \subseteq Names BY InputStays, SelectedNames DEF Mounted, MadeHere, Selected
  <1> SUFFICES ASSUME NEW n \in world["docker"].missing
               PROVE  /\ world["docker"].digest[n] <= host'.file[n].ver
                      /\ \/ world["docker"].digest[n] = 0
                         \/ Absent(host'.file[n])
                         \/ world["docker"].digest[n] < host'.file[n].ver
    BY <1>1 DEF Outdated
  <1>2. n \in Names BY <1>1 DEF Outdated
  <1>3. host.file[n].ver \in Nat /\ host'.file[n].ver \in Nat BY <1>2, ShapeNext, VersionsStay DEF Shape, VersionsGrow
  <1>4. \/ host.file[n].ver < host'.file[n].ver
        \/ host'.file[n].ver = host.file[n].ver /\ (Absent(host.file[n]) => Absent(host'.file[n]))
    BY <1>2, FilesMove DEF FileStays
  <1> DEFINE d == world["docker"].digest[n]
  <1>5. d \in Nat /\ d <= host.file[n].ver BY DEF Outdated
  <1>6. d = 0 \/ Absent(host.file[n]) \/ d < host.file[n].ver BY DEF Outdated
  <1> HIDE DEF d
  <1>7. CASE host.file[n].ver < host'.file[n].ver
    <2>1. \A i, j, k \in Nat : i <= j /\ j < k => i < k /\ i <= k OBVIOUS
    <2> QED BY <1>3, <1>5, <1>7, <2>1 DEF d
  <1>8. CASE host'.file[n].ver = host.file[n].ver /\ (Absent(host.file[n]) => Absent(host'.file[n]))
    BY <1>5, <1>6, <1>8 DEF d
  <1> QED BY <1>4, <1>7, <1>8

LEMMA OutdatedNext == ASSUME Shape, Kind, ReadBound, Outdated, [Next]_vars PROVE Outdated'
  <1>1. CASE ~Platform
    <2>1. UNCHANGED world BY <1>1, WorldStays
    <2> QED BY <2>1, OutdatedStays
  <1>2. CASE Platform
    <2>0. run.verb \in Verbs /\ run.platform \in Platforms BY <1>2, PlatformMoves DEF Shape, Kind, Ended
    <2>1. CASE CallPlatform /\ run.verb = "deploy" /\ run.platform = "docker"
      <3>1. ComposeUp BY <2>1 DEF CallPlatform
      <3>2. CASE world'["docker"] = Container(Pulled)
        <4> DEFINE img == Pulled  c == Container(img)
        <4>1. c.missing = {n \in Mounted : Absent(host.file[n])} /\ c.digest = run.read BY DEF Container, Digest
        <4>2. world'["docker"] = c BY <3>2
        <4> HIDE DEF c
        <4>3. Mounted' = Mounted /\ Mounted \subseteq Names
          BY InputStays, SelectedNames DEF Mounted, MadeHere, Selected
        <4>4. \A n \in Names : /\ host'.file[n].ver = host.file[n].ver
                               /\ Absent(host.file[n]) => Absent(host'.file[n])
          BY <3>1, ComposeUpFiles DEF Shape
        <4>5. \A n \in Names : run.read[n] \in Nat /\ run.read[n] <= host.file[n].ver BY DEF ReadBound
        <4> QED BY <4>1, <4>2, <4>3, <4>4, <4>5 DEF Outdated
      <3>3. CASE /\ world'["docker"].missing = world["docker"].missing
                 /\ world'["docker"].digest = world["docker"].digest
        BY <3>3, OutdatedStays
      <3> QED BY <3>1, <3>2, <3>3, ComposeUpEffect DEF Shape
    <2>2. CASE CallPlatform /\ ~(run.verb = "deploy" /\ run.platform = "docker")
      <3>1. /\ world'[run.platform] = IF run.verb = "deploy" THEN Applied ELSE Down
            /\ \A q \in Platforms : q # run.platform => world'[q] = world[q]
        BY <2>0, <2>2, CallEffect DEF Shape
      <3>2. CASE run.platform = "docker"
        <4>1. world'["docker"].missing = {} BY <2>2, <3>1, <3>2 DEF Down
        <4> QED BY <4>1 DEF Outdated
      <3>3. CASE run.platform # "docker"
        <4>1. world'["docker"] = world["docker"] BY <3>1, <3>3 DEF Platforms
        <4> QED BY <4>1, OutdatedStays
      <3> QED BY <3>2, <3>3
    <2>3. CASE UNCHANGED <<world, host, image, clean>> BY <2>3, OutdatedStays
    <2> QED BY <1>2, <2>1, <2>2, <2>3, PlatformMoves DEF Shape
  <1> QED BY <1>1, <1>2

\* A spec that deploy accepts, on a cluster whose Secrets are as probed: the pod
\* finds everything it mounts.
LEMMA ClusterWhole ==
    ASSUME Accepts(input, host.env, "kubernetes", run.allow), \A s \in SecretProbes : cluster[s] = "whole"
    PROVE  ClusterMissing = {}
  <1> DEFINE ctx == VerbContext("kubernetes", "deploy", run.allow)
  <1>1. Errors(input, host.env, ctx) = {} BY DEF Accepts
  <1>2. ctx.platforms = {"kubernetes"} /\ ~ctx.teardown BY DEF VerbContext
  <1> HIDE DEF ctx
  <1>3. KubeErrors(input, ctx) = {} BY <1>1, <1>2 DEF Errors
  <1>4. input.kubernetes.creds \notin {"both", "neither"} BY <1>3 DEF KubeErrors
  <1>5. WiringErrors(input, input.kubernetes) = {} BY <1>2, <1>3 DEF KubeErrors
  <1>6. UsesCredentials(input) => CredentialsWired(input.kubernetes) BY <1>5 DEF WiringErrors
  <1>7. Secrets # {} => UsesCredentials(input) BY DEF Secrets, UsesCredentials, Selected
  <1>8. Secrets # {} /\ ~CredentialsCreated(input.kubernetes) => input.kubernetes.creds = "existing"
    BY <1>4, <1>6, <1>7 DEF CredentialsWired, CredentialsCreated
  <1>9. Secrets # {} /\ input.kubernetes.creds = "existing" => cluster["credentials"] = "whole"
    BY DEF SecretProbes
  <1>10. Held # {} => cluster["stores"] = "whole" BY DEF SecretProbes
  <1> QED BY <1>8, <1>9, <1>10 DEF ClusterMissing

MountedWell ==
    /\ run.at = "platform" /\ run'.at = "ok" /\ run.verb = "deploy"
    /\ ~run.unprobed /\ run.raced \cap {"files", "cluster"} = {}
    => \A n \in world'[run.platform].missing :
          run.platform = "docker" /\ ~Absent(host.file[n]) /\ ~Readable(host.file[n])

LEMMA MountedStep ==
    ASSUME Shape, Kind, ReadBound, Accepted, Mounting, [Next]_vars PROVE MountedWell
  <1> SUFFICES ASSUME run.at = "platform", run'.at = "ok", run.verb = "deploy", ~run.unprobed,
                      "files" \notin run.raced, "cluster" \notin run.raced,
                      NEW n \in world'[run.platform].missing
               PROVE  run.platform = "docker" /\ ~Absent(host.file[n]) /\ ~Readable(host.file[n])
    BY DEF MountedWell
  <1>1. Platform
    <2>1. ~Checks BY CheckStages DEF Past
    <2>2. ~Validate /\ ~(\E verb \in Verbs, p \in Platforms, allow \in BOOLEAN : Begin(verb, p, allow))
      BY DEF Validate, Begin, Ended
    <2>3. ~Environment BY EnvironmentMoves DEF Shape
    <2>4. ~UNCHANGED vars BY DEF vars
    <2> QED BY <2>1, <2>2, <2>3, <2>4, StepsOf
  <1>2. CallPlatform /\ run.platform \in Platforms BY <1>1, PlatformMoves DEF Shape, Kind, Ended, Verbs
  <1>3. CASE run.platform = "docker"
    <2>1. ComposeUp BY <1>2, <1>3 DEF CallPlatform
    <2>2. \A m \in Mounted : ~Absent(host.file[m]) BY <1>3 DEF Mounting, InPlace, Clear
    <2>3. Container(Pulled).missing = {} BY <2>2 DEF Container
    <2>4. /\ world["docker"].digest = run.read /\ n \in world["docker"].missing
      BY <1>3, <2>1, <2>3, ComposeUpEffect DEF Shape, Digest
    <2>5. n \in Mounted BY <2>4 DEF Mounting, Outdated
    <2>6. Readable(host.file[n]) => run.read[n] = host.file[n].ver
      BY <1>3, <2>5 DEF Mounting, ReadExactly, Clear
    <2>7. ~Readable(host.file[n])
      <3>1. n \in Names BY <2>5, SelectedNames DEF Mounted
      <3>2. host.file[n].ver \in Nat /\ 0 < host.file[n].ver BY <3>1, VersionsStay DEF Shape, Mounting, Versions
      <3>3. run.read[n] = 0 \/ run.read[n] < host.file[n].ver BY <2>2, <2>4, <2>5 DEF Mounting, Outdated
      <3> QED BY <2>6, <3>2, <3>3
    <2> QED BY <1>3, <2>2, <2>5, <2>7
  <1>4. CASE run.platform # "docker"
    <2>1. world'[run.platform] = Applied BY <1>2, <1>4, CallEffect DEF Shape, Verbs
    <2>2. Applied.missing = IF run.platform = "kubernetes" THEN ClusterMissing ELSE {} BY DEF Applied
    <2>3. run.platform = "kubernetes" BY <2>1, <2>2
    <2>4. \A s \in SecretProbes : cluster[s] = "whole" BY <2>3 DEF Mounting, Probed, Clear
    <2>5. Accepts(input, host.env, "kubernetes", run.allow) BY <2>3 DEF Accepted, Past
    <2> QED BY <2>1, <2>2, <2>3, <2>4, <2>5, ClusterWhole
  <1> QED BY <1>3, <1>4

\* A deploy that ends well leaves nothing its container mounts missing, for any
\* specs, stores and changes, unless a store or a Secret changed after it was
\* checked, or could not be probed; but for a store compose kept a container
\* without, which deploy could not read.
THEOREM MountsEverything == Spec => EverythingMounted
  <1> DEFINE Inv == Shape /\ Kind /\ ReadBound /\ Accepted /\ Mounting
  <1>1. Init => Inv
    <2> SUFFICES ASSUME Init PROVE Inv OBVIOUS
    <2>1. Shape /\ Kind BY ShapeInit
    <2>2. run.read = Unread /\ run.at = "idle" /\ run.verb = "none" /\ run.platform = "none" BY DEF Init, Idle
    <2>3. ReadBound BY <2>1, <2>2, UnreadBound DEF ReadBound, Shape
    <2>4. Accepted /\ Probed /\ InPlace /\ ReadExactly BY <2>2 DEF Accepted, Probed, InPlace, ReadExactly
    <2>5. Outdated
      <3>1. world["docker"].missing = {} BY DEF Init, Down, Platforms
      <3> QED BY <3>1 DEF Outdated
    <2>6. Versions
      <3>1. \A n \in Names : host.file[n].ver = 1 BY DEF Init
      <3> QED BY <3>1 DEF Versions
    <2> QED BY <2>1, <2>3, <2>4, <2>5, <2>6 DEF Mounting
  <1>2. Inv /\ [Next]_vars => Inv'
    BY ShapeNext, ReadBoundNext, AcceptedNext, ProbedNext, InPlaceNext, OutdatedNext, VersionsNext DEF Mounting
  <1>3. Inv /\ [Next]_vars => [MountedWell]_vars BY MountedStep
  <1>4. [][MountedWell]_vars => EverythingMounted BY DEF EverythingMounted, MountedWell
  <1> QED BY <1>1, <1>2, <1>3, <1>4, PTL DEF Spec
-----------------------------------------------------------------------------
(***************************************************************************)
(* What the steps that read the spec, the stores and the host may say.     *)
(***************************************************************************)
LEMMA ReadStoreSays == \A n : ReadStore(n) \in {Fine, "variable", "store"}
  BY DEF ReadStore, BuildStore, CheckExistingStore, Finds

LEMMA ResolveSays == \A creds : Resolve(creds) \in {Fine, "variable"}
  BY DEF Resolve, Finds

\* What stops a kubernetes deploy at its stores.
LEMMA ResolveStoresSays ==
    ASSUME Kind
    PROVE  /\ ResolveStores \in {Fine, "variable", "store"}
           /\ ResolveStores = "store" => \/ \E n \in Own : ReadStore(n) = "store"
                                         \/ KubeSizeError(Own) /\ \A n \in Own : ReadStore(n) = Fine
  <1> DEFINE f == [n \in Own |-> ReadStore(n)]
             x == Finds(KubeSizeError(Own), "store")
             V == {Fine, "variable", "store"}
             s == Each(Own, f)
  <1>1. Own \subseteq Names BY SelectedNames DEF Own
  <1>2. \A n \in Own : f[n] = ReadStore(n) /\ f[n] \in V BY ReadStoreSays
  <1>3. x \in V /\ (x = "store" => KubeSizeError(Own)) BY DEF Finds, Fine
  <1>4. Fine \in V OBVIOUS
  <1>5. ResolveStores = First(s \o <<x>>) BY DEF ResolveStores
  <1> HIDE DEF f, x, V
  <1>6. /\ s \in Seq(V)
        /\ \/ First(s) = Fine /\ \A n \in Own : f[n] = Fine
           \/ \E n \in Own : f[n] # Fine /\ First(s) = f[n]
    BY <1>1, <1>2, <1>4, EachIs
  <1>7. <<x>> \in Seq(V) BY <1>3
  <1> HIDE DEF s
  <1>8. First(s \o <<x>>) = IF First(s) = Fine THEN x ELSE First(s) BY <1>6, <1>7, FirstConcat, FirstOfOne
  <1>9. ResolveStores \in V BY <1>2, <1>3, <1>5, <1>6, <1>8
  <1>10. CASE First(s) = Fine
    <2>1. \A n \in Own : f[n] = Fine BY <1>6, <1>10
    <2> QED BY <1>2, <1>3, <1>5, <1>8, <1>9, <1>10, <2>1 DEF V
  <1>11. CASE First(s) # Fine BY <1>2, <1>5, <1>6, <1>8, <1>9, <1>11 DEF V
  <1> QED BY <1>10, <1>11

\* What stops a podman deploy at what its secrets carry.
LEMMA PodmanFilesSay ==
    ASSUME Kind
    PROVE  /\ ResolvePodmanFiles \in {Fine, "document", "variable", "store"}
           /\ ResolvePodmanFiles = "store" =>
                 \E n \in Selected : ReadStore(n) = "store" \/ (ReadStore(n) = Fine /\ Size(n) > PodmanMax)
  <1> DEFINE f == [n \in Selected |-> First(<<ReadStore(n), Finds(Size(n) > PodmanMax, "store")>>)]
             x == Finds(input.document > PodmanMax, "document")
             V == {Fine, "document", "variable", "store"}
             s == Each(Selected, f)
  <1>1. Selected \subseteq Names BY SelectedNames
  <1>2. \A n \in Selected : /\ f[n] \in V /\ f[n] # "document"
                            /\ f[n] = "store" => ReadStore(n) = "store" \/ (ReadStore(n) = Fine /\ Size(n) > PodmanMax)
    <2> TAKE n \in Selected
    <2>1. f[n] = IF ReadStore(n) = Fine THEN Finds(Size(n) > PodmanMax, "store") ELSE ReadStore(n) BY FirstOfTwo
    <2>2. Finds(Size(n) > PodmanMax, "store") \in {Fine, "store"}
          /\ (Finds(Size(n) > PodmanMax, "store") = "store" => Size(n) > PodmanMax)
      BY DEF Finds, Fine
    <2> HIDE DEF f
    <2> QED BY <2>1, <2>2, ReadStoreSays DEF Fine
  <1>3. x \in V /\ x # "store" BY DEF Finds, Fine
  <1>4. Fine \in V OBVIOUS
  <1>5. ResolvePodmanFiles = First(<<x>> \o s) BY DEF ResolvePodmanFiles
  <1> HIDE DEF f, x, V
  <1>6. /\ s \in Seq(V)
        /\ \/ First(s) = Fine /\ \A n \in Selected : f[n] = Fine
           \/ \E n \in Selected : f[n] # Fine /\ First(s) = f[n]
    BY <1>1, <1>2, <1>4, EachIs
  <1>7. <<x>> \in Seq(V) BY <1>3
  <1> HIDE DEF s
  <1>8. First(<<x>> \o s) = IF x = Fine THEN First(s) ELSE x BY <1>6, <1>7, FirstConcat, FirstOfOne
  <1>9. ResolvePodmanFiles \in V BY <1>2, <1>3, <1>5, <1>6, <1>8
  <1>10. ResolvePodmanFiles = "store" => First(s) = "store" BY <1>3, <1>5, <1>8
  <1>11. First(s) = "store" => \E n \in Selected : f[n] = "store" BY <1>6 DEF Fine
  <1> QED BY <1>2, <1>9, <1>10, <1>11 DEF V

\* What stops a docker deploy at the stores it reads.
LEMMA DockerStoresSay ==
    ASSUME Kind
    PROVE  /\ ResolveDockerStores \in {Fine, "variable", "store"}
           /\ ResolveDockerStores = "store" =>
                 \/ \E n \in MadeHere : ReadStore(n) = "store" \/ (ReadStore(n) = Fine /\ Size(n) > EnvMax)
                 \/ \E n \in Mounted : Readable(host.file[n]) /\ ReadStore(n) = "store"
  <1> DEFINE f == [n \in MadeHere |-> First(<<ReadStore(n), Finds(Size(n) > EnvMax, "store")>>)]
             g == [n \in Mounted |-> IF Readable(host.file[n]) THEN ReadStore(n) ELSE Fine]
             V == {Fine, "variable", "store"}
             s == Each(MadeHere, f)
             t == Each(Mounted, g)
  <1>1. MadeHere \subseteq Names /\ Mounted \subseteq Names BY SelectedNames DEF MadeHere, Mounted
  <1>2. \A n \in MadeHere : /\ f[n] \in V
                            /\ f[n] = "store" => ReadStore(n) = "store" \/ (ReadStore(n) = Fine /\ Size(n) > EnvMax)
    <2> TAKE n \in MadeHere
    <2>1. f[n] = IF ReadStore(n) = Fine THEN Finds(Size(n) > EnvMax, "store") ELSE ReadStore(n) BY FirstOfTwo
    <2>2. Finds(Size(n) > EnvMax, "store") \in {Fine, "store"}
          /\ (Finds(Size(n) > EnvMax, "store") = "store" => Size(n) > EnvMax)
      BY DEF Finds, Fine
    <2> HIDE DEF f
    <2> QED BY <2>1, <2>2, ReadStoreSays DEF Fine
  <1>3. \A n \in Mounted : g[n] \in V /\ (g[n] = "store" => Readable(host.file[n]) /\ ReadStore(n) = "store")
    BY ReadStoreSays DEF Fine
  <1>4. Fine \in V OBVIOUS
  <1>5. ResolveDockerStores = First(s \o t) BY DEF ResolveDockerStores
  <1> HIDE DEF f, g, V
  <1>6. /\ s \in Seq(V)
        /\ \/ First(s) = Fine /\ \A n \in MadeHere : f[n] = Fine
           \/ \E n \in MadeHere : f[n] # Fine /\ First(s) = f[n]
    BY <1>1, <1>2, <1>4, EachIs
  <1>7. /\ t \in Seq(V)
        /\ \/ First(t) = Fine /\ \A n \in Mounted : g[n] = Fine
           \/ \E n \in Mounted : g[n] # Fine /\ First(t) = g[n]
    BY <1>1, <1>3, <1>4, EachIs
  <1> HIDE DEF s, t
  <1>8. First(s \o t) = IF First(s) = Fine THEN First(t) ELSE First(s) BY <1>6, <1>7, FirstConcat
  <1>9. ResolveDockerStores \in V BY <1>2, <1>3, <1>4, <1>5, <1>6, <1>7, <1>8
  <1>10. First(s) = "store" => \E n \in MadeHere : f[n] = "store" BY <1>6 DEF Fine
  <1>11. First(t) = "store" => \E n \in Mounted : g[n] = "store" BY <1>7 DEF Fine
  <1> QED BY <1>2, <1>3, <1>5, <1>8, <1>9, <1>10, <1>11 DEF V

\* What stops a verb before it looks at anything but the spec and, on
\* kubernetes, the contents of the Secrets.
LEMMA GeneratesSays ==
    ASSUME Kind, NEW chance \in {Fine, "random"}
    PROVE  /\ Generates(run, chance) \in {Fine, "spec", "random", "variable", "store", "document"}
           /\ Generates(run, chance) = "spec" => Errors(input, host.env, VerbContext(run.platform, run.verb, run.allow)) # {}
           /\ Generates(run, chance) = "store" => ResolveStores = "store" /\ run.platform = "kubernetes"
           /\ Generates(run, chance) = "document" => input.document > KubeMax /\ run.platform = "kubernetes"
  <1> DEFINE a == Finds(Errors(input, host.env, VerbContext(run.platform, run.verb, run.allow)) # {}, "spec")
             c == IF run.platform = "kubernetes" /\ ~Teardown(run) THEN GenerateKubernetes ELSE Fine
             w == Finds(CredentialsCreated(input.kubernetes), Resolve(Credentials))
             y == Finds(PullCreated(input.kubernetes), Resolve({input.registryUser, input.registryPass}))
             z == Finds(input.document > KubeMax, "document")
  <1>1. Generates(run, chance) = IF a # Fine THEN a ELSE IF chance # Fine THEN chance ELSE c
    BY FirstOfThree DEF Generates
  <1>2. a \in {Fine, "spec"} /\ (a # Fine => Errors(input, host.env, VerbContext(run.platform, run.verb, run.allow)) # {})
    BY DEF Finds
  <1>3. GenerateKubernetes = IF w # Fine THEN w ELSE IF ResolveStores # Fine THEN ResolveStores ELSE IF y # Fine THEN y ELSE z
    BY FirstOfFour DEF GenerateKubernetes
  <1>4. w \in {Fine, "variable"} /\ y \in {Fine, "variable"} BY ResolveSays DEF Finds
  <1>5. z \in {Fine, "document"} /\ (z # Fine => input.document > KubeMax) BY DEF Finds
  <1>6. c # Fine => c = GenerateKubernetes /\ run.platform = "kubernetes" OBVIOUS
  <1> HIDE DEF a, c, w, y, z
  <1>7. ResolveStores \in {Fine, "variable", "store"} BY ResolveStoresSays
  <1>8. c \in {Fine, "variable", "store", "document"} BY <1>3, <1>4, <1>5, <1>6, <1>7
  <1>9. c = "store" => ResolveStores = "store" /\ run.platform = "kubernetes"
    BY <1>3, <1>4, <1>5, <1>6, <1>7 DEF Fine
  <1>10. c = "document" => input.document > KubeMax /\ run.platform = "kubernetes"
    BY <1>3, <1>4, <1>5, <1>6, <1>7 DEF Fine
  <1> QED BY <1>1, <1>2, <1>8, <1>9, <1>10 DEF Fine

\* What stops a check, whichever it is.
LEMMA ChecksSay ==
    ASSUME Shape, Kind, Checks, run'.at = "stopped"
    PROVE  \/ Generate /\ \E chance \in {Fine, "random"} : run'.why = Generates(run, chance)
           \/ ResolveCredentials /\ run'.why = Resolve(Credentials)
           \/ CheckHost /\ run'.why = HostChecks
           \/ ReadStores /\ run.platform = "docker" /\ run'.why = ResolveDockerStores
           \/ ReadStores /\ run.platform # "docker" /\ run'.why = ResolvePodmanFiles
           \/ run'.why \in {"preflight", "probe", "image"}
  <1>0. NextStage(run) # "stopped" BY DEF NextStage, AfterGenerate, AfterPreflight, AfterCredentials
  <1>1. CASE Generate
    <2>1. PICK chance \in {Fine, "random"} :
             Moved(Generates(run, chance), ReadNow(IF run.platform = "kubernetes" /\ ~Teardown(run) THEN Own ELSE {}), {})
      BY <1>1, GenerateMoves DEF Shape
    <2> QED BY <1>0, <1>1, <2>1 DEF Moved
  <1>2. CASE ResolveCredentials BY <1>0, <1>2, CredentialsMove DEF Shape, Moved
  <1>3. CASE CheckHost BY <1>0, <1>3, HostMoves DEF Shape, Moved
  <1>4. CASE ReadStores BY <1>0, <1>4, StoresMove DEF Shape, Moved
  <1>5. CASE Preflight
    <2>1. PICK chance \in {Fine, "preflight"} : Moved(chance, run.read, run.raced) BY <1>5, PreflightMoves DEF Shape
    <2> QED BY <1>0, <2>1 DEF Moved
  <1>6. CASE ProbeOperatorSecrets
    <2> DEFINE y == run.raced \ {"cluster"}
               f(unread) == Finds(\E s \in SecretProbes \ unread : cluster[s] # "whole", "probe")
    <2>1. PICK unread \in SUBSET SecretProbes :
             Move([run EXCEPT !.unprobed = (unread # {}), !.raced = y], f(unread))
      BY <1>6 DEF ProbeOperatorSecrets
    <2> DEFINE z == unread # {}  why == f(unread)
    <2>2. Move([run EXCEPT !.unprobed = z, !.raced = y], why) /\ z \in BOOLEAN BY <2>1
    <2>3. why \in {Fine, "probe"} BY DEF Finds
    <2> HIDE DEF y, z, why
    <2>4. Moved(why, run.read, y) BY <2>2, ProbedMoves DEF Shape
    <2> QED BY <1>0, <2>3, <2>4 DEF Moved
  <1>7. CASE InspectImage BY <1>7, InspectMoves DEF Shape
  <1>8. CASE PullImage BY <1>8, PullMoves DEF Shape
  <1> QED BY <1>1, <1>2, <1>3, <1>4, <1>5, <1>6, <1>7, <1>8 DEF Checks

-----------------------------------------------------------------------------
(***************************************************************************)
(* ValidateForetells.  What validate checks is all that a verb asks of the *)
(* spec and the host; while the host is as it was at a clean validate,     *)
(* validate would find it clean still.                                     *)
(***************************************************************************)
LEMMA SpecForetold ==
    ASSUME NEW in, NEW p \in in.sections, NEW verb, NEW allow, NEW env, Errors(in, env, ValidateContext(in)) = {}
    PROVE  Errors(in, env, VerbContext(p, verb, allow)) = {}
  <1> DEFINE v == ValidateContext(in)  r == VerbContext(p, verb, allow)
  <1>1. /\ v.platforms = in.sections /\ v.lint /\ ~v.teardown /\ v.allow = FALSE
        /\ r.platforms = {p} /\ ~r.lint /\ r.allow = allow
    BY DEF ValidateContext, VerbContext
  <1> HIDE DEF v, r
  <1>2. SharedErrors(in, r) = SharedErrors(in, v) BY <1>1 DEF SharedErrors
  <1>3. \A t : CommandOk(t, FALSE) => CommandOk(t, allow) BY DEF CommandOk, Approved
  <1>4. \A s : CommandErrors(s, r) \subseteq CommandErrors(s, v) BY <1>1, <1>3 DEF CommandErrors
  <1>5. KubeErrors(in, r) \subseteq KubeErrors(in, v)
    <2>1. (IF r.teardown THEN {} ELSE WiringErrors(in, in.kubernetes))
             \subseteq (IF v.teardown THEN {} ELSE WiringErrors(in, in.kubernetes))
      BY <1>1
    <2>2. CommandErrors(in.kubernetes, r) \subseteq CommandErrors(in.kubernetes, v) BY <1>4
    <2> QED BY <1>1, <2>1, <2>2 DEF KubeErrors
  <1>6. \A q : ContainerErrors(in, q, r) \subseteq ContainerErrors(in, q, v) BY <1>4 DEF ContainerErrors
  <1>7. ExpandErrors(in, env, r) \subseteq ExpandErrors(in, env, v) BY <1>1 DEF ExpandErrors
  <1>8. Errors(in, env, r) \subseteq Errors(in, env, v) BY <1>1, <1>2, <1>5, <1>6, <1>7 DEF Errors
  <1> QED BY <1>8 DEF v, r

LEMMA StoreForetold ==
    ASSUME NEW n, ValidateStore(n)
    PROVE  /\ "kubernetes" \in input.sections /\ ~input.stores[n].held => ReadStore(n) # "store"
           /\ "podman" \in input.sections =>
                 ReadStore(n) # "store" /\ (ReadStore(n) = Fine => Size(n) <= PodmanMax)
           /\ "docker" \in input.sections /\ Created(input.stores[n]) =>
                 ReadStore(n) # "store" /\ (ReadStore(n) = Fine => Size(n) <= EnvMax)
           /\ "docker" \in input.sections /\ Readable(host.file[n]) => ReadStore(n) # "store"
  <1> DEFINE st == input.stores[n]  f == host.file[n]  pw == Value(st.pass)
             carried == ("kubernetes" \in input.sections /\ ~st.held) \/ "podman" \in input.sections
             finding == IF ~Created(st) \/ pw # "unset" THEN ReadStore(n)
                        ELSE IF st.kind = "jks" THEN Finds(~Readable(f) \/ f.state = "damaged", "store")
                        ELSE BuildStore(st, f, "set")
  <1>1. \/ ~carried /\ "docker" \notin input.sections
        \/ ~carried /\ ~Created(st) /\ ~Readable(f)
        \/ /\ finding = Fine
           /\ Created(st) /\ st.kind = "jks" /\ pw = "unset"
        \/ /\ finding = Fine
           /\ "podman" \in input.sections => Size(n) <= PodmanMax
           /\ "docker" \in input.sections /\ Created(st) => Size(n) <= EnvMax
    BY DEF ValidateStore
  <1>2. Created(st) /\ pw = "unset" => ReadStore(n) = "variable" BY DEF ReadStore, BuildStore
  <1>3. finding = Fine => ReadStore(n) # "store" BY <1>2 DEF Fine
  <1> HIDE DEF finding
  <1> QED BY <1>1, <1>2, <1>3 DEF Fine

\* validate sums up the stores that deploy would hold.
LEMMA CountedAll == ASSUME \A n \in Own : ReadStore(n) = Fine PROVE Counted = Own
  BY DEF Counted, Fine

LEMMA SizeIs == \A n : Size(n) \in Nat
  BY DEF Size

Foretold  == clean => ValidateClean
InSection == run.verb \in Verbs => run.platform \in input.sections

LEMMA CleanStays == ASSUME Shape, [Next]_vars, ~Validate, clean' PROVE clean /\ UNCHANGED <<host, input>>
  <1>1. CASE Checks BY <1>1, ChecksKeep
  <1>2. CASE \E verb \in Verbs, p \in Platforms, allow \in BOOLEAN : Begin(verb, p, allow) BY <1>2 DEF Begin
  <1>3. CASE Platform BY <1>3 DEF Platform, CallPlatform, ComposeUp
  <1>4. CASE Environment
    <2>1. UNCHANGED <<host, clean>> BY <1>4 DEF Environment, ExportVariable, ReplaceStore, ChangeSecret, MoveImage
    <2> QED BY <1>4, <2>1, InputStays
  <1>5. CASE UNCHANGED vars BY <1>5 DEF vars
  <1> QED BY <1>1, <1>2, <1>3, <1>4, <1>5, StepsOf

\* What validate finds depends on the spec and the host alone.
LEMMA CleanIsOfHost == ASSUME UNCHANGED <<host, input>> PROVE ValidateClean' = ValidateClean
  <1>1. /\ Selected' = Selected /\ Held' = Held /\ Own' = Own /\ MadeHere' = MadeHere /\ Mounted' = Mounted
        /\ HostChecks' = HostChecks
    BY DEF Selected, Held, Own, MadeHere, Mounted, HostChecks, Absent
  <1>2. \A n : /\ Size(n)' = Size(n) /\ ReadStore(n)' = ReadStore(n)
               /\ Value(input.stores[n].pass)' = Value(input.stores[n].pass)
    BY DEF Size, ReadStore, Value
  <1>3. \A n : ValidateStore(n)' = ValidateStore(n) BY <1>2 DEF ValidateStore
  <1>4. Counted' = Counted BY <1>1, <1>2 DEF Counted
  <1>5. \A S : [n \in S |-> Size(n)]' = [n \in S |-> Size(n)] BY <1>2
  <1>6. KubeSizeError(Counted)' = KubeSizeError(Counted) BY <1>4, <1>5 DEF KubeSizeError
  <1>7. ValidateStores' = ValidateStores BY <1>1, <1>3, <1>6 DEF ValidateStores
  <1> QED BY <1>1, <1>7 DEF ValidateClean

LEMMA ForetoldNext == ASSUME Shape, Kind, Foretold, InSection, [Next]_vars PROVE Foretold' /\ InSection'
  <1>1. Foretold'
    <2>1. CASE Validate
      <3>1. UNCHANGED <<host, input>> /\ clean' = ValidateClean BY <2>1 DEF Validate
      <3> QED BY <3>1, CleanIsOfHost DEF Foretold
    <2>2. CASE ~Validate BY <2>2, CleanStays, CleanIsOfHost DEF Foretold
    <2> QED BY <2>1, <2>2
  <1>2. InSection'
    <2>0. input' = input BY InputStays
    <2>1. CASE Validate BY <2>1, ValidateMoves DEF InSection, Verbs
    <2>2. CASE \E verb \in Verbs, p \in Platforms, allow \in BOOLEAN : Begin(verb, p, allow)
      BY <2>0, <2>2, BeginMoves DEF InSection
    <2>3. CASE Checks \/ Platform \/ Environment
      BY <2>0, <2>3, ChecksMove, PlatformMoves, EnvironmentMoves DEF Shape, InSection
    <2>4. CASE UNCHANGED vars BY <2>4 DEF vars, InSection
    <2> QED BY <2>1, <2>2, <2>3, <2>4, StepsOf
  <1> QED BY <1>1, <1>2

LEMMA ForetellsNext ==
    ASSUME Shape, Kind, Foretold, InSection, ValidateForetells, [Next]_vars PROVE ValidateForetells'
  <1> SUFFICES ASSUME clean', run'.at = "stopped", run'.verb # "validate"
               PROVE  \/ run'.why \in {"variable", "random", "preflight", "probe", "image", "platform"}
                      \/ run'.platform = "podman" /\ run'.why = "document"
    BY DEF ValidateForetells
  <1>0. ~Validate BY ValidateMoves
  <1>1. clean /\ UNCHANGED <<host, input>> BY <1>0, CleanStays
  <1>2. CASE \E verb \in Verbs, p \in Platforms, allow \in BOOLEAN : Begin(verb, p, allow) BY <1>2, BeginMoves
  <1>3. CASE Checks
    <2>0. run.verb \in Verbs /\ run.platform \in input.sections /\ run.platform \in Platforms
      BY <1>3, ChecksAreLive DEF Kind, InSection
    <2>1. /\ Errors(input, host.env, ValidateContext(input)) = {} /\ ValidateStores
          /\ "kubernetes" \in input.sections => input.document <= KubeMax
          /\ "docker" \in input.sections => HostChecks = Fine
      BY <1>1 DEF Foretold, ValidateClean
    <2>2. \A n \in Selected : ValidateStore(n) BY <2>1 DEF ValidateStores
    <2>3. EnvMax \in Nat /\ KubeMax \in Nat /\ PodmanMax \in Nat /\ input.document \in Nat
      BY LimitsAssumption, InputsAssumption DEF Kind
    <2>4. \A i, j \in Nat : i <= j => ~(i > j) OBVIOUS
    <2>5. \A n : Size(n) \in Nat BY SizeIs
    <2>6. run'.platform = run.platform BY <1>3, ChecksMove DEF Shape
    <2>7. CASE Generate /\ \E chance \in {Fine, "random"} : run'.why = Generates(run, chance)
      <3>1. PICK chance \in {Fine, "random"} : run'.why = Generates(run, chance) BY <2>7
      <3>2. run'.why # "spec" BY <2>0, <2>1, <3>1, GeneratesSays, SpecForetold
      <3>3. run'.why # "document" BY <2>0, <2>1, <2>3, <2>4, <3>1, GeneratesSays
      <3>4. run'.why # "store"
        <4> SUFFICES ASSUME run'.why = "store" PROVE FALSE OBVIOUS
        <4>1. ResolveStores = "store" /\ run.platform = "kubernetes" BY <3>1, GeneratesSays
        <4>2. \A n \in Own : ReadStore(n) # "store" BY <2>0, <2>2, <4>1, StoreForetold DEF Own, Held
        <4>3. KubeSizeError(Own) /\ \A n \in Own : ReadStore(n) = Fine BY <4>1, <4>2, ResolveStoresSays
        <4>4. Counted = Own BY <4>3, CountedAll
        <4> QED BY <2>0, <2>1, <4>1, <4>3, <4>4 DEF ValidateStores
      <3>5. run'.why # Fine
        <4>1. PICK chance2 \in {Fine, "random"} :
                 Moved(Generates(run, chance2), ReadNow(IF run.platform = "kubernetes" /\ ~Teardown(run) THEN Own ELSE {}), {})
          BY <2>7, GenerateMoves DEF Shape
        <4>2. NextStage(run) # "stopped" BY DEF NextStage, AfterGenerate, AfterPreflight, AfterCredentials
        <4> QED BY <4>1, <4>2 DEF Moved
      <3>6. run'.why \in {Fine, "spec", "random", "variable", "store", "document"} BY <3>1, GeneratesSays
      <3> QED BY <3>2, <3>3, <3>4, <3>5, <3>6
    <2>8. CASE ResolveCredentials /\ run'.why = Resolve(Credentials)
      <3>1. NextStage(run) # "stopped" BY DEF NextStage, AfterGenerate, AfterPreflight, AfterCredentials
      <3>2. run'.why # Fine BY <2>8, <3>1, CredentialsMove DEF Shape, Moved
      <3> QED BY <2>8, <3>2, ResolveSays
    <2>9. CASE CheckHost /\ run'.why = HostChecks
      <3>1. NextStage(run) # "stopped" BY DEF NextStage, AfterGenerate, AfterPreflight, AfterCredentials
      <3>2. HostChecks # Fine BY <2>9, <3>1, HostMoves DEF Shape, Moved
      <3>3. run.platform = "docker" BY <2>9 DEF Kind, CheckHost
      <3> QED BY <2>0, <2>1, <3>2, <3>3
    <2>10. CASE ReadStores /\ run.platform = "docker" /\ run'.why = ResolveDockerStores
      <3>1. NextStage(run) # "stopped" BY DEF NextStage, AfterGenerate, AfterPreflight, AfterCredentials
      <3>2. ResolveDockerStores # Fine BY <2>10, <3>1, StoresMove DEF Shape, Moved
      <3>3. \A n \in MadeHere : ReadStore(n) # "store" /\ (ReadStore(n) = Fine => ~(Size(n) > EnvMax))
        BY <2>0, <2>2, <2>3, <2>4, <2>5, <2>10, StoreForetold DEF MadeHere
      <3>4. \A n \in Mounted : Readable(host.file[n]) => ReadStore(n) # "store"
        BY <2>0, <2>2, <2>10, StoreForetold DEF Mounted
      <3> QED BY <2>10, <3>2, <3>3, <3>4, DockerStoresSay
    <2>11. CASE ReadStores /\ run.platform # "docker" /\ run'.why = ResolvePodmanFiles
      <3>1. NextStage(run) # "stopped" BY DEF NextStage, AfterGenerate, AfterPreflight, AfterCredentials
      <3>2. ResolvePodmanFiles # Fine BY <2>11, <3>1, StoresMove DEF Shape, Moved
      <3>3. run.platform = "podman" BY <2>0, <2>11 DEF Kind, ReadStores, Platforms
      <3>4. \A n \in Selected : ReadStore(n) # "store" /\ (ReadStore(n) = Fine => ~(Size(n) > PodmanMax))
        BY <2>0, <2>2, <2>3, <2>4, <2>5, <3>3, StoreForetold
      <3> QED BY <2>6, <2>11, <3>2, <3>3, <3>4, PodmanFilesSay
    <2> QED BY <1>3, <2>7, <2>8, <2>9, <2>10, <2>11, ChecksSay
  <1>4. CASE Platform BY <1>4, PlatformMoves DEF Shape
  <1>5. CASE Environment BY <1>1, <1>5, EnvironmentMoves DEF Shape, ValidateForetells
  <1>6. CASE UNCHANGED vars BY <1>6 DEF vars, ValidateForetells
  <1> QED BY <1>0, <1>2, <1>3, <1>4, <1>5, <1>6, StepsOf

\* While the host is as it was at a clean validate, a verb stops only for a
\* variable that is not set, for no random bytes, for what the platform says or,
\* on podman, for a document no secret can carry: for any specs, stores and
\* limits, validate asks everything that generate, deploy and remove will ask.
THEOREM ValidateIsComplete == Spec => []ValidateForetells
  <1> DEFINE Inv == Shape /\ Kind /\ Foretold /\ InSection /\ ValidateForetells
  <1>1. Init => Inv
    BY ShapeInit DEF Init, Idle, Foretold, InSection, Verbs, ValidateForetells
  <1>2. Inv /\ [Next]_vars => Inv' BY ShapeNext, ForetoldNext, ForetellsNext
  <1> QED BY <1>1, <1>2, PTL DEF Spec

-----------------------------------------------------------------------------
(***************************************************************************)
(* The types.                                                              *)
(***************************************************************************)
Files  == [Names -> [state : FileStates \cup {"dir"}, ver : Nat]]
Kinds  == {"files", "cluster", "image"}
Things == [up : BOOLEAN, allow : BOOLEAN, missing : SUBSET (Names \cup {"credentials"}),
           loaded : [Names -> Nat], digest : [Names -> Nat], image : Images \cup {"none"},
           env : [Vars -> EnvStates]]

RunFields ==
    /\ run.verb \in {"none", "validate"} \cup Verbs /\ run.platform \in Platforms \cup {"none"}
    /\ run.allow \in BOOLEAN /\ run.at \in Stages /\ run.why \in Whys
    /\ run.read \in [Names -> Nat] /\ run.unprobed \in BOOLEAN /\ run.raced \in SUBSET Kinds
HostType  == host.env \in [Vars -> EnvStates] /\ host.file \in Files
ImageType == image \in [local : Images \cup {"none"}, remote : Images]
WorldType == world \in [Platforms -> Things]
OtherType == /\ cluster \in [{"stores", "credentials"} -> SecretStates] /\ clean \in BOOLEAN
             /\ count \in [changes : 0..MaxChanges, runs : 0..MaxRuns]
Types == RunFields /\ HostType /\ ImageType /\ WorldType /\ OtherType

LEMMA TypesSay == ASSUME RunShape, Types PROVE TypeOK
  <1>1. run \in [verb : {"none", "validate", "generate", "deploy", "remove"}, platform : Platforms \cup {"none"},
                 allow : BOOLEAN, at : Stages, why : Whys, read : [Names -> Nat], unprobed : BOOLEAN,
                 raced : SUBSET {"files", "cluster", "image"}]
    BY DEF Types, RunShape, RunFields, Verbs, Kinds
  <1>2. world \in [Platforms -> [up : BOOLEAN, allow : BOOLEAN, missing : SUBSET (Names \cup {"credentials"}),
                                 loaded : [Names -> Nat], digest : [Names -> Nat],
                                 image : Images \cup {"none"}, env : [Vars -> EnvStates]]]
    BY DEF Types, WorldType, Things
  <1> QED BY <1>1, <1>2 DEF Types, HostType, Files, ImageType, OtherType, TypeOK

LEMMA SpecEnvType == ASSUME HostType PROVE SpecEnv \in [Vars -> EnvStates] /\ NoEnv \in [Vars -> EnvStates]
  <1>1. \A v \in Vars : host.env[v] \in EnvStates BY DEF HostType
  <1>2. "unset" \in EnvStates BY DEF EnvStates
  <1> QED BY <1>1, <1>2 DEF SpecEnv, NoEnv

LEMMA TypesInit == Init => Types
  <1> SUFFICES ASSUME Init PROVE Types OBVIOUS
  <1>1. Unread \in [Names -> Nat] BY DEF Unread
  <1>2. RunFields BY <1>1 DEF Init, Idle, RunFields, Stages, Whys
  <1>3. HostType
    <2>1. host \in [env : [Vars -> EnvStates], file : [Names -> [state : FileStates, ver : {1}]]] BY DEF Init
    <2> QED BY <2>1 DEF HostType, Files
  <1>4. ImageType BY DEF Init, ImageType
  <1>5. Down \in Things
    <2>1. NoEnv \in [Vars -> EnvStates] BY <1>3, SpecEnvType
    <2> QED BY <1>1, <2>1 DEF Down, Things
  <1>6. WorldType BY <1>5 DEF Init, WorldType
  <1>7. OtherType
    <2>1. cluster \in [{"stores", "credentials"} -> SecretStates] /\ clean = FALSE BY DEF Init
    <2>2. count = [changes |-> 0, runs |-> 0] BY DEF Init
    <2>3. 0 \in 0..MaxChanges /\ 0 \in 0..MaxRuns BY BoundsAssumption
    <2> QED BY <2>1, <2>2, <2>3 DEF OtherType
  <1> QED BY <1>2, <1>3, <1>4, <1>6, <1>7 DEF Types

LEMMA EnvironmentRaced ==
    ASSUME RunShape, Environment PROVE run' = run \/ \E what \in Kinds : run'.raced = run.raced \cup {what}
  <1>1. \/ \E what \in Kinds : Change(what)
        \/ Ended /\ \E what : Change(what)
    BY DEF Environment, ExportVariable, ReplaceStore, ChangeSecret, MoveImage, Kinds
  <1> QED BY <1>1, ChangeMoves

LEMMA RunFieldsNext == ASSUME Shape, Kind, RunFields, ReadBound, [Next]_vars PROVE RunFields'
  <1>0. run'.read \in [Names -> Nat] BY ReadBoundNext DEF ReadBound, Names
  <1>1. CASE Validate
    <2>1. run'.at \in Stages /\ run'.why \in Whys BY <1>1, ValidateMoves DEF Stages, Whys
    <2> QED BY <1>0, <1>1, <2>1, ValidateMoves DEF RunFields, Names
  <1>2. ASSUME NEW verb \in Verbs, NEW p \in Platforms, NEW allow \in BOOLEAN, Begin(verb, p, allow)
        PROVE  RunFields'
    <2>1. "generate" \in Stages /\ Fine \in Whys BY DEF Stages, Whys
    <2> QED BY <1>0, <1>2, <2>1, BeginMoves, ZenonT(40) DEF RunFields, Names
  <1>3. CASE Checks
    <2>1. run'.verb = run.verb /\ run'.platform = run.platform /\ run'.allow = run.allow
      BY <1>3, ChecksMove DEF Shape
    <2>2. run'.at \in Stages
      <3>1. NextStage(run) \in Stages
        BY DEF NextStage, AfterGenerate, AfterPreflight, AfterCredentials, Stages
      <3> QED BY <1>3, <3>1, ChecksMove DEF Shape, Stages
    <2>3. /\ run'.unprobed \in BOOLEAN \cup {run.unprobed} /\ run'.raced \in SUBSET Kinds
          /\ run'.at # "stopped" => run'.why = run.why
      BY <1>3, GenerateMoves, CredentialsMove, HostMoves, StoresMove, PreflightMoves, ProbeMoves,
         InspectMoves, PullMoves DEF Checks, Shape, Moved, RunFields
    <2>4. run'.at = "stopped" => run'.why \in Whys
      <3> SUFFICES ASSUME run'.at = "stopped" PROVE run'.why \in Whys OBVIOUS
      <3>1. HostChecks \in {Fine, "store"} BY DEF HostChecks, Finds
      <3> QED BY <1>3, <3>1, ChecksSay, GeneratesSays, ResolveSays, DockerStoresSay, PodmanFilesSay DEF Whys
    <2> QED BY <1>0, <2>1, <2>2, <2>3, <2>4 DEF RunFields, Names
  <1>4. CASE Platform
    <2>1. "platform" \in Whys /\ "ok" \in Stages /\ "stopped" \in Stages BY DEF Whys, Stages
    <2> QED BY <1>0, <1>4, <2>1, PlatformMoves DEF Shape, RunFields, Names
  <1>5. CASE Environment
    <2>1. run'.raced \in SUBSET Kinds BY <1>5, EnvironmentRaced DEF Shape, RunFields
    <2> QED BY <1>0, <1>5, <2>1, EnvironmentMoves DEF Shape, RunFields, Names
  <1>6. CASE UNCHANGED vars BY <1>6 DEF vars, RunFields, Names, Range
  <1> QED BY <1>1, <1>2, <1>3, <1>4, <1>5, <1>6, StepsOf

\* The versions a container loads, and what it finds missing.
LEMMA ContainerType ==
    ASSUME Kind, RunFields, HostType, NEW STATE img, img \in Images \cup {"none"} PROVE Container(img) \in Things
  <1> DEFINE missing == {n \in Mounted : Absent(host.file[n])}
             loaded == [n \in Names |-> IF n \in MadeHere THEN run.read[n]
                                        ELSE IF n \in Mounted \ missing THEN host.file[n].ver ELSE 0]
  <1>1. missing \in SUBSET (Names \cup {"credentials"}) BY SelectedNames DEF Mounted
  <1>2. \A n \in Names : run.read[n] \in Nat /\ host.file[n].ver \in Nat BY DEF RunFields, HostType, Files
  <1>3. loaded \in [Names -> Nat] BY <1>2
  <1>4. run.allow \in BOOLEAN /\ run.read \in [Names -> Nat] BY DEF RunFields
  <1>5. Container(img) = [up |-> TRUE, allow |-> run.allow, missing |-> missing, loaded |-> loaded,
                          digest |-> run.read, image |-> img, env |-> SpecEnv]
    BY DEF Container, Digest
  <1>6. SpecEnv \in [Vars -> EnvStates] BY SpecEnvType
  <1> HIDE DEF missing, loaded
  <1> QED BY <1>1, <1>3, <1>4, <1>5, <1>6 DEF Things

LEMMA AppliedType == ASSUME Kind, RunFields, HostType PROVE Applied \in Things /\ Down \in Things
  <1>1. ClusterMissing \in SUBSET (Names \cup {"credentials"}) BY SelectedNames DEF ClusterMissing, Held
  <1>2. run.allow \in BOOLEAN /\ run.read \in [Names -> Nat] BY DEF RunFields
  <1>3. Unread \in [Names -> Nat] BY DEF Unread
  <1> DEFINE m == IF run.platform = "kubernetes" THEN ClusterMissing ELSE {}
  <1>4. m \in SUBSET (Names \cup {"credentials"}) BY <1>1
  <1>5. Applied = [up |-> TRUE, allow |-> run.allow, loaded |-> run.read, digest |-> run.read, image |-> "none",
                   missing |-> m, env |-> SpecEnv]
    BY DEF Applied
  <1> HIDE DEF m
  <1>6. SpecEnv \in [Vars -> EnvStates] /\ NoEnv \in [Vars -> EnvStates] BY SpecEnvType
  <1>7. Applied \in Things BY <1>2, <1>4, <1>5, <1>6 DEF Things
  <1> QED BY <1>3, <1>6, <1>7 DEF Down, Things

LEMMA PlatformTypes == ASSUME Shape, Kind, Types, Platform PROVE HostType' /\ ImageType' /\ WorldType' /\ OtherType'
  <1>0. /\ run.verb \in Verbs /\ run.platform \in Platforms
        /\ UNCHANGED <<input, cluster, count>>
        /\ CallPlatform \/ UNCHANGED <<world, host, image, clean>>
    BY PlatformMoves DEF Shape, Kind, Ended
  <1>1. CASE UNCHANGED <<world, host, image, clean>>
    BY <1>0, <1>1 DEF Types, HostType, ImageType, WorldType, OtherType, Names, Files
  <1>2. CASE CallPlatform /\ ~(run.verb = "deploy" /\ run.platform = "docker")
    <2> DEFINE x == IF run.verb = "deploy" THEN Applied ELSE Down
    <2>1. world' = [world EXCEPT ![run.platform] = x] /\ UNCHANGED <<host, image, clean>> BY <1>2 DEF CallPlatform
    <2>2. x \in Things BY AppliedType DEF Types
    <2> HIDE DEF x
    <2>3. WorldType' BY <1>0, <2>1, <2>2 DEF Types, WorldType, Things, Names
    <2> QED BY <1>0, <2>1, <2>3 DEF Types, HostType, ImageType, OtherType, Names, Files
  <1>3. CASE CallPlatform /\ run.verb = "deploy" /\ run.platform = "docker"
    <2>1. ComposeUp BY <1>3 DEF CallPlatform
    <2> DEFINE img == Pulled
    <2>2. img \in Images \cup {"none"} BY DEF Pulled, Types, ImageType
    <2>3. ImageType'
      <3>1. image' = [image EXCEPT !.local = img] BY <2>1 DEF ComposeUp, Pulled
      <3> HIDE DEF img
      <3> QED BY <2>2, <3>1 DEF Types, ImageType
    <2> HIDE DEF img
    <2>4. Container(img) \in Things BY <2>2, ContainerType DEF Types
    <2>5. \/ /\ world' = [world EXCEPT !["docker"] = Container(img)]
             /\ host' = [host EXCEPT !.file = [n \in Names |->
                            IF n \in Container(img).missing THEN [@[n] EXCEPT !.state = "dir"] ELSE @[n]]]
             /\ clean' = (clean /\ host' = host)
          \/ /\ world' = [world EXCEPT !["docker"].allow = run.allow, !["docker"].env = SpecEnv]
             /\ UNCHANGED <<host, clean>>
      BY <2>1 DEF ComposeUp, Pulled, img
    <2>6. CASE /\ world' = [world EXCEPT !["docker"] = Container(img)]
               /\ host' = [host EXCEPT !.file = [n \in Names |->
                              IF n \in Container(img).missing THEN [@[n] EXCEPT !.state = "dir"] ELSE @[n]]]
               /\ clean' = (clean /\ host' = host)
      <3> DEFINE c == Container(img)
                 file == [n \in Names |-> IF n \in c.missing THEN [host.file[n] EXCEPT !.state = "dir"] ELSE host.file[n]]
      <3>1. world' = [world EXCEPT !["docker"] = c] /\ host' = [host EXCEPT !.file = file] BY <2>6
      <3>2. \A n \in Names : host.file[n] \in [state : FileStates \cup {"dir"}, ver : Nat]
        BY DEF Types, HostType, Files
      <3>3. file \in Files BY <3>2 DEF Files
      <3> HIDE DEF c, file
      <3>4. WorldType' BY <2>4, <3>1 DEF Types, WorldType, Things, Names, c
      <3>5. host'.env = host.env /\ host'.file = file BY <3>1 DEF Shape, HostShape
      <3>6. HostType' BY <3>3, <3>5 DEF Types, HostType, Files, Names
      <3>7. OtherType' BY <1>0, <2>6 DEF Types, OtherType
      <3> QED BY <2>3, <3>4, <3>6, <3>7
    <2>7. CASE /\ world' = [world EXCEPT !["docker"].allow = run.allow, !["docker"].env = SpecEnv]
               /\ UNCHANGED <<host, clean>>
      <3> DEFINE e == SpecEnv
                 x == [world["docker"] EXCEPT !.allow = run.allow, !.env = e]
      <3>0. world' = [world EXCEPT !["docker"].allow = run.allow, !["docker"].env = e] BY <2>7
      <3>1. e \in [Vars -> EnvStates] BY SpecEnvType DEF Types
      <3> HIDE DEF e
      <3>2. x \in Things
        <4>1. world["docker"] \in Things /\ run.allow \in BOOLEAN
          BY DEF Types, WorldType, RunFields, Platforms
        <4> QED BY <3>1, <4>1 DEF Things
      <3>3. world' = [world EXCEPT !["docker"] = x] BY <3>0 DEF Shape, WorldShape, Platforms
      <3> HIDE DEF x
      <3>4. WorldType' BY <3>2, <3>3 DEF Types, WorldType, Things, Names
      <3> QED BY <1>0, <2>3, <2>7, <3>4 DEF Types, HostType, Files, OtherType, Names
    <2> QED BY <2>5, <2>6, <2>7
  <1> QED BY <1>0, <1>1, <1>2, <1>3

\* The variables a change does not touch keep their types.
LEMMA EnvironmentTypes ==
    ASSUME Shape, Kind, Types, Environment PROVE HostType' /\ ImageType' /\ WorldType' /\ OtherType'
  <1>0. WorldType' BY EnvironmentMoves DEF Shape, Types, WorldType, Things, Names
  <1>1. ASSUME NEW what, Change(what) PROVE count' \in [changes : 0..MaxChanges, runs : 0..MaxRuns]
    <2>1. count' = [count EXCEPT !.changes = @ + 1] /\ count.changes < MaxChanges BY <1>1 DEF Change
    <2> QED BY <2>1, BoundsAssumption DEF Types, OtherType
  <1>2. CASE \E v \in Vars, value \in EnvStates : ExportVariable(v, value)
    <2>1. PICK v \in Vars, value \in EnvStates : ExportVariable(v, value) BY <1>2
    <2> DEFINE e == [host.env EXCEPT ![v] = value]
    <2>2. /\ host' = [host EXCEPT !.env = e] /\ clean' = FALSE /\ UNCHANGED <<cluster, image>> /\ Change("variables")
      BY <2>1 DEF ExportVariable
    <2>3. e \in [Vars -> EnvStates] BY DEF Types, HostType
    <2> HIDE DEF e
    <2>4. host'.env = e /\ host'.file = host.file BY <2>2 DEF Shape, HostShape
    <2>5. HostType' BY <2>3, <2>4 DEF Types, HostType, Files, Names
    <2> QED BY <1>0, <1>1, <2>2, <2>5 DEF Types, ImageType, OtherType
  <1>3. CASE \E n \in Names, state \in FileStates : ReplaceStore(n, state)
    <2>1. PICK n \in Names, state \in FileStates : ReplaceStore(n, state) BY <1>3
    <2> DEFINE new == [state |-> state, ver |-> host.file[n].ver + 1]
               file == [host.file EXCEPT ![n] = new]
    <2>2. /\ host' = [host EXCEPT !.file = file] /\ clean' = FALSE /\ UNCHANGED <<cluster, image>> /\ Change("files")
      BY <2>1 DEF ReplaceStore
    <2>3. host.file[n].ver + 1 \in Nat BY DEF Types, HostType, Files
    <2>4. new \in [state : FileStates \cup {"dir"}, ver : Nat] BY <2>3
    <2> HIDE DEF new
    <2>5. file \in Files BY <2>4 DEF Types, HostType, Files
    <2> HIDE DEF file
    <2>6. host'.env = host.env /\ host'.file = file BY <2>2 DEF Shape, HostShape
    <2>7. HostType' BY <2>5, <2>6 DEF Types, HostType, Files, Names
    <2> QED BY <1>0, <1>1, <2>2, <2>7 DEF Types, ImageType, OtherType
  <1>4. CASE \E s \in {"stores", "credentials"}, state \in SecretStates : ChangeSecret(s, state)
    <2>1. PICK s \in {"stores", "credentials"}, state \in SecretStates : ChangeSecret(s, state) BY <1>4
    <2>2. cluster' = [cluster EXCEPT ![s] = state] /\ UNCHANGED <<host, image, clean>> /\ Change("cluster")
      BY <2>1 DEF ChangeSecret
    <2>3. cluster' \in [{"stores", "credentials"} -> SecretStates] BY <2>2 DEF Types, OtherType
    <2>4. HostType' BY <2>2 DEF Types, HostType, Files, Names
    <2> QED BY <1>0, <1>1, <2>2, <2>3, <2>4 DEF Types, ImageType, OtherType
  <1>5. CASE \E local \in Images \cup {"none"}, remote \in Images : MoveImage(local, remote)
    <2>1. PICK local \in Images \cup {"none"}, remote \in Images : MoveImage(local, remote) BY <1>5
    <2>2. image' = [local |-> local, remote |-> remote] /\ UNCHANGED <<host, cluster, clean>> /\ Change("image")
      BY <2>1 DEF MoveImage
    <2>3. HostType' BY <2>2 DEF Types, HostType, Files, Names
    <2> QED BY <1>0, <1>1, <2>2, <2>3 DEF Types, ImageType, OtherType
  <1> QED BY <1>2, <1>3, <1>4, <1>5 DEF Environment

LEMMA TypesNext == ASSUME Shape, Kind, ReadBound, Types, [Next]_vars PROVE Types'
  <1>0. RunFields' BY RunFieldsNext DEF Types
  <1>1. CASE Platform BY <1>0, <1>1, PlatformTypes DEF Types
  <1>2. CASE Environment BY <1>0, <1>2, EnvironmentTypes DEF Types
  <1>3. ASSUME UNCHANGED <<host, world, cluster>>, ImageType', clean' \in BOOLEAN,
               count' \in [changes : 0..MaxChanges, runs : 0..MaxRuns]
        PROVE  Types'
    <2>1. HostType' /\ WorldType' BY <1>3 DEF Types, HostType, Files, WorldType, Things, Names
    <2>2. OtherType' BY <1>3 DEF Types, OtherType
    <2> QED BY <1>0, <1>3, <2>1, <2>2 DEF Types
  <1>4. ASSUME count' = [count EXCEPT !.runs = @ + 1], count.runs < MaxRuns
        PROVE  count' \in [changes : 0..MaxChanges, runs : 0..MaxRuns]
    BY <1>4, BoundsAssumption DEF Types, OtherType
  <1>5. CASE Validate
    <2>1. ImageType' BY <1>5 DEF Validate, Types, ImageType
    <2>2. clean' \in BOOLEAN BY <1>5 DEF Validate, ValidateClean
    <2> QED BY <1>3, <1>4, <1>5, <2>1, <2>2 DEF Validate
  <1>6. CASE \E verb \in Verbs, p \in Platforms, allow \in BOOLEAN : Begin(verb, p, allow)
    <2>1. ImageType' /\ clean' \in BOOLEAN BY <1>6 DEF Begin, Types, ImageType, OtherType
    <2> QED BY <1>3, <1>4, <1>6, <2>1 DEF Begin
  <1>7. CASE Checks
    <2>1. clean' \in BOOLEAN /\ count' \in [changes : 0..MaxChanges, runs : 0..MaxRuns]
      BY <1>7, ChecksKeep DEF Types, OtherType
    <2>2. ImageType'
      <3>1. CASE PullImage BY <3>1, PullMoves DEF Shape, Types, ImageType
      <3>2. CASE ~PullImage
        <4>1. UNCHANGED image
          BY <1>7, <3>2 DEF Checks, Generate, ResolveCredentials, CheckHost, ReadStores, Preflight,
             ProbeOperatorSecrets, InspectImage
        <4> QED BY <4>1 DEF Types, ImageType
      <3> QED BY <3>1, <3>2
    <2> QED BY <1>3, <1>7, <2>1, <2>2, ChecksKeep
  <1>8. CASE UNCHANGED vars
    <2>1. ImageType' /\ clean' \in BOOLEAN /\ count' \in [changes : 0..MaxChanges, runs : 0..MaxRuns]
      BY <1>8 DEF vars, Types, ImageType, OtherType
    <2> QED BY <1>3, <1>8, <2>1 DEF vars
  <1> QED BY <1>1, <1>2, <1>5, <1>6, <1>7, <1>8, StepsOf

\* The types hold for any specs, stores and bounds: above all, what stops a verb
\* is one of the findings the steps can have.
THEOREM TargetTypes == Spec => []TypeOK
  <1> DEFINE Inv == Shape /\ Kind /\ ReadBound /\ Types
  <1>1. Init => Inv
    <2> SUFFICES ASSUME Init PROVE Inv OBVIOUS
    <2>1. Shape /\ Kind BY ShapeInit
    <2>2. run.read = Unread /\ run.platform = "none" BY DEF Init, Idle
    <2>3. ReadBound BY <2>1, <2>2, UnreadBound DEF ReadBound, Shape
    <2> QED BY <2>1, <2>3, TypesInit
  <1>2. Inv /\ [Next]_vars => Inv' BY ShapeNext, ReadBoundNext, TypesNext
  <1>3. Inv => TypeOK BY TypesSay DEF Shape
  <1> QED BY <1>1, <1>2, <1>3, PTL DEF Spec
=============================================================================
