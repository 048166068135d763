-------------------------------- MODULE Libs --------------------------------
(***************************************************************************)
(* download jar (internal/libs, libs.Download): resolve the closure of a   *)
(* set's seed or take the named URLs, drop what the connector image ships, *)
(* and fetch each jar into the directory through a temporary file.         *)
(*                                                                         *)
(* One process at a time works in the directory, run after run; the        *)
(* network and the disk may fail at any step and the process may be killed *)
(* at any step.  MaxFaults bounds both together, MaxRuns the runs.         *)
(***************************************************************************)
EXTENDS LibsClosure

CONSTANTS BaseName(_),   \* the artifact id of a coordinate, its jar's base name
          SeedOf(_),     \* resolveSeed
          Repository,    \* the repositories a run may meet, by name
          EmbeddedLists, \* the built-in jar lists, oldest connector line first
          Inputs,        \* what download may be asked
          MaxDownload,   \* maxDownloadArtifacts, 128 in the code
          MaxHops,       \* maxRedirectHops, 5 in the code
          MaxFaults, MaxRuns

ASSUME BoundsAssumption == {MaxDownload, MaxHops, MaxFaults, MaxRuns} \subseteq Nat

\* The names of jars in the directory, artifact-version.jar.
Names == STRING \X Versions
FileName(coord, version) == <<BaseName(coord), version>>

ASSUME CoordsAssumption == \A c \in Coords : BaseName(c) \in STRING

\* What is downloaded has a name and comes from a coordinate; a document names
\* coordinates a URL can be made of (others are skipped, validateCoordPart).
ASSUME InputsAssumption ==
    /\ Inputs # {}
    /\ \A in \in Inputs : /\ in.urls \in Seq([name : Names, jar : Coords])
                          /\ in.repo \in DOMAIN Repository /\ SeedOf(in.set) \in Coords
ASSUME RepositoryAssumption ==
    \A r \in DOMAIN Repository : \A p \in DOMAIN Repository[r].poms : Repository[r].poms[p].deps \in Dependencies

VARIABLES input, phase,
          result, next,     \* the closure, and the index of its first member not expanded
          items, outcomes,  \* the download loop: what to fetch, and how each ended ("todo")
          step, digest, hop, tmp,  \* of the item being fetched
          disk,             \* the jars in the directory, one of a name
          temps,            \* temporary files left in the directory
          exit,             \* how the last run ended
          cut,              \* a document was not answered while resolving
          faults, kills, runs

dirVars     == <<disk, temps>>
resolveVars == <<result, next, cut>>
fetchVars   == <<outcomes, step, digest, hop, tmp>>
vars == <<input, phase, resolveVars, items, fetchVars, dirVars, exit, faults, kills, runs>>

\* What arrives of a jar: all of it, the right number of bytes but not its bytes,
\* or a part of it.
Bodies == {"whole", "corrupt", "short"}

NoFile == [name |-> <<>>, jar |-> "-", body |-> "-", readable |-> FALSE, checked |-> FALSE]

OnDisk(name) == \E f \in disk : f.name = name

\* The jars the directory may hold: readable, with all their bytes; only one that
\* no digest was published for may have the wrong ones.
Whole(f) == f.readable /\ (f.body = "whole" \/ (f.body = "corrupt" /\ ~f.checked))

Fault(n) == faults + n <= MaxFaults /\ faults' = faults + n

(***************************************************************************)
(* The connector release env.yaml deploys: the built-in list that judges   *)
(* omission, and the encoder line.                                         *)
(***************************************************************************)
ConnectorRelease(image) == IF image.ours THEN image.release ELSE NoVersion

Covers(list, tag) ==
    /\ CompareVersions(tag, list.from) >= 0
    /\ list.before = NoVersion \/ CompareVersions(tag, list.before) < 0

BuiltinList(image) ==
    LET tag     == ConnectorRelease(image)
        newest  == Len(EmbeddedLists)
        covers  == {i \in DOMAIN EmbeddedLists : Covers(EmbeddedLists[i], tag)}
        reached == {i \in DOMAIN EmbeddedLists : CompareVersions(tag, EmbeddedLists[i].from) >= 0}
    IN  IF ~image.named THEN [list |-> newest, mismatch |-> FALSE]
        ELSE IF tag = NoVersion THEN [list |-> newest, mismatch |-> TRUE]
        ELSE IF covers # {} THEN [list |-> CHOOSE i \in covers : \A j \in covers : i <= j, mismatch |-> FALSE]
        ELSE IF reached # {} THEN [list |-> CHOOSE i \in reached : \A j \in reached : i >= j, mismatch |-> TRUE]
        ELSE [list |-> 1, mismatch |-> TRUE]

\* The list omission compares against: the named file instead of, never merged
\* with, the built-in one.
ImageLibs(in) ==
    IF in.omit # NoEntries THEN in.omit ELSE EmbeddedLists[BuiltinList(in.image).list].libs

\* Mutant of ImageSatisfies: the base name alone decides.
ImageHasName(libs, a) == BaseName(a.coord) \in DOMAIN libs

ImageSatisfies(libs, a) ==
    /\ BaseName(a.coord) \in DOMAIN libs
    /\ CompareVersions(libs[BaseName(a.coord)], a.version) >= 0

Connector3Major == 3
Jackson2EncoderMajor == 8

SyslogLine(image) ==
    LET tag == ConnectorRelease(image)
    IN  IF tag # NoVersion /\ VersionMajor(tag) < Connector3Major THEN Jackson2EncoderMajor ELSE AnyMajor

\* The version the seed is resolved at before its POM is read: the pinned one,
\* the newest of the encoder line, or the latest stable release.
SeedVersion(in, lost) ==
    LET seed == SeedOf(in.set)
        known == Repository[in.repo].meta
        meta == IF <<"meta", seed>> \notin lost /\ seed \in DOMAIN known THEN known[seed]
                ELSE [release |-> NoVersion, versions |-> <<>>]
        line == IF in.set = "syslog" THEN SyslogLine(in.image) ELSE AnyMajor
    IN  IF in.version # NoVersion THEN in.version
        ELSE IF line # AnyMajor THEN HighestStable(meta.versions, line)
        ELSE LatestStable(meta)

Pinned(in) == in.version # NoVersion \/ (in.set = "syslog" /\ SyslogLine(in.image) # AnyMajor)

-----------------------------------------------------------------------------
Init ==
    /\ input = CHOOSE in \in Inputs : TRUE
    /\ phase = "idle" /\ exit = "killed"
    /\ result = <<>> /\ next = 1 /\ cut = FALSE
    /\ items = <<>> /\ outcomes = <<>>
    /\ step = "stat" /\ digest = "none" /\ hop = 0 /\ tmp = NoFile
    /\ disk = {} /\ temps = 0
    /\ faults = 0 /\ kills = 0 /\ runs = 0

ResetItem == step' = "stat" /\ digest' = "none" /\ hop' = 0 /\ tmp' = NoFile

\* download is run: named URLs go straight to the loop, a set is resolved.
Begin(in) ==
    /\ phase = "idle" /\ runs < MaxRuns
    /\ runs' = runs + 1 /\ input' = in /\ exit' = "running"
    /\ phase' = "mkdir" /\ items' = in.urls
    /\ outcomes' = [i \in DOMAIN in.urls |-> "todo"] /\ ResetItem
    /\ result' = <<>> /\ next' = 1 /\ cut' = FALSE
    /\ UNCHANGED <<dirVars, faults, kills>>

\* A systemic error: nothing is written.
Abort == phase' = "idle" /\ exit' = "failed"

\* More named URLs than one call takes, or a directory that cannot be made.
MakeDir ==
    /\ phase = "mkdir"
    /\ \/ Fault(1) /\ Abort
       \/ Len(input.urls) > MaxDownload /\ Abort /\ UNCHANGED faults
       \/ /\ Len(input.urls) <= MaxDownload
          /\ phase' = IF input.urls # <<>> THEN "items" ELSE "seed"
          /\ UNCHANGED <<exit, faults>>
    /\ UNCHANGED <<input, resolveVars, items, fetchVars, dirVars, kills, runs>>

ResolveSeed(lost) ==
    /\ phase = "seed" /\ Fault(Cardinality(lost))
    /\ LET v == SeedVersion(input, lost)
       IN  IF ValidVersion(v)
           THEN /\ phase' = "expand" /\ UNCHANGED exit
                /\ result' = <<[coord |-> SeedOf(input.set), version |-> v, fallback |-> FALSE, depth |-> 0]>>
           ELSE Abort /\ UNCHANGED result
    /\ UNCHANGED <<input, next, cut, items, fetchVars, dirVars, kills, runs>>

\* One turn of the breadth-first walk; the queue of the code is the part of result
\* from next on.  The seed's own POM must be there when its version was pinned.
Expand(lost) ==
    /\ phase = "expand" /\ next <= Len(result) /\ Fault(Cardinality(lost))
    /\ LET repo == Repository[input.repo]
           cur  == result[next]
           room == MaxArtifacts - Len(result)
           walked == cur.depth < MaxResolveDepth /\ room > 0
       IN  \E pom \in {FetchPOM(repo, lost, cur.coord, cur.version)} :
           \E chain \in {ParentChain(repo, lost, pom)} :
           \E given \in {Given(repo, lost, pom, chain, cur.version)} :
           \E taken \in {NewDependencies(pom, given, result)} :
           \E new \in {Members(pom, given, cur, taken)} :
              IF next = 1 /\ walked /\ Pinned(input) /\ ~pom.found
              THEN Abort /\ UNCHANGED resolveVars
              ELSE /\ result' = IF walked /\ pom.found /\ ~ChainFails(chain)
                                THEN result \o SubSeq(new, 1, IF Len(new) < room THEN Len(new) ELSE room)
                                ELSE result
                   /\ next' = next + 1
                   /\ cut' = (cut \/ lost # {})
                   /\ UNCHANGED <<phase, exit>>
    /\ UNCHANGED <<input, items, fetchVars, dirVars, kills, runs>>

Item(a) == [name |-> FileName(a.coord, a.version), jar |-> a.coord]

\* The members to fetch, by position: the seed whatever the image ships, the others
\* when it ships no version that would do.
Kept(libs) ==
    {i \in DOMAIN result :
        result[i].coord = SeedOf(input.set) \/ input.include \/ ~ImageSatisfies(libs, result[i])}

\* The closure is resolved: drop what the image ships.
Omit ==
    /\ phase = "expand" /\ next > Len(result)
    /\ \E libs \in {ImageLibs(input)} :
       \E wanted \in {Only(result, Kept(libs))} :
          /\ items' = [i \in DOMAIN wanted |-> Item(wanted[i])]
          /\ outcomes' = [i \in DOMAIN wanted |-> "todo"]
    /\ phase' = "items"
    /\ UNCHANGED <<input, resolveVars, step, digest, hop, tmp, dirVars, exit, faults, kills, runs>>

\* A named --omit-lib-file that cannot be read stops the run.
OmitListUnreadable ==
    /\ phase = "expand" /\ next > Len(result) /\ ~input.include /\ input.omit # NoEntries /\ Fault(1)
    /\ Abort
    /\ UNCHANGED <<input, resolveVars, items, fetchVars, dirVars, kills, runs>>

-----------------------------------------------------------------------------
(***************************************************************************)
(* The download loop.                                                      *)
(***************************************************************************)
\* Items are fetched in order.
Fetching(i, s) ==
    /\ phase = "items" /\ step = s
    /\ outcomes[i] = "todo"
    /\ \A j \in DOMAIN items : j < i => outcomes[j] # "todo"

Strict == input.urls = <<>>

\* The item is over; every error path of writeAtomic removes its temporary file.
EndItem(i, how) == outcomes' = [outcomes EXCEPT ![i] = how] /\ ResetItem

loopVars == <<input, phase, resolveVars, items, exit, kills, runs>>

Stat(i) ==
    /\ Fetching(i, "stat")
    /\ IF ~input.force /\ OnDisk(items[i].name)
       THEN EndItem(i, "skipped")
       ELSE step' = "sidecar" /\ UNCHANGED <<outcomes, digest, hop, tmp>>
    /\ UNCHANGED <<loopVars, dirVars, faults>>

\* Mutant of Redirect: one hop too many is followed.
RedirectOneMore(i) ==
    /\ Fetching(i, "sidecar") \/ Fetching(i, "jar")
    /\ IF hop > MaxHops
       THEN EndItem(i, "failed")
       ELSE hop' = hop + 1 /\ UNCHANGED <<outcomes, step, digest, tmp>>
    /\ UNCHANGED <<loopVars, dirVars, faults>>

\* Mutant of Redirect: redirects are not counted.
RedirectUncounted(i) ==
    /\ Fetching(i, "sidecar") \/ Fetching(i, "jar")
    /\ step' = "sidecar" /\ UNCHANGED <<outcomes, hop, digest, tmp>>
    /\ UNCHANGED <<loopVars, dirVars, faults>>

\* The server answers a request with a redirect; the last one allowed is an error.
Redirect(i) ==
    /\ Fetching(i, "sidecar") \/ Fetching(i, "jar")
    /\ IF hop + 1 > MaxHops
       THEN EndItem(i, "failed")
       ELSE hop' = hop + 1 /\ UNCHANGED <<outcomes, step, digest, tmp>>
    /\ UNCHANGED <<loopVars, dirVars, faults>>

\* The sidecar is there, says 404 or is broken (any other status, a body that is
\* no digest, a redirect off https, a timeout).  A wrong digest is that of
\* another jar.
Sidecar(i, answer) ==
    /\ Fetching(i, "sidecar")
    /\ Fault(IF answer \in {"right", "absent"} THEN 0 ELSE 1)
    /\ IF answer = "broken" \/ (answer = "absent" /\ Strict)
       THEN EndItem(i, "failed")
       ELSE /\ step' = "jar" /\ digest' = answer /\ hop' = 0
            /\ UNCHANGED <<outcomes, tmp>>
    /\ UNCHANGED <<loopVars, dirVars>>

\* The jar's request fails, or answers 200 and the temporary file is created.
Answer(i) ==
    /\ Fetching(i, "jar")
    /\ \/ Fault(1) /\ EndItem(i, "failed")
       \/ /\ UNCHANGED faults
          /\ step' = "copy" /\ tmp' = [NoFile EXCEPT !.jar = items[i].jar]
          /\ UNCHANGED <<outcomes, digest, hop>>
    /\ UNCHANGED <<loopVars, dirVars>>

\* Mutant of Accepts: an answer with neither a length nor a digest is taken.
AcceptsUncounted(body, counted) ==
    /\ body # "broken"
    /\ counted => body # "short"
    /\ digest = "absent" \/ (digest = "right" /\ body = "whole")

\* The checks of writeAtomic between the copy and the rename.  counted says the
\* answer had a (truthful) Content-Length; "broken" is an empty body, one over
\* the cap or a copy that failed.
Accepts(body, counted) ==
    /\ body # "broken"
    /\ counted => body # "short"
    /\ IF digest = "absent" THEN counted ELSE digest = "right" /\ body = "whole"

Copy(i, body, counted) ==
    /\ Fetching(i, "copy")
    /\ Fault(IF body = "whole" THEN 0 ELSE 1)
    /\ IF Accepts(body, counted)
       THEN /\ step' = "chmod"
            /\ tmp' = [tmp EXCEPT !.body = body, !.checked = (digest = "right")]
            /\ UNCHANGED <<outcomes, digest, hop>>
       ELSE EndItem(i, "failed")
    /\ UNCHANGED <<loopVars, dirVars>>

\* Mutant of Chmod: its error path leaves the temporary file.
ChmodLeavesFile(i) ==
    /\ Fetching(i, "chmod")
    /\ \/ Fault(1) /\ EndItem(i, "failed") /\ temps' = temps + 1
       \/ /\ step' = "rename" /\ tmp' = [tmp EXCEPT !.readable = TRUE]
          /\ UNCHANGED <<outcomes, digest, hop, faults, temps>>
    /\ UNCHANGED <<loopVars, disk>>

Chmod(i) ==
    /\ Fetching(i, "chmod")
    /\ \/ Fault(1) /\ EndItem(i, "failed")
       \/ /\ step' = "rename" /\ tmp' = [tmp EXCEPT !.readable = TRUE]
          /\ UNCHANGED <<outcomes, digest, hop, faults>>
    /\ UNCHANGED <<loopVars, dirVars>>

Rename(i) ==
    /\ Fetching(i, "rename")
    /\ \/ Fault(1) /\ EndItem(i, "failed") /\ UNCHANGED disk
       \/ /\ disk' = {f \in disk : f.name # items[i].name} \cup {[tmp EXCEPT !.name = items[i].name]}
          /\ EndItem(i, IF digest = "absent" THEN "unverified" ELSE "written")
          /\ UNCHANGED faults
    /\ UNCHANGED <<loopVars, temps>>

\* runDownload reports and exits 1 when any item failed.
Finish ==
    /\ phase = "items" /\ \A i \in DOMAIN items : outcomes[i] # "todo"
    /\ phase' = "idle"
    /\ exit' = IF \E i \in DOMAIN outcomes : outcomes[i] = "failed" THEN "failed" ELSE "ok"
    /\ UNCHANGED <<input, resolveVars, items, fetchVars, dirVars, faults, kills, runs>>

\* The process dies: what it had on disk stays, the temporary file with it.
Kill ==
    /\ phase # "idle" /\ Fault(1)
    /\ kills' = kills + 1
    /\ temps' = IF tmp = NoFile THEN temps ELSE temps + 1
    /\ phase' = "idle" /\ exit' = "killed"
    /\ ResetItem
    /\ UNCHANGED <<input, resolveVars, items, outcomes, disk, runs>>

Losses == {{}} \cup {{d} : d \in {"pom", "meta"} \X Coords}

Resolve(lost) == ResolveSeed(lost) \/ Expand(lost)

Fetch ==
    \/ MakeDir \/ Omit \/ OmitListUnreadable \/ Finish
    \/ \E i \in DOMAIN items :
        \/ Stat(i) \/ Redirect(i) \/ Answer(i) \/ Chmod(i) \/ Rename(i)
        \/ \E a \in {"right", "wrong", "absent", "broken"} : Sidecar(i, a)
        \/ \E b \in Bodies \cup {"broken"}, c \in BOOLEAN : Copy(i, b, c)

\* Every run has been made.
Rest == phase = "idle" /\ runs = MaxRuns /\ UNCHANGED vars

Next == (\E in \in Inputs : Begin(in)) \/ (\E lost \in Losses : Resolve(lost)) \/ Fetch \/ Kill \/ Rest

\* A request ends, if only by its 30 s deadline, and the loop goes on; nothing
\* makes the operator run download again or kill it.
Spec == Init /\ [][Next]_vars /\ WF_vars(Resolve({})) /\ WF_vars(Fetch)
-----------------------------------------------------------------------------
(***************************************************************************)
(* Properties.                                                             *)
(***************************************************************************)
Outcomes == {"todo", "written", "unverified", "skipped", "failed"}

\* A member of the closure: its distance from the seed, and whether its version is
\* a guess.
Member == [coord : Coords, version : Versions \ {NoVersion}, fallback : BOOLEAN, depth : Nat]

File == [name : Names, jar : Coords, body : Bodies, readable : BOOLEAN, checked : BOOLEAN]

\* Every variable keeps its type.
TypeOK ==
    /\ input \in Inputs
    /\ phase \in {"idle", "mkdir", "seed", "expand", "items"}
    /\ result \in Seq(Member)
    /\ items \in Seq([name : Names, jar : Coords]) /\ outcomes \in Seq(Outcomes)
    /\ Len(outcomes) = Len(items)
    /\ step \in {"stat", "sidecar", "jar", "copy", "chmod", "rename"}
    /\ digest \in {"none", "right", "wrong", "absent"} /\ hop \in 0..MaxHops
    /\ tmp \in [name : {NoFile.name}, jar : Coords \cup {"-"}, body : Bodies \cup {"-"},
                readable : BOOLEAN, checked : BOOLEAN]
    /\ disk \subseteq File /\ \A f, g \in disk : f.name = g.name => f = g
    /\ exit \in {"running", "ok", "failed", "killed"}
    /\ {next, temps, faults, kills, runs} \subseteq Nat /\ cut \in BOOLEAN

\* The promise of the directory (writeAtomic, and the report of runDownload):
\* whatever fails or dies, a file under a jar's name is whole and readable, it
\* is replaced in one step by a whole jar or left alone, and exit 0 means that
\* every jar the run set out to fetch is there.
Dir == INSTANCE LibsDirectory WITH
          dir     <- disk,
          wanted  <- {items[i].name : i \in DOMAIN items},
          outcome <- exit

Directory == Dir!Spec

\* writeAtomic removes its temporary file on every error path: a file is left
\* behind only by a process that was killed, and at most one.
TempsAreKills == temps <= kills

\* resolveClosureAt: members come in order of distance from the seed, once each,
\* and each at the version of the first member, in that order, that declares it.
ClosureIsNearest ==
    (phase = "expand" /\ ~cut) => \A i \in 2..Len(result) :
        LET by    == Declarers(Repository[input.repo], result, result[i].coord)
            first == CHOOSE j \in by : \A k \in by : j <= k
        IN  /\ by # {}
            /\ first < i /\ result[i].depth = result[first].depth + 1
            /\ result[i - 1].depth <= result[i].depth
            /\ [coord |-> result[i].coord, version |-> result[i].version]
                    \in Declared(Repository[input.repo], result[first])
            /\ \A k \in 1..(i - 1) : result[k].coord # result[i].coord

\* When every document was answered and no cap was reached, a run that goes on to
\* download has every dependency of every member, however the POMs refer to
\* each other.
ClosureIsClosed ==
    (phase = "items" /\ ~cut /\ Len(result) < MaxArtifacts) =>
        \A i \in DOMAIN result : result[i].depth < MaxResolveDepth =>
            \A d \in Declared(Repository[input.repo], result[i]) :
                ValidVersion(d.version) => \E k \in DOMAIN result : result[k].coord = d.coord

\* A download of a set that exits 0 leaves every jar of the closure in the
\* directory or on the image, where no older version than the one resolved
\* counts, and the seed in the directory whatever the image has.
OkLeavesClosure ==
    (exit = "ok" /\ input.urls = <<>>) =>
        \A i \in DOMAIN result :
            \/ OnDisk(FileName(result[i].coord, result[i].version))
            \/ /\ i # 1 /\ ~input.include
               /\ BaseName(result[i].coord) \in DOMAIN ImageLibs(input)
               /\ ~Older(ImageLibs(input)[BaseName(result[i].coord)], result[i].version)

\* A run ends: cycles among POMs and parents, redirects and failures included.
RunsEnd == (phase # "idle") ~> (phase = "idle")
=============================================================================
