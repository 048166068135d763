---------------------------- MODULE LibsClosure -----------------------------
(***************************************************************************)
(* The dependency closure of internal/libs/maven.go, as the operators the  *)
(* download machine (Libs) steps through: reading a POM, merging its       *)
(* parent chain, deciding which dependencies count and at which version,   *)
(* and adding one POM's dependencies to the result.                        *)
(*                                                                         *)
(* A repository is a record                                                *)
(*   meta : what maven-metadata.xml of a coordinate says                   *)
(*   poms : the POM of <<coordinate, version>>                             *)
(* and "lost" is the set of <<document kind, coordinate>> the network does *)
(* not answer for while one POM is expanded.  A version in a POM is text:  *)
(* [lit, ref], a literal when ref is "", else a ${ref}.                    *)
(***************************************************************************)
EXTENDS LibsVersions, Selections

CONSTANTS Coords,           \* Maven coordinates, and the origins of named URLs
          MaxArtifacts,     \* maxArtifacts, 64 in the code
          MaxResolveDepth,  \* maxResolveDepth, 8 in the code
          MaxParentDepth    \* maxParentDepth, 10 in the code

ASSUME CapsAssumption ==
    /\ MaxArtifacts \in Nat \ {0}
    /\ MaxResolveDepth \in Nat
    /\ MaxParentDepth \in Nat

NoEntries == [k \in {} |-> k]
NoPOM == [parent |-> <<>>, props |-> NoEntries, mgmt |-> NoEntries, deps |-> <<>>, found |-> FALSE]

Dependencies == Seq([to : Coords, version : [lit : Versions \cup {OutOfCharset}, ref : STRING],
                     scope : STRING, optional : BOOLEAN, type : STRING])

FetchPOM(repo, lost, coord, version) ==
    IF ValidVersion(version) /\ <<"pom", coord>> \notin lost /\ <<coord, version>> \in DOMAIN repo.poms
    THEN repo.poms[<<coord, version>>]
    ELSE NoPOM

\* latestStable of a coordinate; NoVersion when the document cannot be read or
\* names no stable release.
FetchLatest(repo, lost, coord) ==
    IF <<"meta", coord>> \notin lost /\ coord \in DOMAIN repo.meta
    THEN LatestStable(repo.meta[coord])
    ELSE NoVersion

\* The POM and its ancestors, child first, as far as they can be read and at
\* most MaxParentDepth of them.
ParentChain(repo, lost, pom) ==
    LET up[n \in 0..MaxParentDepth] ==
            IF n = 0 THEN <<pom>>
            ELSE LET below  == up[n - 1]
                     parent == Last(below).parent
                     next   == IF parent = <<>> THEN NoPOM ELSE FetchPOM(repo, lost, parent[1], parent[2])
                 IN  IF next.found THEN Append(below, next) ELSE below
    IN  up[MaxParentDepth]

\* A chain that does not end in a POM without a parent is an error: too deep, a
\* cycle, a bad coordinate or a parent that could not be fetched.
ChainFails(chain) == Last(chain).parent # <<>>

\* Nearer levels win.
Nearest(chain, field, key, none) ==
    LET holds == {i \in DOMAIN chain : key \in DOMAIN chain[i][field]}
    IN  IF holds = {} THEN none
        ELSE chain[CHOOSE i \in holds : \A j \in holds : i <= j][field][key]

NoText == [lit |-> NoVersion, ref |-> ""]

\* resolveProperty substitutes once: a property whose value is itself a
\* reference stays unresolved.
ResolveProperty(text, chain, projectVersion) ==
    IF text.ref = "" THEN text.lit
    ELSE IF text.ref = "project.version" THEN projectVersion
    ELSE LET value == Nearest(chain, "props", text.ref, [lit |-> NoVersion, ref |-> text.ref])
         IN  IF value.ref = "" THEN value.lit ELSE NoVersion

AcceptDependency(dep) ==
    /\ dep.scope \in {"", "compile", "runtime"}
    /\ ~dep.optional
    /\ dep.type \in {"", "jar"}

\* The version a POM gives one of its dependencies, and whether it is a guess.
ResolveDependencyVersion(repo, lost, dep, chain, projectVersion) ==
    LET raw   == IF dep.version = NoText THEN Nearest(chain, "mgmt", dep.to, NoText) ELSE dep.version
        given == ResolveProperty(raw, chain, projectVersion)
    IN  IF ValidVersion(given) THEN [version |-> given, fallback |-> FALSE]
        ELSE [version |-> FetchLatest(repo, lost, dep.to), fallback |-> TRUE]

\* The versions of all the dependencies of a POM.
Given(repo, lost, pom, chain, projectVersion) ==
    [i \in DOMAIN pom.deps |-> ResolveDependencyVersion(repo, lost, pom.deps[i], chain, projectVersion)]

\* Mutant of NewDependencies: a dependency is new when its coordinate and version are.
NewByVersion(pom, given, result) ==
    {i \in DOMAIN pom.deps :
        /\ AcceptDependency(pom.deps[i]) /\ ValidVersion(given[i].version)
        /\ \A k \in DOMAIN result : <<result[k].coord, result[k].version>> # <<pom.deps[i].to, given[i].version>>}

\* Mutant of NewDependencies: the loop breaks, not continues, at a known coordinate.
NewUntilKnown(pom, given, result) ==
    {i \in DOMAIN pom.deps :
        /\ AcceptDependency(pom.deps[i]) /\ ValidVersion(given[i].version)
        /\ \A j \in 1..i, k \in DOMAIN result : result[k].coord # pom.deps[j].to}

\* The dependencies of a POM, by position, that the loop over pom.Dependencies takes:
\* those that count, whose coordinate is new, and that some version can be found
\* for.  Of several with one coordinate the first is taken.
NewDependencies(pom, given, result) ==
    LET usable == {i \in DOMAIN pom.deps :
                      /\ AcceptDependency(pom.deps[i]) /\ ValidVersion(given[i].version)
                      /\ \A k \in DOMAIN result : result[k].coord # pom.deps[i].to}
    IN  {i \in usable : \A j \in usable : pom.deps[j].to = pom.deps[i].to => i <= j}

\* What becomes of them: the members they add to the result, in order.
Members(pom, given, cur, taken) ==
    Only([i \in DOMAIN pom.deps |->
            [coord |-> pom.deps[i].to, version |-> given[i].version,
             fallback |-> given[i].fallback, depth |-> cur.depth + 1]], taken)

(***************************************************************************)
(* The reference the resolved closure is compared with: the dependencies a *)
(* member's POM declares when every document can be read.                  *)
(***************************************************************************)
Declared(repo, member) ==
    LET pom   == FetchPOM(repo, {}, member.coord, member.version)
        chain == ParentChain(repo, {}, pom)
        given == Given(repo, {}, pom, chain, member.version)
    IN  IF ~pom.found \/ ChainFails(chain) THEN {}
        ELSE {[coord |-> pom.deps[i].to, version |-> given[i].version] :
                 i \in {k \in DOMAIN pom.deps : AcceptDependency(pom.deps[k])}}

Declarers(repo, result, coord) ==
    {i \in DOMAIN result : \E d \in Declared(repo, result[i]) : d.coord = coord /\ ValidVersion(d.version)}
=============================================================================
