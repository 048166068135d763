----------------------------- MODULE LibsProofs -----------------------------
(***************************************************************************)
(* What holds of download jar for every repository, image list, input and  *)
(* bound: what the walk over the POMs resolves, what the directory keeps   *)
(* of the jars, and what a download that exits 0 leaves.                   *)
(***************************************************************************)
EXTENDS Libs, SelectionsProofs

-----------------------------------------------------------------------------
(***************************************************************************)
(* What one turn of the walk adds to the closure.                          *)
(***************************************************************************)
MemberFrom(pom, given, cur, i) ==
    [coord |-> pom.deps[i].to, version |-> given[i].version,
     fallback |-> given[i].fallback, depth |-> cur.depth + 1]

Usable(pom, given, i) == AcceptDependency(pom.deps[i]) /\ ValidVersion(given[i].version)

\* The new members: each from a usable dependency of the POM and of a coordinate
\* that neither the result nor another of them has; and no usable dependency is
\* left out.
Fresh(pom, given, res, cur, new) ==
    /\ IsSeq(new) /\ Len(new) \in Nat /\ DOMAIN new = 1..Len(new)
    /\ \A c \in DOMAIN new : \E i \in DOMAIN pom.deps :
          /\ Usable(pom, given, i) /\ new[c] = MemberFrom(pom, given, cur, i)
          /\ \A k \in DOMAIN res : res[k].coord # pom.deps[i].to
    /\ \A c, d \in DOMAIN new : new[c].coord = new[d].coord => c = d
    /\ \A i \in DOMAIN pom.deps : Usable(pom, given, i) =>
          \/ \E k \in DOMAIN res : res[k].coord = pom.deps[i].to
          \/ \E c \in DOMAIN new : new[c].coord = pom.deps[i].to

LEMMA MembersAreFresh ==
    ASSUME NEW pom, pom.deps \in Dependencies, NEW given, NEW res, NEW cur
    PROVE  Fresh(pom, given, res, cur, Members(pom, given, cur, NewDependencies(pom, given, res)))
<1> DEFINE taken == NewDependencies(pom, given, res)
           f == [i \in DOMAIN pom.deps |-> MemberFrom(pom, given, cur, i)]
           new == Only(f, taken)
           usable == {i \in DOMAIN pom.deps :
                        /\ Usable(pom, given, i) /\ \A k \in DOMAIN res : res[k].coord # pom.deps[i].to}
<1>1. PICK n \in Nat : DOMAIN pom.deps = 1..n
  BY DEF Dependencies
<1>2. taken = {i \in usable : \A j \in usable : pom.deps[j].to = pom.deps[i].to => i <= j}
  BY DEF NewDependencies, Usable
<1>3. Members(pom, given, cur, taken) = new
  BY DEF Members, MemberFrom
<1>4. taken \in SUBSET (1..n) /\ usable \subseteq 1..n
  BY <1>1, <1>2
<1>5. \A i \in DOMAIN pom.deps : f[i] = MemberFrom(pom, given, cur, i)
  OBVIOUS
<1>6. \A i \in usable : i \in DOMAIN pom.deps /\ Usable(pom, given, i) /\ \A k \in DOMAIN res : res[k].coord # pom.deps[i].to
  OBVIOUS
<1>7. \A i \in DOMAIN pom.deps : Usable(pom, given, i) => i \in usable \/ \E k \in DOMAIN res : res[k].coord = pom.deps[i].to
  OBVIOUS
<1> HIDE DEF taken, f, usable
<1>8. PICK pos : Places(f, taken, new, pos)
  BY <1>1, <1>4, OnlyElements
<1> HIDE DEF new
<1>9. IsSeq(new) /\ Len(new) \in Nat /\ DOMAIN new = 1..Len(new)
  BY <1>8 DEF Places, IsSeq
<1>10. ASSUME NEW c \in DOMAIN new
       PROVE  /\ pos[c] \in taken /\ pos[c] \in usable /\ pos[c] \in DOMAIN pom.deps
              /\ new[c] = MemberFrom(pom, given, cur, pos[c])
  BY <1>2, <1>5, <1>6, <1>8 DEF Places
<1>11. \A c \in DOMAIN new : new[c].coord = pom.deps[pos[c]].to
  BY <1>10 DEF MemberFrom
<1>12. ASSUME NEW c \in DOMAIN new, NEW d \in DOMAIN new, new[c].coord = new[d].coord
       PROVE  c = d
  <2>1. pos[c] <= pos[d] /\ pos[d] <= pos[c]
    BY <1>2, <1>10, <1>11, <1>12
  <2>2. pos[c] \in Int /\ pos[d] \in Int
    BY <1>1, <1>10
  <2>3. pos[c] = pos[d]
    BY <2>1, <2>2
  <2> QED BY <1>8, <2>3 DEF Places
<1>13. ASSUME NEW i \in usable PROVE \E c \in DOMAIN new : new[c].coord = pom.deps[i].to
  <2> DEFINE same == {j \in usable : pom.deps[j].to = pom.deps[i].to}
  <2>1. same \in SUBSET Nat /\ same # {}
    BY <1>4
  <2>2. PICK m \in same : \A k \in same : m <= k
    BY <2>1, LeastOf
  <2>3. m \in taken
    BY <1>2, <2>2
  <2>4. PICK c \in DOMAIN new : pos[c] = m
    BY <1>8, <2>3 DEF Places
  <2> QED BY <1>11, <2>2, <2>4
<1>14. Fresh(pom, given, res, cur, new)
  <2>1. \A c \in DOMAIN new : \E i \in DOMAIN pom.deps :
          /\ Usable(pom, given, i) /\ new[c] = MemberFrom(pom, given, cur, i)
          /\ \A k \in DOMAIN res : res[k].coord # pom.deps[i].to
    BY <1>6, <1>10
  <2>2. \A i \in DOMAIN pom.deps : Usable(pom, given, i) =>
          \/ \E k \in DOMAIN res : res[k].coord = pom.deps[i].to
          \/ \E c \in DOMAIN new : new[c].coord = pom.deps[i].to
    BY <1>7, <1>13
  <2> QED BY <1>9, <1>12, <2>1, <2>2 DEF Fresh
<1> QED BY <1>3, <1>14 DEF new, taken

\* A POM that is fetched declares its dependencies.
LEMMA FetchedDeclares ==
    ASSUME NEW r \in DOMAIN Repository, NEW lost, NEW c, NEW v
    PROVE  FetchPOM(Repository[r], lost, c, v).deps \in Dependencies
<1>1. NoPOM.deps \in Dependencies
  BY DEF NoPOM, Dependencies
<1>2. <<c, v>> \in DOMAIN Repository[r].poms => Repository[r].poms[<<c, v>>].deps \in Dependencies
  BY RepositoryAssumption
<1> QED BY <1>1, <1>2 DEF FetchPOM

\* Whether a turn looks at the POM of the member it is at.
Walked == result[next].depth < MaxResolveDepth /\ Len(result) < MaxArtifacts

\* What a turn reads, and the members it could add.
Turn(lost, pom, chain, given, new) ==
    /\ pom = FetchPOM(Repository[input.repo], lost, result[next].coord, result[next].version)
    /\ chain = ParentChain(Repository[input.repo], lost, pom)
    /\ given = Given(Repository[input.repo], lost, pom, chain, result[next].version)
    /\ Fresh(pom, given, result, result[next], new)

\* r is res and the first m of the new members.
Extends(res, new, m, r) ==
    /\ IsSeq(r) /\ Len(r) \in Nat /\ DOMAIN r = 1..Len(r) /\ m \in 0..Len(new) /\ Len(r) = Len(res) + m
    /\ \A k \in 1..Len(res) : r[k] = res[k]
    /\ \A k \in 1..m : r[Len(res) + k] = new[k]

\* It adds all of them when it can and there is room, and none when it cannot.
Adds(pom, chain, new, m) ==
    /\ m # 0 => Walked /\ pom.found /\ ~ChainFails(chain)
    /\ Walked /\ pom.found /\ ~ChainFails(chain) /\ Len(result) + m < MaxArtifacts => m = Len(new)

LEMMA FrontOf ==
    ASSUME NEW res, IsSeq(res), NEW new, IsSeq(new), NEW m \in 0..Len(new)
    PROVE  Extends(res, new, m, res \o SubSeq(new, 1, m))
<1> DEFINE t == SubSeq(new, 1, m)
           r == res \o t
<1>0. new \in Seq(Elements(new)) /\ Len(new) \in Nat
  BY DEF IsSeq
<1>1. t \in Seq(Elements(new)) /\ Len(t) = m /\ \A k \in 1..m : t[k] = new[k]
  BY <1>0
<1> HIDE DEF t
<1>2. IsSeq(t)
  BY <1>1, OwnElements
<1>3. IsSeq(r)
  BY <1>2, Together
<1>4. /\ Len(res) \in Nat /\ Len(r) = Len(res) + m
      /\ \A k \in 1..Len(res) : r[k] = res[k]
      /\ \A k \in 1..m : r[Len(res) + k] = t[k]
  <2>1. /\ Len(res) \in Nat /\ Len(r) = Len(res) + Len(t)
        /\ \A k \in 1..Len(res) : r[k] = res[k]
        /\ \A k \in 1..Len(t) : r[Len(res) + k] = t[k]
    BY <1>2, TogetherIs
  <2> QED BY <1>1, <2>1
<1>5. Len(r) \in Nat /\ DOMAIN r = 1..Len(r)
  BY <1>3 DEF IsSeq
<1> HIDE DEF r
<1> QED BY <1>1, <1>3, <1>4, <1>5 DEF Extends, r, t

LEMMA TurnOf ==
    ASSUME NEW lost, Expand(lost), IsSeq(result), input.repo \in DOMAIN Repository
    PROVE  \/ phase' = "idle" /\ exit' = "failed" /\ UNCHANGED resolveVars
           \/ /\ next' = next + 1 /\ cut' = (cut \/ lost # {}) /\ UNCHANGED <<phase, exit>>
              /\ \E pom, chain, given, new :
                   /\ Turn(lost, pom, chain, given, new)
                   /\ \E m \in 0..Len(new) : Extends(result, new, m, result') /\ Adds(pom, chain, new, m)
<1> DEFINE repo == Repository[input.repo]
           cur == result[next]
           pom == FetchPOM(repo, lost, cur.coord, cur.version)
           chain == ParentChain(repo, lost, pom)
           given == Given(repo, lost, pom, chain, cur.version)
           new == Members(pom, given, cur, NewDependencies(pom, given, result))
           room == MaxArtifacts - Len(result)
           walked == cur.depth < MaxResolveDepth /\ room > 0
           here == walked /\ pom.found /\ ~ChainFails(chain)
           many == IF Len(new) < room THEN Len(new) ELSE room
<1>1. \/ Abort /\ UNCHANGED resolveVars
      \/ /\ result' = IF here THEN result \o SubSeq(new, 1, many) ELSE result
         /\ next' = next + 1 /\ cut' = (cut \/ lost # {}) /\ UNCHANGED <<phase, exit>>
  BY ZenonT(60) DEF Expand
<1>2. pom.deps \in Dependencies
  BY FetchedDeclares
<1> HIDE DEF pom, chain, given
<1>3. Fresh(pom, given, result, cur, new)
  BY <1>2, MembersAreFresh
<1>4. Turn(lost, pom, chain, given, new)
  BY <1>3 DEF Turn, pom, chain, given
<1> HIDE DEF new
<1>5. Len(result) \in Nat /\ MaxArtifacts \in Nat /\ Len(new) \in Nat /\ IsSeq(new) /\ DOMAIN result = 1..Len(result)
  BY <1>3, CapsAssumption DEF IsSeq, Fresh
<1>6. walked <=> Walked
  BY <1>5 DEF Walked
<1> HIDE DEF walked
<1>7. CASE Abort /\ UNCHANGED resolveVars
  BY <1>7 DEF Abort
<1>8. CASE ~(Abort /\ UNCHANGED resolveVars)
  <2>1. CASE here
    <3>1. many \in 0..Len(new) /\ (Len(result) + many < MaxArtifacts => many = Len(new))
      BY <1>5, <1>6, <2>1 DEF walked
    <3> HIDE DEF many
    <3>2. Extends(result, new, many, result')
      BY <1>1, <1>5, <1>8, <2>1, <3>1, FrontOf
    <3>3. Adds(pom, chain, new, many)
      BY <1>6, <2>1, <3>1 DEF Adds
    <3> QED BY <1>1, <1>4, <1>8, <3>1, <3>2, <3>3
  <2>2. CASE ~here
    <3>1. Extends(result, new, 0, result')
      BY <1>1, <1>5, <1>8, <2>2 DEF Extends
    <3>2. Adds(pom, chain, new, 0)
      BY <1>6, <2>2 DEF Adds
    <3>3. 0 \in 0..Len(new)
      BY <1>5
    <3> QED BY <1>1, <1>4, <1>8, <3>1, <3>2, <3>3
  <2> QED BY <2>1, <2>2
<1> QED BY <1>7, <1>8

-----------------------------------------------------------------------------
(***************************************************************************)
(* Types.                                                                  *)
(***************************************************************************)
ItemType == [name : Names, jar : Coords]
TmpType  == [name : {NoFile.name}, jar : Coords \cup {"-"}, body : Bodies \cup {"-"},
             readable : BOOLEAN, checked : BOOLEAN]
Steps    == {"stat", "sidecar", "jar", "copy", "chmod", "rename"}

RunTypes  == /\ input \in Inputs /\ phase \in {"idle", "mkdir", "seed", "expand", "items"}
             /\ exit \in {"running", "ok", "failed", "killed"}
             /\ next \in Nat /\ next # 0 /\ temps \in Nat /\ faults \in Nat /\ kills \in Nat /\ runs \in Nat
             /\ cut \in BOOLEAN
ItemTypes == items \in Seq(ItemType) /\ outcomes \in Seq(Outcomes) /\ Len(outcomes) = Len(items)
StepTypes == step \in Steps /\ digest \in {"none", "right", "wrong", "absent"} /\ hop \in 0..MaxHops
TmpTypes  == tmp \in TmpType
FileTypes == disk \subseteq File /\ \A f, g \in disk : f.name = g.name => f = g

\* The temporary file is of the jar being copied, and after the copy it has bytes.
TmpOf == /\ step \in {"copy", "chmod", "rename"} => tmp.jar \in Coords
         /\ step \in {"chmod", "rename"} => tmp.body \in Bodies

TypeInv == RunTypes /\ result \in Seq(Member) /\ ItemTypes /\ StepTypes /\ TmpTypes /\ TmpOf /\ FileTypes

\* The parts say what the invariant says.
LEMMA TypeParts == TypeInv => TypeOK
<1>1. TypeInv => {next, temps, faults, kills, runs} \subseteq Nat
  BY DEF TypeInv, RunTypes
<1> QED BY <1>1 DEF TypeInv, TypeOK, RunTypes, ItemTypes, StepTypes, TmpTypes, FileTypes, ItemType, TmpType, Steps

\* Nothing is being written.
LEMMA NoTmp ==
    ASSUME TypeInv, ResetItem
    PROVE  StepTypes' /\ TmpTypes' /\ TmpOf'
<1>1. 0 \in 0..MaxHops
  BY BoundsAssumption
<1> QED BY <1>1 DEF ResetItem, StepTypes, TmpTypes, TmpOf, TmpType, Steps, NoFile

\* A step that ends with no temporary file and that keeps the items and the files.
LEMMA Between ==
    ASSUME TypeInv, ResetItem \/ UNCHANGED <<step, digest, hop, tmp>>, UNCHANGED disk,
           RunTypes', ItemTypes', (result \in Seq(Member))'
    PROVE  TypeInv'
<1>1. StepTypes' /\ TmpTypes' /\ TmpOf'
  BY NoTmp DEF TypeInv, StepTypes, TmpTypes, TmpOf
<1> QED BY <1>1 DEF TypeInv, FileTypes

LEMMA FaultTypes ==
    ASSUME faults \in Nat, NEW n \in Nat, Fault(n)
    PROVE  faults' \in Nat
  BY DEF Fault

\* What the network does not answer for is a set that can be counted.
LEMMA LostCounted ==
    ASSUME NEW lost \in Losses
    PROVE  Cardinality(lost) \in Nat
<1>1. IsFiniteSet(lost)
  <2>1. CASE lost = {}
    BY <2>1, FS_EmptySet
  <2>2. ASSUME NEW d, lost = {d} PROVE IsFiniteSet(lost)
    BY <2>2, FS_Singleton
  <2> QED BY <2>1, <2>2 DEF Losses
<1> QED BY <1>1, FS_CardinalityType

\* A list of what is to do, as long as that of the items.
LEMMA AllTodo ==
    ASSUME NEW q \in Seq(ItemType)
    PROVE  LET o == [i \in DOMAIN q |-> "todo"] IN o \in Seq(Outcomes) /\ Len(o) = Len(q)
  BY DEF Outcomes

LEMMA InitTypes == Init => TypeInv
<1> SUFFICES ASSUME Init PROVE TypeInv
  OBVIOUS
<1>1. input \in Inputs
  BY InputsAssumption DEF Init
<1>2. 0 \in 0..MaxHops
  BY BoundsAssumption
<1>3. RunTypes /\ result \in Seq(Member) /\ ItemTypes
  <2>1. RunTypes
    <3>1. next = 1 /\ temps = 0 /\ faults = 0 /\ kills = 0 /\ runs = 0
      BY DEF Init
    <3>2. phase = "idle" /\ exit = "killed" /\ cut = FALSE
      BY DEF Init
    <3>3. next \in Nat /\ next # 0 /\ temps \in Nat /\ faults \in Nat /\ kills \in Nat /\ runs \in Nat
      BY <3>1
    <3> QED BY <1>1, <3>2, <3>3 DEF RunTypes
  <2>2. items = <<>> /\ outcomes = <<>> /\ result = <<>>
    BY DEF Init
  <2> QED BY <2>1, <2>2 DEF ItemTypes
<1>4. StepTypes /\ TmpTypes /\ TmpOf /\ FileTypes
  BY <1>2 DEF Init, StepTypes, TmpTypes, TmpOf, FileTypes, TmpType, Steps, NoFile
<1> QED BY <1>3, <1>4 DEF TypeInv

\* What a turn adds are members.
LEMMA GrownTypes ==
    ASSUME TypeInv, NEW lost, NEW pom, NEW chain, NEW given, NEW new, NEW m \in 0..Len(new),
           result[next] \in Member,
           Turn(lost, pom, chain, given, new), Extends(result, new, m, result')
    PROVE  (result \in Seq(Member))'
<1> DEFINE cur == result[next]
<1>1. pom.deps \in Dependencies
  BY FetchedDeclares, InputsAssumption DEF Turn, TypeInv, RunTypes
<1>2. \A i \in DOMAIN pom.deps : pom.deps[i].to \in Coords
  <2> DEFINE D == [to : Coords, version : [lit : Versions \cup {OutOfCharset}, ref : STRING],
                   scope : STRING, optional : BOOLEAN, type : STRING]
  <2>1. \A d \in D : d.to \in Coords
    OBVIOUS
  <2>2. pom.deps \in Seq(D)
    BY <1>1 DEF Dependencies
  <2> HIDE DEF D
  <2> QED BY <2>1, <2>2, ElementIn
<1>3. cur.depth + 1 \in Nat
  BY DEF Member
<1>4. ASSUME NEW i \in DOMAIN pom.deps PROVE given[i].fallback \in BOOLEAN
  BY <1>4 DEF Turn, Given, ResolveDependencyVersion
<1>5. \A i \in DOMAIN pom.deps : Usable(pom, given, i) => given[i].version \in Versions \ {NoVersion}
  BY DEF Usable, ValidVersion
<1> HIDE DEF cur
<1>6. \A i \in DOMAIN pom.deps : Usable(pom, given, i) => MemberFrom(pom, given, cur, i) \in Member
  BY <1>2, <1>3, <1>4, <1>5 DEF MemberFrom, Member
<1>7. Fresh(pom, given, result, cur, new)
  BY DEF Turn, cur
<1>8. \A c \in DOMAIN new : new[c] \in Member
  BY <1>6, <1>7 DEF Fresh
<1>9. Len(result) \in Nat /\ \A k \in 1..Len(result) : result[k] \in Member
  BY DEF TypeInv
<1>10. Len(new) \in Nat /\ DOMAIN new = 1..Len(new)
  BY <1>7 DEF Fresh
<1>11. Len(result') \in Nat /\ DOMAIN result' = 1..Len(result') /\ Len(result') = Len(result) + m
       /\ (\A k \in 1..Len(result) : result'[k] = result[k]) /\ \A k \in 1..m : result'[Len(result) + k] = new[k]
  BY DEF Extends
<1>12. ASSUME NEW k \in 1..Len(result') PROVE result'[k] \in Member
  <2>1. CASE k \in 1..Len(result)
    BY <1>9, <1>11, <2>1
  <2>2. CASE k \notin 1..Len(result)
    <3>1. k - Len(result) \in 1..m /\ m \in Nat
      BY <1>9, <1>10, <1>11, <2>2
    <3>2. result'[Len(result) + (k - Len(result))] = new[k - Len(result)]
      BY <1>11, <3>1
    <3>3. Len(result) + (k - Len(result)) = k /\ k - Len(result) \in DOMAIN new
      BY <1>9, <1>10, <1>11, <3>1
    <3> QED BY <1>8, <3>2, <3>3
  <2> QED BY <2>1, <2>2
<1>13. IsSeq(result')
  BY DEF Extends
<1> QED BY <1>12, <1>13 DEF IsSeq

\* The members to fetch are members.
LEMMA KeptTypes ==
    ASSUME result \in Seq(Member), NEW libs
    PROVE  Only(result, Kept(libs)) \in Seq(Member)
<1> DEFINE P == Kept(libs)
           r == Only(result, P)
<1>1. PICK n \in Nat : DOMAIN result = 1..n
  OBVIOUS
<1>2. P \in SUBSET (1..n)
  BY <1>1 DEF Kept
<1>3. \A i \in DOMAIN result : result[i] \in Member
  OBVIOUS
<1> HIDE DEF P
<1>4. PICK pos : Places(result, P, r, pos)
  BY <1>2, OnlyElements
<1> HIDE DEF r
<1>5. IsSeq(r) /\ \A c \in DOMAIN r : pos[c] \in P /\ r[c] = result[pos[c]]
  BY <1>4 DEF Places
<1>6. \A c \in DOMAIN r : r[c] \in Member
  BY <1>1, <1>2, <1>3, <1>5
<1>7. r \in Seq(Member)
  BY <1>5, <1>6 DEF IsSeq
<1> QED BY <1>7 DEF r, P

\* The steps outside the download loop.
LEMMA OuterTypes ==
  ASSUME TypeInv, IsSeq(result),
         \/ \E in \in Inputs : Begin(in)
         \/ MakeDir \/ (\E lost \in Losses : Resolve(lost)) \/ Omit \/ OmitListUnreadable
         \/ Finish \/ Kill \/ UNCHANGED vars
  PROVE  TypeInv'
<1> USE DEF dirVars, resolveVars, fetchVars, Abort
<1>0. RunTypes /\ result \in Seq(Member) /\ ItemTypes
  BY DEF TypeInv
<1>1. ASSUME NEW in \in Inputs, Begin(in) PROVE TypeInv'
  <2>1. in.urls \in Seq(ItemType)
    BY InputsAssumption DEF ItemType
  <2>2. ItemTypes'
    BY <1>1, <2>1, AllTodo DEF Begin, ItemTypes
  <2>3. RunTypes' /\ result' = <<>>
    <3>1. runs' \in Nat /\ UNCHANGED <<temps, faults, kills>> /\ input' \in Inputs
      BY <1>0, <1>1 DEF Begin, RunTypes
    <3>2. /\ phase' = "mkdir" /\ exit' = "running" /\ next' = 1 /\ cut' = FALSE /\ result' = <<>>
      BY <1>1 DEF Begin
    <3>3. temps' \in Nat /\ faults' \in Nat /\ kills' \in Nat /\ next' \in Nat /\ next' # 0
      BY <1>0, <3>1, <3>2 DEF RunTypes
    <3> QED BY <3>1, <3>2, <3>3 DEF RunTypes
  <2>4. ResetItem /\ UNCHANGED disk
    BY <1>1 DEF Begin
  <2> QED BY <2>2, <2>3, <2>4, Between
<1>2. ASSUME MakeDir PROVE TypeInv'
  <2>1. faults' \in Nat
    BY <1>0, <1>2, FaultTypes DEF MakeDir, RunTypes
  <2>2. RunTypes'
    BY <1>0, <1>2, <2>1 DEF MakeDir, RunTypes
  <2>3. UNCHANGED <<result, items, fetchVars, disk>>
    BY <1>2 DEF MakeDir
  <2>4. ItemTypes' /\ (result \in Seq(Member))'
    BY <1>0, <2>3 DEF ItemTypes
  <2> QED BY <2>2, <2>3, <2>4, Between
<1>3. ASSUME NEW lost \in Losses, Resolve(lost) PROVE TypeInv'
  <2>1. UNCHANGED <<input, items, fetchVars, dirVars, kills, runs>> /\ Fault(Cardinality(lost))
    BY <1>3 DEF Resolve, ResolveSeed, Expand
  <2>2. faults' \in Nat
    BY <1>0, <2>1, FaultTypes, LostCounted DEF RunTypes
  <2>3. CASE ResolveSeed(lost)
    <3>1. phase' \in {"idle", "expand", phase} /\ exit' \in {exit, "failed"} /\ UNCHANGED <<next, cut>>
      BY <2>3 DEF ResolveSeed
    <3>2. RunTypes'
      BY <1>0, <2>1, <2>2, <3>1 DEF RunTypes
    <3>3. (result \in Seq(Member))'
      <4>1. ASSUME NEW v, v \in Versions \ {NoVersion}
            PROVE  <<[coord |-> SeedOf(input.set), version |-> v, fallback |-> FALSE, depth |-> 0]>> \in Seq(Member)
        BY <1>0, <4>1, InputsAssumption DEF Member, RunTypes
      <4>2. \/ UNCHANGED result
            \/ LET v == SeedVersion(input, lost)
               IN  /\ v \in Versions \ {NoVersion}
                   /\ result' = <<[coord |-> SeedOf(input.set), version |-> v, fallback |-> FALSE, depth |-> 0]>>
        BY <2>3 DEF ResolveSeed, ValidVersion
      <4> QED BY <1>0, <4>1, <4>2
    <3> QED BY <1>0, <2>1, <3>2, <3>3, Between DEF ItemTypes
  <2>4. CASE Expand(lost)
    <3>1. input.repo \in DOMAIN Repository
      BY <1>0, InputsAssumption DEF RunTypes
    <3>2. \/ phase' = "idle" /\ exit' = "failed" /\ UNCHANGED resolveVars
          \/ /\ next' = next + 1 /\ cut' = (cut \/ lost # {}) /\ UNCHANGED <<phase, exit>>
             /\ \E pom, chain, given, new :
                  /\ Turn(lost, pom, chain, given, new)
                  /\ \E m \in 0..Len(new) : Extends(result, new, m, result') /\ Adds(pom, chain, new, m)
      BY <2>4, <3>1, TurnOf
    <3>3. RunTypes'
      <4>1. next' \in Nat /\ next' # 0
        BY <1>0, <3>2 DEF RunTypes
      <4>3. cut' \in BOOLEAN
        BY <1>0, <3>2 DEF RunTypes
      <4>2. phase' \in {"idle", phase} /\ exit' \in {exit, "failed"}
        BY <3>2
      <4> QED BY <1>0, <2>1, <2>2, <4>1, <4>2, <4>3 DEF RunTypes
    <3>4. (result \in Seq(Member))'
      <4>1. CASE UNCHANGED resolveVars
        BY <1>0, <4>1
      <4>2. CASE ~(UNCHANGED resolveVars)
        <5>1. next \in DOMAIN result
          <6>1. next <= Len(result)
            BY <2>4 DEF Expand
          <6>2. next \in Nat /\ next # 0
            BY <1>0 DEF RunTypes
          <6> QED BY <1>0, <6>1, <6>2
        <5>2. result[next] \in Member
          BY <1>0, <5>1, ElementIn
        <5> QED BY <3>2, <4>2, <5>2, GrownTypes
      <4> QED BY <4>1, <4>2
    <3> QED BY <1>0, <2>1, <3>3, <3>4, Between DEF ItemTypes
  <2> QED BY <1>3, <2>3, <2>4 DEF Resolve
<1>4. ASSUME Omit PROVE TypeInv'
  <2>1. PICK wanted : /\ wanted = Only(result, Kept(ImageLibs(input)))
                      /\ items' = [i \in DOMAIN wanted |-> Item(wanted[i])]
                      /\ outcomes' = [i \in DOMAIN wanted |-> "todo"]
    BY <1>4 DEF Omit
  <2>2. wanted \in Seq(Member)
    BY <1>0, <2>1, KeptTypes
  <2>3. \A a \in Member : Item(a) \in ItemType
    BY CoordsAssumption DEF Member, Item, ItemType, FileName, Names
  <2>4. items' \in Seq(ItemType) /\ DOMAIN items' = DOMAIN wanted
    <3>1. \A i \in DOMAIN wanted : wanted[i] \in Member
      BY <2>2
    <3>2. \A i \in DOMAIN wanted : Item(wanted[i]) \in ItemType
      BY <2>3, <3>1
    <3>3. Len(wanted) \in Nat /\ DOMAIN wanted = 1..Len(wanted)
      BY <2>2
    <3> QED BY <2>1, <3>2, <3>3
  <2>5. ItemTypes'
    BY <2>1, <2>4, AllTodo DEF ItemTypes
  <2>6. RunTypes' /\ UNCHANGED <<result, step, digest, hop, tmp, disk>>
    BY <1>0, <1>4 DEF Omit, RunTypes
  <2> QED BY <1>0, <2>5, <2>6, Between
<1>5. ASSUME OmitListUnreadable PROVE TypeInv'
  <2>1. faults' \in Nat
    BY <1>0, <1>5, FaultTypes DEF OmitListUnreadable, RunTypes
  <2>2. RunTypes' /\ UNCHANGED <<result, items, fetchVars, disk>>
    BY <1>0, <1>5, <2>1 DEF OmitListUnreadable, RunTypes
  <2> QED BY <1>0, <2>2, Between DEF ItemTypes
<1>6. ASSUME Finish PROVE TypeInv'
  <2>1. RunTypes' /\ UNCHANGED <<result, items, fetchVars, disk>>
    BY <1>0, <1>6 DEF Finish, RunTypes
  <2> QED BY <1>0, <2>1, Between DEF ItemTypes
<1>7. ASSUME Kill PROVE TypeInv'
  <2>1. faults' \in Nat
    BY <1>0, <1>7, FaultTypes DEF Kill, RunTypes
  <2>2. kills' \in Nat /\ temps' \in Nat
    BY <1>0, <1>7 DEF Kill, RunTypes
  <2>3. RunTypes' /\ ResetItem /\ UNCHANGED <<result, items, outcomes, disk>>
    BY <1>0, <1>7, <2>1, <2>2 DEF Kill, RunTypes
  <2> QED BY <1>0, <2>3, Between DEF ItemTypes
<1>8. ASSUME UNCHANGED vars PROVE TypeInv'
  <2>1. RunTypes' /\ UNCHANGED <<result, items, fetchVars, disk>>
    BY <1>0, <1>8 DEF vars, RunTypes
  <2> QED BY <1>0, <2>1, Between DEF ItemTypes
<1> QED BY <1>1, <1>2, <1>3, <1>4, <1>5, <1>6, <1>7, <1>8

\* An item that ends, however it does, and no file with it.
LEMMA EndTypes ==
    ASSUME TypeInv, NEW i, NEW how \in Outcomes, EndItem(i, how), UNCHANGED <<loopVars, temps>>,
           faults' \in Nat
    PROVE  RunTypes' /\ (result \in Seq(Member))' /\ ItemTypes' /\ StepTypes' /\ TmpTypes' /\ TmpOf'
<1>1. StepTypes' /\ TmpTypes' /\ TmpOf'
  BY NoTmp DEF EndItem
<1>2. UNCHANGED <<input, phase, result, next, cut, items, exit, kills, runs, temps>>
  BY DEF loopVars, resolveVars
<1>3. RunTypes' /\ (result \in Seq(Member))'
  BY <1>2 DEF RunTypes, TypeInv
<1>4. outcomes' = [outcomes EXCEPT ![i] = how]
  BY DEF EndItem
<1>5. outcomes \in Seq(Outcomes) /\ Len(outcomes) = Len(items) /\ items \in Seq(ItemType)
  BY DEF TypeInv, ItemTypes
<1>6. outcomes' \in Seq(Outcomes) /\ Len(outcomes') = Len(outcomes)
  <2>1. Len(outcomes) \in Nat /\ DOMAIN outcomes = 1..Len(outcomes) /\ \A k \in DOMAIN outcomes : outcomes[k] \in Outcomes
    BY <1>5
  <2>2. DOMAIN outcomes' = 1..Len(outcomes) /\ outcomes' = [k \in 1..Len(outcomes) |-> outcomes'[k]]
    BY <1>4, <2>1
  <2>3. \A k \in 1..Len(outcomes) : outcomes'[k] \in Outcomes
    BY <1>4, <2>1
  <2> QED BY <2>1, <2>2, <2>3
<1> QED BY <1>1, <1>2, <1>3, <1>5, <1>6 DEF ItemTypes

\* A step of an item that goes on.
LEMMA GoesOn ==
    ASSUME TypeInv, UNCHANGED <<loopVars, dirVars, outcomes>>, faults' \in Nat,
           StepTypes', TmpTypes', TmpOf'
    PROVE  TypeInv'
<1>1. UNCHANGED <<input, phase, result, next, cut, items, exit, kills, runs, outcomes, disk, temps>>
  BY DEF loopVars, resolveVars, dirVars
<1>2. RunTypes' /\ (result \in Seq(Member))' /\ ItemTypes' /\ FileTypes'
  BY <1>1 DEF TypeInv, RunTypes, ItemTypes, FileTypes
<1> QED BY <1>2 DEF TypeInv

\* An item that is over without a file being published.
LEMMA EndsTypes ==
    ASSUME TypeInv, NEW i, NEW how \in Outcomes, EndItem(i, how), UNCHANGED <<loopVars, dirVars>>,
           faults' \in Nat
    PROVE  TypeInv'
<1>1. RunTypes' /\ (result \in Seq(Member))' /\ ItemTypes' /\ StepTypes' /\ TmpTypes' /\ TmpOf'
  BY EndTypes DEF dirVars
<1>2. FileTypes'
  BY DEF TypeInv, FileTypes, dirVars
<1> QED BY <1>1, <1>2 DEF TypeInv

\* The steps of one item.
LEMMA ItemStepTypes ==
  ASSUME TypeInv, NEW i \in DOMAIN items,
         \/ Stat(i) \/ Redirect(i) \/ Answer(i) \/ Chmod(i) \/ Rename(i)
         \/ \E a \in {"right", "wrong", "absent", "broken"} : Sidecar(i, a)
         \/ \E b \in Bodies \cup {"broken"}, c \in BOOLEAN : Copy(i, b, c)
  PROVE  TypeInv'
<1>0. /\ StepTypes /\ TmpTypes /\ TmpOf /\ faults \in Nat /\ items[i] \in ItemType
      /\ {"failed", "skipped", "written", "unverified"} \subseteq Outcomes
      /\ 0 \in 0..MaxHops
  BY BoundsAssumption DEF TypeInv, RunTypes, ItemTypes, Outcomes
<1>1. CASE Stat(i)
  <2>1. UNCHANGED <<loopVars, dirVars, faults>>
    BY <1>1 DEF Stat
  <2>2. CASE EndItem(i, "skipped")
    BY <1>0, <2>1, <2>2, EndsTypes
  <2>3. CASE step' = "sidecar" /\ UNCHANGED <<outcomes, digest, hop, tmp>>
    <3>1. StepTypes' /\ TmpTypes' /\ TmpOf'
      BY <1>0, <2>3 DEF StepTypes, TmpTypes, TmpOf, Steps
    <3> QED BY <1>0, <2>1, <2>3, <3>1, GoesOn
  <2> QED BY <1>1, <2>2, <2>3 DEF Stat
<1>2. CASE Redirect(i)
  <2>1. UNCHANGED <<loopVars, dirVars, faults>>
    BY <1>2 DEF Redirect
  <2>2. CASE EndItem(i, "failed")
    BY <1>0, <2>1, <2>2, EndsTypes
  <2>3. CASE ~(hop + 1 > MaxHops) /\ hop' = hop + 1 /\ UNCHANGED <<outcomes, step, digest, tmp>>
    <3>1. hop' \in 0..MaxHops
      BY <1>0, <2>3, BoundsAssumption DEF StepTypes
    <3>2. StepTypes' /\ TmpTypes' /\ TmpOf'
      BY <1>0, <2>3, <3>1 DEF StepTypes, TmpTypes, TmpOf
    <3> QED BY <1>0, <2>1, <2>3, <3>2, GoesOn
  <2> QED BY <1>2, <2>2, <2>3 DEF Redirect
<1>3. CASE Answer(i)
  <2>1. UNCHANGED <<loopVars, dirVars>>
    BY <1>3 DEF Answer
  <2>2. faults' \in Nat
    BY <1>0, <1>3, FaultTypes DEF Answer
  <2>3. CASE EndItem(i, "failed")
    BY <1>0, <2>1, <2>2, <2>3, EndsTypes
  <2>4. CASE step' = "copy" /\ tmp' = [NoFile EXCEPT !.jar = items[i].jar] /\ UNCHANGED <<outcomes, digest, hop>>
    <3>1. items[i].jar \in Coords
      BY <1>0 DEF ItemType
    <3>2. StepTypes' /\ TmpTypes' /\ TmpOf'
      BY <1>0, <2>4, <3>1 DEF StepTypes, TmpTypes, TmpOf, TmpType, NoFile, Steps
    <3> QED BY <2>1, <2>2, <2>4, <3>2, GoesOn
  <2> QED BY <1>3, <2>3, <2>4 DEF Answer
<1>4. CASE Chmod(i)
  <2>1. UNCHANGED <<loopVars, dirVars>>
    BY <1>4 DEF Chmod
  <2>2. faults' \in Nat
    BY <1>0, <1>4, FaultTypes DEF Chmod
  <2>3. CASE EndItem(i, "failed")
    BY <1>0, <2>1, <2>2, <2>3, EndsTypes
  <2>4. CASE step' = "rename" /\ tmp' = [tmp EXCEPT !.readable = TRUE] /\ UNCHANGED <<outcomes, digest, hop>>
    <3>1. step = "chmod"
      BY <1>4 DEF Chmod, Fetching
    <3>2. StepTypes' /\ TmpTypes' /\ TmpOf'
      BY <1>0, <2>4, <3>1 DEF StepTypes, TmpTypes, TmpOf, TmpType, Steps
    <3> QED BY <2>1, <2>2, <2>4, <3>2, GoesOn
  <2> QED BY <1>4, <2>3, <2>4 DEF Chmod
<1>5. CASE Rename(i)
  <2>1. UNCHANGED <<loopVars, temps>> /\ step = "rename"
    BY <1>5 DEF Rename, Fetching
  <2>2. faults' \in Nat
    BY <1>0, <1>5, FaultTypes DEF Rename
  <2>3. CASE EndItem(i, "failed") /\ UNCHANGED disk
    BY <1>0, <2>1, <2>2, <2>3, EndsTypes DEF dirVars
  <2>4. CASE /\ disk' = {f \in disk : f.name # items[i].name} \cup {[tmp EXCEPT !.name = items[i].name]}
             /\ EndItem(i, IF digest = "absent" THEN "unverified" ELSE "written")
    <3> DEFINE new == [tmp EXCEPT !.name = items[i].name]
               how == IF digest = "absent" THEN "unverified" ELSE "written"
    <3>1. new \in File /\ new.name = items[i].name
      BY <1>0, <2>1 DEF TmpTypes, TmpOf, TmpType, File, ItemType
    <3>2. disk' = {f \in disk : f.name # items[i].name} \cup {new} /\ how \in Outcomes /\ EndItem(i, how)
      BY <1>0, <2>4
    <3> HIDE DEF new, how
    <3>3. FileTypes'
      BY <3>1, <3>2 DEF FileTypes, TypeInv
    <3>4. RunTypes' /\ (result \in Seq(Member))' /\ ItemTypes' /\ StepTypes' /\ TmpTypes' /\ TmpOf'
      BY <2>1, <2>2, <3>2, EndTypes
    <3> QED BY <3>3, <3>4 DEF TypeInv
  <2> QED BY <1>5, <2>3, <2>4 DEF Rename
<1>6. ASSUME NEW a \in {"right", "wrong", "absent", "broken"}, Sidecar(i, a) PROVE TypeInv'
  <2>1. UNCHANGED <<loopVars, dirVars>>
    BY <1>6 DEF Sidecar
  <2>2. faults' \in Nat
    <3>1. \A n \in {0, 1} : Fault(n) => faults' \in Nat
      BY <1>0 DEF Fault
    <3> QED BY <1>6, <3>1 DEF Sidecar
  <2>3. CASE EndItem(i, "failed")
    BY <1>0, <2>1, <2>2, <2>3, EndsTypes
  <2>4. CASE a # "broken" /\ step' = "jar" /\ digest' = a /\ hop' = 0 /\ UNCHANGED <<outcomes, tmp>>
    <3>1. StepTypes' /\ TmpTypes' /\ TmpOf'
      BY <1>0, <2>4 DEF StepTypes, TmpTypes, TmpOf, Steps
    <3> QED BY <2>1, <2>2, <2>4, <3>1, GoesOn
  <2> QED BY <1>6, <2>3, <2>4 DEF Sidecar
<1>7. ASSUME NEW b \in Bodies \cup {"broken"}, NEW c \in BOOLEAN, Copy(i, b, c) PROVE TypeInv'
  <2>1. UNCHANGED <<loopVars, dirVars>> /\ step = "copy"
    BY <1>7 DEF Copy, Fetching
  <2>2. faults' \in Nat
    <3>1. \A n \in {0, 1} : Fault(n) => faults' \in Nat
      BY <1>0 DEF Fault
    <3> QED BY <1>7, <3>1 DEF Copy
  <2>3. CASE EndItem(i, "failed")
    BY <1>0, <2>1, <2>2, <2>3, EndsTypes
  <2>4. CASE /\ Accepts(b, c) /\ step' = "chmod"
             /\ tmp' = [tmp EXCEPT !.body = b, !.checked = (digest = "right")]
             /\ UNCHANGED <<outcomes, digest, hop>>
    <3>1. b \in Bodies
      BY <2>4 DEF Accepts
    <3>2. (digest = "right") \in BOOLEAN
      OBVIOUS
    <3>3. TmpTypes'
      BY <1>0, <2>4, <3>1, <3>2 DEF TmpTypes, TmpType
    <3>4. TmpOf'
      BY <1>0, <2>1, <2>4, <3>1 DEF TmpOf, TmpTypes, TmpType
    <3>5. StepTypes'
      BY <1>0, <2>4 DEF StepTypes, Steps
    <3> QED BY <2>1, <2>2, <2>4, <3>3, <3>4, <3>5, GoesOn
  <2> QED BY <1>7, <2>3, <2>4 DEF Copy
<1> QED BY <1>1, <1>2, <1>3, <1>4, <1>5, <1>6, <1>7

LEMMA StepTypesInv == TypeInv /\ [Next]_vars => TypeInv'
<1> SUFFICES ASSUME TypeInv, [Next]_vars PROVE TypeInv'
  OBVIOUS
<1>1. IsSeq(result)
  BY OwnElements DEF TypeInv
<1> QED BY <1>1, OuterTypes, ItemStepTypes DEF Next, Fetch, Rest

LEMMA TypeInvariant == Spec => []TypeInv
  BY InitTypes, StepTypesInv, PTL DEF Spec

\* Every variable of a download keeps its type: a member of the closure has a
\* version, a file in the directory a jar and its bytes, and no two files a name.
THEOREM LibsTypes == Spec => []TypeOK
  BY TypeInvariant, TypeParts, PTL

-----------------------------------------------------------------------------
(***************************************************************************)
(* The walk.                                                               *)
(***************************************************************************)
\* Coordinates are once each.
Distinct(res) == \A i, j \in DOMAIN res : res[i].coord = res[j].coord => i = j

\* Members come by their distance, and none is further than one from the one the
\* walk is at.
Layered(res, nx) ==
    /\ \A i, j \in DOMAIN res : i <= j => res[i].depth <= res[j].depth
    /\ nx \in DOMAIN res => \A j \in DOMAIN res : res[j].depth <= res[nx].depth + 1

\* Short of the caps, what a member the walk has passed declares is in the result.
ExpandedIn(repo, res, nx) ==
    \A p \in DOMAIN res : (p < nx /\ res[p].depth < MaxResolveDepth /\ Len(res) < MaxArtifacts) =>
        \A d \in Declared(repo, res[p]) : ValidVersion(d.version) => \E k \in DOMAIN res : res[k].coord = d.coord

\* Member i is there because the walk has passed member p, the first to declare it.
SourceOf(repo, res, nx, i, p) ==
    /\ p < i /\ p < nx /\ res[i].depth = res[p].depth + 1
    /\ [coord |-> res[i].coord, version |-> res[i].version] \in Declared(repo, res[p])
    /\ \A q \in DOMAIN res : q < p =>
          \A d \in Declared(repo, res[q]) : ValidVersion(d.version) => d.coord # res[i].coord

SourcedIn(repo, res, nx) ==
    \A i \in DOMAIN res : i > 1 => \E p \in DOMAIN res : SourceOf(repo, res, nx, i, p)

\* What a POM that was read declares.
DeclaredBy(pom, chain, given) ==
    IF ~pom.found \/ ChainFails(chain) THEN {}
    ELSE {[coord |-> pom.deps[i].to, version |-> given[i].version] :
             i \in {k \in DOMAIN pom.deps : AcceptDependency(pom.deps[k])}}

LEMMA DeclaredIs ==
    ASSUME NEW repo, NEW a, NEW pom, NEW chain, NEW given,
           pom = FetchPOM(repo, {}, a.coord, a.version),
           chain = ParentChain(repo, {}, pom),
           given = Given(repo, {}, pom, chain, a.version)
    PROVE  Declared(repo, a) = DeclaredBy(pom, chain, given)
  BY DEF Declared, DeclaredBy

\* A place in the longer result is one of the shorter or a new member's.
LEMMA OldOrNew ==
    ASSUME IsSeq(result), NEW new, Len(new) \in Nat, DOMAIN new = 1..Len(new), NEW m, NEW r, Extends(result, new, m, r)
    PROVE  /\ Len(result) \in Nat /\ DOMAIN result = 1..Len(result) /\ m \in Nat
           /\ Len(r) = Len(result) + m /\ DOMAIN r = 1..(Len(result) + m)
           /\ \A k \in DOMAIN result : k \in DOMAIN r /\ r[k] = result[k]
           /\ \A k \in DOMAIN r : k \notin DOMAIN result =>
                  k > Len(result) /\ k - Len(result) \in DOMAIN new /\ r[k] = new[k - Len(result)]
           /\ \A c \in 1..m : Len(result) + c \in DOMAIN r /\ r[Len(result) + c] = new[c]
<1>1. Len(result) \in Nat /\ DOMAIN result = 1..Len(result)
  BY DEF IsSeq
<1>2. /\ DOMAIN r = 1..Len(r) /\ m \in 0..Len(new) /\ Len(r) = Len(result) + m
      /\ \A k \in 1..Len(result) : r[k] = result[k]
      /\ \A k \in 1..m : r[Len(result) + k] = new[k]
  BY DEF Extends
<1>3. m \in Nat /\ m <= Len(new)
  BY <1>2
<1>4. ASSUME NEW k \in DOMAIN r, k \notin DOMAIN result
      PROVE  k > Len(result) /\ k - Len(result) \in DOMAIN new /\ r[k] = new[k - Len(result)]
  <2>1. k \in Int /\ k > Len(result) /\ k - Len(result) \in 1..m
    BY <1>1, <1>2, <1>3, <1>4
  <2>2. r[Len(result) + (k - Len(result))] = new[k - Len(result)]
    BY <1>2, <2>1
  <2>3. Len(result) + (k - Len(result)) = k
    BY <1>1, <2>1
  <2> QED BY <1>3, <2>1, <2>2, <2>3
<1>5. \A k \in DOMAIN result : k \in DOMAIN r /\ r[k] = result[k]
  BY <1>1, <1>2, <1>3
<1>6. \A c \in 1..m : Len(result) + c \in DOMAIN r /\ r[Len(result) + c] = new[c]
  BY <1>1, <1>2, <1>3
<1> QED BY <1>1, <1>2, <1>3, <1>4, <1>5, <1>6

\* The new coordinates are once each.
LEMMA GrowsDistinct ==
    ASSUME IsSeq(result), Distinct(result), NEW pom, NEW given, NEW new, NEW m, NEW r,
           Fresh(pom, given, result, result[next], new), Extends(result, new, m, r)
    PROVE  Distinct(r)
<1>1. Len(new) \in Nat /\ DOMAIN new = 1..Len(new)
  BY DEF Fresh
<1>2. /\ Len(result) \in Nat /\ DOMAIN result = 1..Len(result) /\ DOMAIN r = 1..(Len(result) + m) /\ m \in Nat
      /\ \A k \in DOMAIN result : r[k] = result[k]
      /\ \A k \in DOMAIN r : k \notin DOMAIN result => k - Len(result) \in DOMAIN new /\ r[k] = new[k - Len(result)]
  BY <1>1, OldOrNew
<1>3. \A c \in DOMAIN new, k \in DOMAIN result : new[c].coord # result[k].coord
  BY DEF Fresh, MemberFrom
<1>4. \A c, d \in DOMAIN new : new[c].coord = new[d].coord => c = d
  BY DEF Fresh
<1> SUFFICES ASSUME NEW i \in DOMAIN r, NEW j \in DOMAIN r, r[i].coord = r[j].coord
             PROVE  i = j
  BY DEF Distinct
<1>5. CASE i \in DOMAIN result /\ j \in DOMAIN result
  BY <1>2, <1>5 DEF Distinct
<1>6. CASE i \in DOMAIN result /\ j \notin DOMAIN result
  BY <1>2, <1>3, <1>6
<1>7. CASE i \notin DOMAIN result /\ j \in DOMAIN result
  BY <1>2, <1>3, <1>7
<1>8. CASE i \notin DOMAIN result /\ j \notin DOMAIN result
  <2>1. i - Len(result) = j - Len(result)
    BY <1>2, <1>4, <1>8
  <2>2. i \in Int /\ j \in Int
    BY <1>2
  <2> QED BY <1>2, <2>1, <2>2
<1> QED BY <1>5, <1>6, <1>7, <1>8

\* The new members are one further than the one the walk is at.
LEMMA GrowsLayered ==
    ASSUME result \in Seq(Member), next \in DOMAIN result, Layered(result, next), NEW pom, NEW given, NEW new, NEW m, NEW r,
           Fresh(pom, given, result, result[next], new), Extends(result, new, m, r)
    PROVE  /\ Layered(r, next + 1)
           /\ \A k \in DOMAIN r : k \notin DOMAIN result => r[k].depth = result[next].depth + 1
<1>0. IsSeq(result)
  BY OwnElements
<1>1. Len(new) \in Nat /\ DOMAIN new = 1..Len(new)
  BY DEF Fresh
<1>2. /\ Len(result) \in Nat /\ DOMAIN result = 1..Len(result) /\ DOMAIN r = 1..(Len(result) + m) /\ m \in Nat
      /\ \A k \in DOMAIN result : r[k] = result[k]
      /\ \A k \in DOMAIN r : k \notin DOMAIN result => k - Len(result) \in DOMAIN new /\ r[k] = new[k - Len(result)]
  BY <1>0, <1>1, OldOrNew
<1>3. \A c \in DOMAIN new : new[c].depth = result[next].depth + 1
  BY DEF Fresh, MemberFrom
<1>4. \A k \in DOMAIN r : k \notin DOMAIN result => r[k].depth = result[next].depth + 1
  BY <1>2, <1>3
<1>5. \A k \in DOMAIN result : result[k].depth \in Nat
  <2>1. \A a \in Member : a.depth \in Nat
    BY DEF Member
  <2>2. \A k \in DOMAIN result : result[k] \in Member
    OBVIOUS
  <2> QED BY <2>1, <2>2
<1>6. \A i, j \in DOMAIN result : i <= j => result[i].depth <= result[j].depth
  BY DEF Layered
<1>7. \A j \in DOMAIN result : result[j].depth <= result[next].depth + 1
  BY DEF Layered
<1> DEFINE D == result[next].depth
<1>8. D \in Nat
  BY <1>5
<1>9. \A k \in DOMAIN r : r[k].depth \in Nat /\ r[k].depth <= D + 1
  BY <1>2, <1>4, <1>5, <1>7, <1>8
<1>10. ASSUME NEW i \in DOMAIN r, NEW j \in DOMAIN r, i <= j PROVE r[i].depth <= r[j].depth
  <2>1. CASE j \in DOMAIN result
    <3>1. i \in DOMAIN result
      BY <1>2, <1>10, <2>1
    <3> QED BY <1>2, <1>6, <1>10, <2>1, <3>1
  <2>2. CASE j \notin DOMAIN result
    BY <1>4, <1>8, <1>9, <2>2
  <2> QED BY <2>1, <2>2
<1>11. ASSUME next + 1 \in DOMAIN r, NEW j \in DOMAIN r PROVE r[j].depth <= r[next + 1].depth + 1
  <2>1. r[next].depth = D
    BY <1>2
  <2>2. next \in DOMAIN r /\ next <= next + 1
    BY <1>2
  <2>3. D <= r[next + 1].depth
    BY <1>10, <1>11, <2>1, <2>2
  <2>4. r[next + 1].depth \in Nat /\ r[j].depth \in Nat /\ r[j].depth <= D + 1
    BY <1>9, <1>11
  <2> QED BY <1>8, <2>3, <2>4
<1> QED BY <1>4, <1>10, <1>11 DEF Layered

\* When every document is read, what the POM declares is in the longer result.
LEMMA GrowsExpanded ==
    ASSUME result \in Seq(Member), next \in DOMAIN result, NEW repo, NEW pom, NEW chain, NEW given, NEW new,
           NEW m \in 0..Len(new), NEW r,
           repo = Repository[input.repo], ExpandedIn(repo, result, next),
           Turn({}, pom, chain, given, new), Extends(result, new, m, r), Adds(pom, chain, new, m)
    PROVE  ExpandedIn(repo, r, next + 1)
<1>0. IsSeq(result) /\ Fresh(pom, given, result, result[next], new)
  BY OwnElements DEF Turn
<1>1. Len(new) \in Nat /\ DOMAIN new = 1..Len(new)
  BY <1>0 DEF Fresh
<1>2. /\ Len(result) \in Nat /\ DOMAIN result = 1..Len(result) /\ DOMAIN r = 1..(Len(result) + m) /\ m \in Nat
      /\ Len(r) = Len(result) + m
      /\ \A k \in DOMAIN result : k \in DOMAIN r /\ r[k] = result[k]
      /\ \A c \in 1..m : Len(result) + c \in DOMAIN r /\ r[Len(result) + c] = new[c]
  <2>1. /\ Len(result) \in Nat /\ DOMAIN result = 1..Len(result) /\ DOMAIN r = 1..(Len(result) + m) /\ m \in Nat
        /\ Len(r) = Len(result) + m
        /\ \A k \in DOMAIN result : k \in DOMAIN r /\ r[k] = result[k]
    BY <1>0, <1>1, OldOrNew
  <2>2. \A c \in 1..m : Len(result) + c \in DOMAIN r /\ r[Len(result) + c] = new[c]
    BY <1>0, <1>1, OldOrNew
  <2> QED BY <2>1, <2>2
<1>3. MaxArtifacts \in Nat
  BY CapsAssumption
<1> SUFFICES ASSUME NEW p \in DOMAIN r, p < next + 1, r[p].depth < MaxResolveDepth, Len(r) < MaxArtifacts,
                    NEW d \in Declared(repo, r[p]), ValidVersion(d.version)
             PROVE  \E k \in DOMAIN r : r[k].coord = d.coord
  BY DEF ExpandedIn
<1>4. Len(result) < MaxArtifacts /\ p \in DOMAIN result /\ r[p] = result[p] /\ (p < next \/ p = next)
  BY <1>2, <1>3
<1>5. CASE p < next
  <2>1. PICK k \in DOMAIN result : result[k].coord = d.coord
    BY <1>4, <1>5 DEF ExpandedIn
  <2> QED BY <1>2, <2>1
<1>6. CASE p = next
  <2>1. /\ pom = FetchPOM(repo, {}, result[next].coord, result[next].version)
        /\ chain = ParentChain(repo, {}, pom)
        /\ given = Given(repo, {}, pom, chain, result[next].version)
    BY DEF Turn
  <2>2. d \in Declared(repo, result[next])
    BY <1>4, <1>6
  <2>3. /\ pom.found /\ ~ChainFails(chain)
        /\ \E i \in DOMAIN pom.deps : AcceptDependency(pom.deps[i]) /\ d = [coord |-> pom.deps[i].to, version |-> given[i].version]
    <3>1. d \in DeclaredBy(pom, chain, given)
      BY <2>1, <2>2, DeclaredIs
    <3> QED BY <3>1 DEF DeclaredBy
  <2>4. PICK i \in DOMAIN pom.deps : AcceptDependency(pom.deps[i]) /\ d = [coord |-> pom.deps[i].to, version |-> given[i].version]
    BY <2>3
  <2>5. Usable(pom, given, i) /\ d.coord = pom.deps[i].to
    BY <2>4 DEF Usable
  <2>6. m = Len(new)
    <3>1. Walked
      BY <1>4, <1>6 DEF Walked
    <3> QED BY <1>2, <2>3, <3>1 DEF Adds
  <2>7. \/ \E k \in DOMAIN result : result[k].coord = d.coord
        \/ \E c \in DOMAIN new : new[c].coord = d.coord
    BY <1>0, <2>5 DEF Fresh
  <2> QED BY <1>1, <1>2, <2>6, <2>7
<1> QED BY <1>4, <1>5, <1>6

\* A new member is declared by the one the walk is at, and by none before it.
LEMMA GrowsSourced ==
    ASSUME result \in Seq(Member), next \in DOMAIN result, Layered(result, next),
           NEW repo, NEW pom, NEW chain, NEW given, NEW new, NEW m \in 0..Len(new), NEW r,
           repo = Repository[input.repo], ExpandedIn(repo, result, next), SourcedIn(repo, result, next),
           Turn({}, pom, chain, given, new), Extends(result, new, m, r), Adds(pom, chain, new, m)
    PROVE  SourcedIn(repo, r, next + 1)
<1>0. IsSeq(result) /\ Fresh(pom, given, result, result[next], new)
  BY OwnElements DEF Turn
<1>1. Len(new) \in Nat /\ DOMAIN new = 1..Len(new)
  BY <1>0 DEF Fresh
<1>2. /\ Len(result) \in Nat /\ DOMAIN result = 1..Len(result) /\ DOMAIN r = 1..(Len(result) + m) /\ m \in Nat
      /\ \A k \in DOMAIN result : k \in DOMAIN r /\ r[k] = result[k]
      /\ \A k \in DOMAIN r : k \notin DOMAIN result =>
            k > Len(result) /\ k - Len(result) \in DOMAIN new /\ r[k] = new[k - Len(result)]
  BY <1>0, <1>1, OldOrNew
<1>3. MaxArtifacts \in Nat /\ MaxResolveDepth \in Nat
  BY CapsAssumption
<1>4. \A k \in DOMAIN result : result[k].depth \in Nat
  <2>1. \A a \in Member : a.depth \in Nat
    BY DEF Member
  <2>2. \A k \in DOMAIN result : result[k] \in Member
    OBVIOUS
  <2> QED BY <2>1, <2>2
<1>5. \A k \in DOMAIN r : k \in Int
  BY <1>2
<1> SUFFICES ASSUME NEW i \in DOMAIN r, i > 1 PROVE \E p \in DOMAIN r : SourceOf(repo, r, next + 1, i, p)
  BY DEF SourcedIn
<1>6. CASE i \in DOMAIN result
  <2>1. PICK p \in DOMAIN result : SourceOf(repo, result, next, i, p)
    BY <1>6 DEF SourcedIn
  <2>2. p \in DOMAIN r /\ r[p] = result[p] /\ r[i] = result[i] /\ p < i /\ p < next + 1
    BY <1>2, <1>6, <2>1 DEF SourceOf
  <2>3. \A q \in DOMAIN r : q < p => q \in DOMAIN result /\ r[q] = result[q]
    BY <1>2
  <2>4. SourceOf(repo, r, next + 1, i, p)
    BY <2>1, <2>2, <2>3 DEF SourceOf
  <2> QED BY <2>2, <2>4
<1>7. CASE i \notin DOMAIN result
  <2>1. i > Len(result) /\ i - Len(result) \in DOMAIN new /\ r[i] = new[i - Len(result)]
    BY <1>2, <1>7
  <2>2. PICK j \in DOMAIN pom.deps :
            /\ Usable(pom, given, j) /\ r[i] = MemberFrom(pom, given, result[next], j)
            /\ \A k \in DOMAIN result : result[k].coord # pom.deps[j].to
    BY <1>0, <2>1 DEF Fresh
  <2>3. m # 0
    BY <1>2, <1>7
  <2>4. Walked /\ pom.found /\ ~ChainFails(chain)
    BY <2>3 DEF Adds
  <2>5. /\ pom = FetchPOM(repo, {}, result[next].coord, result[next].version)
        /\ chain = ParentChain(repo, {}, pom)
        /\ given = Given(repo, {}, pom, chain, result[next].version)
    BY DEF Turn
  <2>6. [coord |-> pom.deps[j].to, version |-> given[j].version] \in Declared(repo, result[next])
    <3>1. j \in {k \in DOMAIN pom.deps : AcceptDependency(pom.deps[k])}
      BY <2>2 DEF Usable
    <3>2. Declared(repo, result[next]) = DeclaredBy(pom, chain, given)
      BY <2>5, DeclaredIs
    <3> QED BY <2>4, <3>1, <3>2 DEF DeclaredBy
  <2>7. r[i].coord = pom.deps[j].to /\ r[i].version = given[j].version /\ r[i].depth = result[next].depth + 1
    BY <2>2 DEF MemberFrom
  <2>8. ASSUME NEW q \in DOMAIN result, q < next, NEW d \in Declared(repo, result[q]), ValidVersion(d.version)
        PROVE  d.coord # r[i].coord
    <3>1. result[q].depth <= result[next].depth
      BY <1>2, <2>8 DEF Layered
    <3>2. result[q].depth < MaxResolveDepth /\ Len(result) < MaxArtifacts
      BY <1>3, <1>4, <2>4, <3>1 DEF Walked
    <3>3. PICK k \in DOMAIN result : result[k].coord = d.coord
      BY <2>8, <3>2 DEF ExpandedIn
    <3> QED BY <2>2, <2>7, <3>3
  <2>9. next \in DOMAIN r /\ r[next] = result[next] /\ next < i /\ next < next + 1
    BY <1>2, <1>5, <2>1
  <2>10. \A q \in DOMAIN r : q < next => q \in DOMAIN result /\ r[q] = result[q]
    BY <1>2
  <2>11. SourceOf(repo, r, next + 1, i, next)
    <3>1. \A q \in DOMAIN r : q < next =>
             \A d \in Declared(repo, r[q]) : ValidVersion(d.version) => d.coord # r[i].coord
      BY <2>8, <2>10
    <3>2. [coord |-> r[i].coord, version |-> r[i].version] \in Declared(repo, r[next])
      BY <2>6, <2>7, <2>9
    <3> QED BY <2>7, <2>9, <3>1, <3>2 DEF SourceOf
  <2> QED BY <2>9, <2>11
<1> QED BY <1>6, <1>7

Early  == phase \in {"mkdir", "seed"} => result = <<>> /\ next = 1
Done == phase = "items" => next > Len(result)
Seeded == result # <<>> => result[1].coord = SeedOf(input.set)
Told   == ~cut => /\ ExpandedIn(Repository[input.repo], result, next)
                  /\ SourcedIn(Repository[input.repo], result, next)

\* The inductive invariant of the walk.
WalkInv == Early /\ Done /\ Seeded /\ Distinct(result) /\ Layered(result, next) /\ Told

\* With no member or one, nothing is to be said.
LEMMA AtTheSeed ==
    ASSUME NEW repo, NEW res, NEW a \in Member, res = <<>> \/ res = <<a>>
    PROVE  Distinct(res) /\ Layered(res, 1) /\ ExpandedIn(repo, res, 1) /\ SourcedIn(repo, res, 1)
<1>1. DOMAIN res \subseteq {1} /\ \A i \in DOMAIN res : res[i] = a
  OBVIOUS
<1>2. a.depth \in Nat
  BY DEF Member
<1>3. Distinct(res)
  BY <1>1 DEF Distinct
<1>4. Layered(res, 1)
  BY <1>1, <1>2 DEF Layered
<1>5. ExpandedIn(repo, res, 1)
  BY <1>1 DEF ExpandedIn
<1>6. SourcedIn(repo, res, 1)
  BY <1>1 DEF SourcedIn
<1> QED BY <1>3, <1>4, <1>5, <1>6

\* There are coordinates, and so members.
LEMMA SomeMember == \E a : a \in Member
<1>1. PICK in \in Inputs : TRUE
  BY InputsAssumption
<1>2. <<0>> \in Versions \ {NoVersion}
  BY DEF Versions, NoVersion
<1>3. [coord |-> SeedOf(in.set), version |-> <<0>>, fallback |-> FALSE, depth |-> 0] \in Member
  BY <1>2, InputsAssumption DEF Member
<1> QED BY <1>3

LEMMA InitWalk == Init => WalkInv
<1> SUFFICES ASSUME Init PROVE WalkInv
  OBVIOUS
<1>1. result = <<>> /\ next = 1 /\ cut = FALSE /\ phase = "idle"
  BY DEF Init
<1>2. PICK a : a \in Member
  BY SomeMember
<1>3. Distinct(result) /\ Layered(result, next)
      /\ ExpandedIn(Repository[input.repo], result, next) /\ SourcedIn(Repository[input.repo], result, next)
  BY <1>1, <1>2, AtTheSeed
<1>4. Early /\ Done /\ Seeded /\ Told
  BY <1>1, <1>3 DEF Early, Done, Seeded, Told
<1> QED BY <1>3, <1>4 DEF WalkInv

\* A step that leaves the walk alone.
LEMMA WalkStays ==
    ASSUME WalkInv, UNCHANGED <<input, result, next, cut>>, Early', Done'
    PROVE  WalkInv'
<1>1. Seeded' /\ Distinct(result)' /\ Layered(result, next)'
  BY DEF WalkInv, Seeded, Distinct, Layered
<1>2. Told'
  BY DEF WalkInv, Told
<1> QED BY <1>1, <1>2 DEF WalkInv

\* A turn of the walk.
LEMMA WalkTurn ==
    ASSUME TypeInv, WalkInv, NEW lost, Expand(lost)
    PROVE  WalkInv'
<1> DEFINE repo == Repository[input.repo]
<1>0. /\ result \in Seq(Member) /\ IsSeq(result) /\ input \in Inputs /\ next \in Nat /\ next # 0 /\ cut \in BOOLEAN
      /\ Len(result) \in Nat
  BY OwnElements DEF TypeInv, RunTypes
<1>1. input.repo \in DOMAIN Repository
  BY <1>0, InputsAssumption
<1>2. phase = "expand" /\ next <= Len(result) /\ UNCHANGED input
  BY DEF Expand
<1>3. next \in DOMAIN result
  BY <1>0, <1>2
<1>4. \/ phase' = "idle" /\ exit' = "failed" /\ UNCHANGED resolveVars
      \/ /\ next' = next + 1 /\ cut' = (cut \/ lost # {}) /\ UNCHANGED <<phase, exit>>
         /\ \E pom, chain, given, new :
              /\ Turn(lost, pom, chain, given, new)
              /\ \E m \in 0..Len(new) : Extends(result, new, m, result') /\ Adds(pom, chain, new, m)
  BY <1>0, <1>1, TurnOf
<1>5. CASE phase' = "idle" /\ UNCHANGED resolveVars
  BY <1>2, <1>5, WalkStays DEF resolveVars, Early, Done
<1>6. CASE ~(phase' = "idle" /\ UNCHANGED resolveVars)
  <2>1. next' = next + 1 /\ cut' = (cut \/ lost # {}) /\ phase' = "expand"
    BY <1>2, <1>4, <1>6
  <2>2. PICK pom, chain, given, new :
          /\ Turn(lost, pom, chain, given, new)
          /\ \E m \in 0..Len(new) : Extends(result, new, m, result') /\ Adds(pom, chain, new, m)
    BY <1>4, <1>6
  <2>3. PICK m \in 0..Len(new) : Extends(result, new, m, result') /\ Adds(pom, chain, new, m)
    BY <2>2
  <2>4. PICK r : r = result'
    OBVIOUS
  <2>5. Extends(result, new, m, r) /\ Fresh(pom, given, result, result[next], new)
    BY <2>2, <2>3, <2>4 DEF Turn
  <2>6. Distinct(result) /\ Layered(result, next) /\ Told /\ Seeded
    BY DEF WalkInv
  <2>7. Distinct(r)
    BY <1>0, <2>5, <2>6, GrowsDistinct
  <2>8. Layered(r, next + 1)
    BY <1>0, <1>3, <2>5, <2>6, GrowsLayered
  <2>9. ASSUME ~cut' PROVE ExpandedIn(repo, r, next + 1) /\ SourcedIn(repo, r, next + 1)
    <3>1. ~cut /\ lost = {}
      BY <2>1, <2>9
    <3>2. ExpandedIn(repo, result, next) /\ SourcedIn(repo, result, next) /\ Turn({}, pom, chain, given, new)
      BY <2>2, <2>6, <3>1 DEF Told
    <3>3. ExpandedIn(repo, r, next + 1)
      BY <1>0, <1>3, <2>3, <2>5, <3>2, GrowsExpanded
    <3>4. SourcedIn(repo, r, next + 1)
      BY <1>0, <1>3, <2>3, <2>5, <2>6, <3>2, GrowsSourced
    <3> QED BY <3>3, <3>4
  <2>10. r[1] = result[1] /\ result # <<>>
    BY <1>0, <1>2, <2>5 DEF Extends
  <2>11. Seeded' /\ Early' /\ Done'
    BY <1>2, <2>1, <2>4, <2>6, <2>10 DEF Seeded, Early, Done
  <2>12. Distinct(result)' /\ Layered(result, next)'
    BY <2>1, <2>4, <2>7, <2>8
  <2>13. Told'
    BY <1>2, <2>1, <2>4, <2>9 DEF Told
  <2> QED BY <2>11, <2>12, <2>13 DEF WalkInv
<1> QED BY <1>4, <1>5, <1>6

\* The other steps.
LEMMA WalkOuter ==
  ASSUME TypeInv, WalkInv,
         \/ \E in \in Inputs : Begin(in)
         \/ MakeDir \/ (\E lost \in Losses : ResolveSeed(lost)) \/ Omit \/ OmitListUnreadable
         \/ Finish \/ Kill \/ UNCHANGED vars
  PROVE  WalkInv'
<1> USE DEF resolveVars, Abort
<1>0. Early /\ Done
  BY DEF WalkInv
<1>1. ASSUME NEW in \in Inputs, Begin(in) PROVE WalkInv'
  <2>1. result' = <<>> /\ next' = 1 /\ cut' = FALSE /\ phase' = "mkdir"
    BY <1>1 DEF Begin
  <2>2. PICK r, n, repo : r = result' /\ n = next' /\ repo = Repository[input'.repo]
    OBVIOUS
  <2>3. PICK a : a \in Member
    BY SomeMember
  <2>4. Distinct(r) /\ Layered(r, n) /\ ExpandedIn(repo, r, n) /\ SourcedIn(repo, r, n)
    BY <2>1, <2>2, <2>3, AtTheSeed
  <2>5. Distinct(result)' /\ Layered(result, next)' /\ Told'
    BY <2>2, <2>4 DEF Told
  <2>6. Early' /\ Done' /\ Seeded'
    BY <2>1 DEF Early, Done, Seeded
  <2> QED BY <2>5, <2>6 DEF WalkInv
<1>2. ASSUME MakeDir PROVE WalkInv'
  <2>1. phase = "mkdir" /\ UNCHANGED <<input, result, next, cut>>
    BY <1>2 DEF MakeDir
  <2>2. result = <<>> /\ next = 1
    BY <1>0, <2>1 DEF Early
  <2>3. Early' /\ Done'
    BY <2>1, <2>2 DEF Early, Done
  <2> QED BY <2>1, <2>3, WalkStays
<1>3. ASSUME NEW lost \in Losses, ResolveSeed(lost) PROVE WalkInv'
  <2>1. phase = "seed" /\ UNCHANGED <<input, next, cut>>
    BY <1>3 DEF ResolveSeed
  <2>2. result = <<>> /\ next = 1
    BY <1>0, <2>1 DEF Early
  <2>3. CASE Abort /\ UNCHANGED result
    <3>1. Early' /\ Done'
      BY <2>3 DEF Early, Done
    <3> QED BY <2>1, <2>3, <3>1, WalkStays
  <2>4. CASE ~(Abort /\ UNCHANGED result)
    <3>1. PICK v : /\ v \in Versions \ {NoVersion} /\ phase' = "expand"
                   /\ result' = <<[coord |-> SeedOf(input.set), version |-> v, fallback |-> FALSE, depth |-> 0]>>
      BY <1>3, <2>4 DEF ResolveSeed, ValidVersion
    <3>2. PICK a : a = [coord |-> SeedOf(input.set), version |-> v, fallback |-> FALSE, depth |-> 0]
      OBVIOUS
    <3>3. a \in Member
      BY <3>1, <3>2, InputsAssumption DEF Member, TypeInv, RunTypes
    <3>4. PICK r, n, repo : r = result' /\ n = next' /\ repo = Repository[input'.repo]
      OBVIOUS
    <3>5. r = <<a>> /\ n = 1
      BY <2>1, <2>2, <3>1, <3>2, <3>4
    <3>6. Distinct(r) /\ Layered(r, n) /\ ExpandedIn(repo, r, n) /\ SourcedIn(repo, r, n)
      BY <3>3, <3>5, AtTheSeed
    <3>7. Distinct(result)' /\ Layered(result, next)' /\ Told'
      BY <3>4, <3>6 DEF Told
    <3>8. r[1] = a /\ a.coord = SeedOf(input.set)
      BY <3>2, <3>5
    <3>9. Early' /\ Done' /\ Seeded'
      BY <2>1, <3>1, <3>4, <3>8 DEF Early, Done, Seeded
    <3> QED BY <3>7, <3>9 DEF WalkInv
  <2> QED BY <2>3, <2>4
<1>4. ASSUME Omit PROVE WalkInv'
  <2>1. UNCHANGED <<input, result, next, cut>> /\ next > Len(result) /\ phase' = "items"
    BY <1>4 DEF Omit
  <2>2. Early' /\ Done'
    BY <2>1 DEF Early, Done
  <2> QED BY <2>1, <2>2, WalkStays
<1>5. ASSUME OmitListUnreadable \/ Finish \/ Kill PROVE WalkInv'
  <2>1. UNCHANGED <<input, result, next, cut>> /\ phase' = "idle"
    BY <1>5 DEF OmitListUnreadable, Finish, Kill
  <2>2. Early' /\ Done'
    BY <2>1 DEF Early, Done
  <2> QED BY <2>1, <2>2, WalkStays
<1>6. ASSUME UNCHANGED vars PROVE WalkInv'
  <2>1. UNCHANGED <<input, result, next, cut, phase>>
    BY <1>6 DEF vars
  <2>2. Early' /\ Done'
    BY <1>0, <2>1 DEF Early, Done
  <2> QED BY <2>1, <2>2, WalkStays
<1> QED BY <1>1, <1>2, <1>3, <1>4, <1>5, <1>6

LEMMA WalkStep == TypeInv /\ WalkInv /\ [Next]_vars => WalkInv'
<1> SUFFICES ASSUME TypeInv, WalkInv, [Next]_vars PROVE WalkInv'
  OBVIOUS
<1>1. ASSUME NEW i \in DOMAIN items,
             \/ Stat(i) \/ Redirect(i) \/ Answer(i) \/ Chmod(i) \/ Rename(i)
             \/ \E a \in {"right", "wrong", "absent", "broken"} : Sidecar(i, a)
             \/ \E b \in Bodies \cup {"broken"}, c \in BOOLEAN : Copy(i, b, c)
      PROVE  WalkInv'
  <2>1. UNCHANGED loopVars
    BY <1>1 DEF Stat, Redirect, Answer, Chmod, Rename, Sidecar, Copy
  <2>2. UNCHANGED <<input, result, next, cut, phase>>
    BY <2>1 DEF loopVars, resolveVars
  <2>3. Early' /\ Done'
    BY <2>2 DEF WalkInv, Early, Done
  <2> QED BY <2>2, <2>3, WalkStays
<1>2. ASSUME NEW lost \in Losses, Resolve(lost) PROVE WalkInv'
  BY <1>2, WalkTurn, WalkOuter DEF Resolve
<1> QED BY <1>1, <1>2, WalkOuter DEF Next, Fetch, Rest

LEMMA WalkInvariant == Spec => [](TypeInv /\ WalkInv)
<1>1. Init => WalkInv
  BY InitWalk
<1>2. TypeInv /\ WalkInv /\ [Next]_vars => WalkInv'
  BY WalkStep
<1> QED BY <1>1, <1>2, TypeInvariant, PTL DEF Spec

\* The member a new one comes from is the first of all that declare it.
LEMMA SourceIsFirst ==
    ASSUME TypeInv, WalkInv, ~cut, NEW i \in 2..Len(result)
    PROVE  LET by    == Declarers(Repository[input.repo], result, result[i].coord)
               first == CHOOSE j \in by : \A k \in by : j <= k
           IN  by # {} /\ first \in DOMAIN result /\ SourceOf(Repository[input.repo], result, next, i, first)
<1> DEFINE repo == Repository[input.repo]
           by    == Declarers(repo, result, result[i].coord)
           first == CHOOSE j \in by : \A k \in by : j <= k
<1>1. Len(result) \in Nat /\ DOMAIN result = 1..Len(result) /\ result \in Seq(Member)
  BY DEF TypeInv
<1>2. i \in DOMAIN result /\ i > 1
  BY <1>1
<1>3. PICK p \in DOMAIN result : SourceOf(repo, result, next, i, p)
  BY <1>2 DEF WalkInv, Told, SourcedIn
<1>4. ValidVersion(result[i].version)
  <2>1. \A a \in Member : ValidVersion(a.version)
    BY DEF Member, ValidVersion
  <2> QED BY <1>1, <1>2, <2>1
<1>5. p \in by
  <2>1. PICK d : d = [coord |-> result[i].coord, version |-> result[i].version]
    OBVIOUS
  <2>2. d \in Declared(repo, result[p]) /\ d.coord = result[i].coord /\ ValidVersion(d.version)
    BY <1>3, <1>4, <2>1 DEF SourceOf
  <2> QED BY <2>2 DEF Declarers
<1>6. \A k \in by : k \in DOMAIN result /\ ~(k < p)
  BY <1>3 DEF Declarers, SourceOf
<1> HIDE DEF by, repo
<1>7. p \in Int /\ \A k \in by : k \in Int
  BY <1>1, <1>6
<1>8. \A k \in by : p <= k
  BY <1>6, <1>7
<1>9. first = p
  <2>1. first \in by /\ \A k \in by : first <= k
    BY <1>5, <1>8
  <2>2. first <= p /\ p <= first /\ first \in Int
    BY <1>5, <1>7, <1>8, <2>1
  <2> HIDE DEF first
  <2> QED BY <1>7, <2>2
<1> HIDE DEF first
<1> QED BY <1>3, <1>5, <1>9 DEF by, repo, first

\* The members of a closure that is being resolved come in order of distance from
\* the seed, once each, each at the version of the first member that declares it
\* (resolveClosureAt), whatever the repository holds.
THEOREM ResolvesNearest == Spec => []ClosureIsNearest
<1>1. TypeInv /\ WalkInv => ClosureIsNearest
  <2> SUFFICES ASSUME TypeInv, WalkInv, phase = "expand", ~cut, NEW i \in 2..Len(result)
               PROVE  LET by    == Declarers(Repository[input.repo], result, result[i].coord)
                          first == CHOOSE j \in by : \A k \in by : j <= k
                      IN  /\ by # {}
                          /\ first < i /\ result[i].depth = result[first].depth + 1
                          /\ result[i - 1].depth <= result[i].depth
                          /\ [coord |-> result[i].coord, version |-> result[i].version]
                                  \in Declared(Repository[input.repo], result[first])
                          /\ \A k \in 1..(i - 1) : result[k].coord # result[i].coord
    BY DEF ClosureIsNearest
  <2>1. Len(result) \in Nat /\ DOMAIN result = 1..Len(result)
    BY DEF TypeInv
  <2>2. Distinct(result) /\ Layered(result, next)
    BY DEF WalkInv
  <2>3. i - 1 \in DOMAIN result /\ i \in DOMAIN result /\ i - 1 <= i
    BY <2>1
  <2>4. result[i - 1].depth <= result[i].depth
    BY <2>2, <2>3 DEF Layered
  <2>5. \A k \in 1..(i - 1) : result[k].coord # result[i].coord
    <3>1. \A k \in 1..(i - 1) : k \in DOMAIN result /\ k # i
      BY <2>1, <2>3
    <3> QED BY <2>2, <2>3, <3>1 DEF Distinct
  <2> QED BY <2>4, <2>5, SourceIsFirst DEF SourceOf
<1> QED BY <1>1, WalkInvariant, PTL

\* When every document was answered and no cap was reached, a run that goes on to
\* download has every dependency of every member (resolveClosureAt), cycles among
\* the POMs included.
THEOREM ResolvesAll == Spec => []ClosureIsClosed
<1>1. TypeInv /\ WalkInv => ClosureIsClosed
  <2> SUFFICES ASSUME TypeInv, WalkInv, phase = "items", ~cut, Len(result) < MaxArtifacts,
                      NEW i \in DOMAIN result, result[i].depth < MaxResolveDepth,
                      NEW d \in Declared(Repository[input.repo], result[i]), ValidVersion(d.version)
               PROVE  \E k \in DOMAIN result : result[k].coord = d.coord
    BY DEF ClosureIsClosed
  <2>1. Len(result) \in Nat /\ DOMAIN result = 1..Len(result) /\ next \in Nat
    BY DEF TypeInv, RunTypes
  <2>2. next > Len(result) /\ ExpandedIn(Repository[input.repo], result, next)
    BY DEF WalkInv, Done, Told
  <2>3. i < next
    BY <2>1, <2>2
  <2> QED BY <2>2, <2>3 DEF ExpandedIn
<1> QED BY <1>1, WalkInvariant, PTL

-----------------------------------------------------------------------------
(***************************************************************************)
(* Versions.                                                               *)
(***************************************************************************)
Plain == Seq(Nat \cup {Rel})

\* Where a version without a pre-release or a service pack is compared with another:
\* the comparison and the order of the two agree.
LEMMA PlainAt ==
    ASSUME NEW a \in Plain, NEW b \in Versions, NEW i \in Nat \ {0}, i <= Len(a) \/ i <= Len(b)
    PROVE  /\ Key(a, i) = Key(b, i) => CompareAt(a, b, i) = 0
           /\ CompareAt(a, b, i) = 0 => Key(a, i) = Key(b, i)
           /\ CompareAt(a, b, i) > 0 => Key(a, i) > Key(b, i)
           /\ CompareAt(a, b, i) \in Int /\ Key(a, i) \in Int /\ Key(b, i) \in Int
<1> USE DEF CompareAt, Key, CompareVersionSegment, RankExtraSegment, ReleaseVersus, TextRank, Sign, IsNumber, Pre, Rel, Sp
<1>0. Len(a) \in Nat /\ Len(b) \in Nat
  BY DEF Plain, Versions
<1>1. i <= Len(a) => a[i] \in Nat \cup {Rel}
  BY <1>0 DEF Plain
<1>2. i <= Len(b) => b[i] \in Nat \cup {Pre, Rel, Sp}
  BY <1>0 DEF Versions
<1>3. CASE i <= Len(a) /\ i <= Len(b)
  <2>1. PICK x, y : x = a[i] /\ y = b[i]
    OBVIOUS
  <2>2. x \in Nat \cup {Rel} /\ y \in Nat \cup {Pre, Rel, Sp}
    BY <1>1, <1>2, <1>3, <2>1
  <2>3. /\ CompareAt(a, b, i) = CompareVersionSegment(x, y)
        /\ Key(a, i) = IF x = Rel THEN 1 ELSE 3 + x
        /\ Key(b, i) = IF y = Rel THEN 1 ELSE IF y = Pre THEN 0 ELSE IF y = Sp THEN 2 ELSE 3 + y
    BY <1>0, <1>3, <2>1, <2>2
  <2>4. CASE x \in Nat /\ y \in Nat
    BY <2>3, <2>4, SMTT(30)
  <2>5. CASE x = Rel
    <3>1. Key(a, i) = 1
      BY <2>3, <2>5
    <3>2. CASE y \in Nat
      BY <2>3, <2>5, <3>1, <3>2
    <3>3. CASE y = Rel
      BY <2>3, <2>5, <3>1, <3>3
    <3>4. CASE y = Pre
      BY <2>3, <2>5, <3>1, <3>4
    <3>5. CASE y = Sp
      BY <2>3, <2>5, <3>1, <3>5
    <3> QED BY <2>2, <3>2, <3>3, <3>4, <3>5
  <2>6. CASE x \in Nat /\ y \in {Pre, Rel, Sp}
    BY <2>3, <2>6
  <2> QED BY <2>2, <2>4, <2>5, <2>6
<1>4. CASE i <= Len(a) /\ ~(i <= Len(b))
  <2>1. PICK x : x = a[i]
    OBVIOUS
  <2>2. x \in Nat \cup {Rel} /\ CompareAt(a, b, i) = RankExtraSegment(x) /\ Key(b, i) = 1
    BY <1>0, <1>1, <1>4, <2>1
  <2>3. CASE x = Rel
    BY <1>0, <1>4, <2>1, <2>2, <2>3
  <2>4. CASE x \in Nat
    <3>1. x # Rel /\ x # Pre /\ x # Sp
      BY <2>4
    <3>2. CompareAt(a, b, i) = 1 /\ Key(a, i) = 3 + x
      BY <1>0, <1>4, <2>1, <2>2, <3>1
    <3> QED BY <2>2, <2>4, <3>2
  <2> QED BY <2>2, <2>3, <2>4
<1>5. CASE ~(i <= Len(a)) /\ i <= Len(b)
  <2>1. PICK y : y = b[i]
    OBVIOUS
  <2>2. y \in Nat \cup {Pre, Rel, Sp} /\ CompareAt(a, b, i) = -RankExtraSegment(y) /\ Key(a, i) = 1
    BY <1>0, <1>2, <1>5, <2>1
  <2>0. /\ RankExtraSegment(Rel) = 0 /\ RankExtraSegment(Pre) = -1 /\ RankExtraSegment(Sp) = 1
        /\ \A n \in Nat : RankExtraSegment(n) = 1
    OBVIOUS
  <2> HIDE DEF CompareAt, RankExtraSegment
  <2>3. CASE y = Rel
    <3>1. Key(b, i) = 1
      BY <1>0, <1>5, <2>1, <2>3
    <3>2. CompareAt(a, b, i) = 0
      BY <2>0, <2>2, <2>3
    <3> QED BY <2>2, <3>1, <3>2
  <2>4. CASE y = Pre
    <3>1. Key(b, i) = 0
      BY <1>0, <1>5, <2>1, <2>4
    <3>2. CompareAt(a, b, i) = 1
      BY <2>0, <2>2, <2>4
    <3> QED BY <2>2, <3>1, <3>2
  <2>5. CASE y = Sp
    <3>1. Key(b, i) = 2
      BY <1>0, <1>5, <2>1, <2>5
    <3>2. CompareAt(a, b, i) = -1
      BY <2>0, <2>2, <2>5
    <3> QED BY <2>2, <3>1, <3>2
  <2>6. CASE y \in Nat
    <3>1. y # Rel /\ y # Pre /\ y # Sp
      BY <2>6
    <3>2. Key(b, i) = 3 + y
      BY <1>0, <1>5, <2>1, <3>1
    <3>3. CompareAt(a, b, i) = -1
      BY <2>0, <2>2, <2>6
    <3> QED BY <2>2, <2>6, <3>2, <3>3
  <2> QED BY <2>2, <2>3, <2>4, <2>5, <2>6
<1> QED BY <1>0, <1>3, <1>4, <1>5

\* A version without a pre-release or a service pack that compares as at least
\* another is not older (compareVersions).
LEMMA PlainOrder ==
    ASSUME NEW a \in Plain, NEW b \in Versions, CompareVersions(a, b) >= 0
    PROVE  ~Older(a, b)
<1> DEFINE n == IF Len(a) > Len(b) THEN Len(a) ELSE Len(b)
           deciding == {i \in 1..n : CompareAt(a, b, i) # 0}
           least == CHOOSE i \in deciding : \A j \in deciding : i <= j
<1>1. Len(a) \in Nat /\ Len(b) \in Nat
  BY DEF Plain, Versions
<1>2. \A i \in 1..n : i \in Nat \ {0} /\ (i <= Len(a) \/ i <= Len(b))
  BY <1>1
<1> SUFFICES ASSUME NEW i \in 1..n, Key(a, i) < Key(b, i), \A j \in 1..(i - 1) : Key(a, j) = Key(b, j)
             PROVE  FALSE
  BY DEF Older
<1>3. CompareVersions(a, b) = IF deciding = {} THEN 0 ELSE CompareAt(a, b, least)
  BY DEF CompareVersions
<1>4. i \in Nat /\ n \in Nat /\ Key(a, i) \in Int /\ Key(b, i) \in Int /\ CompareAt(a, b, i) \in Int
  BY <1>1, <1>2, PlainAt
<1>5. CompareAt(a, b, i) # 0 /\ ~(CompareAt(a, b, i) > 0)
  BY <1>2, <1>4, PlainAt
<1>6. \A j \in 1..(i - 1) : CompareAt(a, b, j) = 0
  <2>1. \A j \in 1..(i - 1) : j \in 1..n
    BY <1>4
  <2> QED BY <1>2, <2>1, PlainAt
<1>7. i \in deciding
  BY <1>5
<1>8. \A j \in deciding : i <= j
  <2> SUFFICES ASSUME NEW j \in deciding, ~(i <= j) PROVE FALSE
    OBVIOUS
  <2>1. j \in 1..(i - 1)
    BY <1>4
  <2> QED BY <1>6, <2>1
<1>9. \A j \in deciding : j \in Int
  OBVIOUS
<1> HIDE DEF deciding
<1>10. least \in deciding /\ \A j \in deciding : least <= j
  BY <1>7, <1>8
<1> HIDE DEF least
<1>11. least = i
  BY <1>7, <1>8, <1>9, <1>10
<1>12. CompareVersions(a, b) = CompareAt(a, b, i)
  BY <1>3, <1>7, <1>11
<1> QED BY <1>4, <1>5, <1>12

-----------------------------------------------------------------------------
(***************************************************************************)
(* The directory.                                                          *)
(***************************************************************************)
\* The inductive invariant: an item that is over without a failure has its file
\* on disk, a temporary file past the checks is one the directory may hold, and
\* only a kill leaves one behind.
Ended    == \A i \in DOMAIN items : outcomes[i] \notin {"todo", "failed"} => OnDisk(items[i].name)
Shaped   == outcomes = [i \in DOMAIN items |-> outcomes[i]]
Checked  == /\ tmp = [name |-> tmp.name, jar |-> tmp.jar, body |-> tmp.body,
                      readable |-> tmp.readable, checked |-> tmp.checked]
            /\ step \in {"chmod", "rename"} => Whole([tmp EXCEPT !.readable = TRUE])
            /\ step = "rename" => tmp.readable = TRUE
Running  == /\ (phase = "idle") = (exit # "running")
            /\ phase \in {"idle", "mkdir", "seed", "expand", "items"}
Counted  == temps \in Nat /\ kills \in Nat /\ temps <= kills

IInv == Ended /\ Shaped /\ Checked /\ Running /\ Counted

USE DEF Ended, Shaped, Checked, Running, Counted

LEMMA InitInv == Init => IInv
  BY DEF Init, IInv, NoFile, OnDisk

\* The steps outside the download loop.
LEMMA OuterInv ==
  ASSUME IInv,
         \/ \E in \in Inputs : Begin(in)
         \/ MakeDir \/ (\E lost \in Losses : Resolve(lost)) \/ Omit \/ OmitListUnreadable
         \/ Finish \/ Kill \/ UNCHANGED vars
  PROVE  IInv'
<1> USE DEF IInv, dirVars, resolveVars, fetchVars, Abort, ResetItem, OnDisk, Whole
<1>1. ASSUME NEW in \in Inputs, Begin(in) PROVE IInv'
  BY <1>1 DEF Begin, NoFile
<1>2. ASSUME MakeDir PROVE IInv'
  BY <1>2 DEF MakeDir
<1>3. ASSUME NEW lost \in Losses, Resolve(lost) PROVE IInv'
  <2>1. CASE ResolveSeed(lost)
    BY <2>1 DEF ResolveSeed
  <2>2. CASE Expand(lost)
    <3>1. UNCHANGED <<items, outcomes, step, tmp, disk, temps, kills>>
      BY <2>2 DEF Expand
    <3>2. (phase' = "idle" /\ exit' = "failed") \/ UNCHANGED <<phase, exit>>
      BY <2>2 DEF Expand
    <3>3. phase = "expand"
      BY <2>2 DEF Expand
    <3> QED BY <3>1, <3>2, <3>3
  <2> QED BY <1>3, <2>1, <2>2 DEF Resolve
<1>4. ASSUME Omit PROVE IInv'
  BY <1>4 DEF Omit
<1>5. ASSUME OmitListUnreadable PROVE IInv'
  BY <1>5 DEF OmitListUnreadable
<1>6. ASSUME Finish PROVE IInv'
  BY <1>6 DEF Finish
<1>7. ASSUME Kill PROVE IInv'
  BY <1>7 DEF Kill, NoFile
<1>8. ASSUME UNCHANGED vars PROVE IInv'
  BY <1>8 DEF vars
<1> QED BY <1>1, <1>2, <1>3, <1>4, <1>5, <1>6, <1>7, <1>8

\* Ending an item without publishing keeps what the invariant says of items.
LEMMA EndItemInv ==
  ASSUME IInv, NEW i \in DOMAIN items, NEW how,
         EndItem(i, how), UNCHANGED <<loopVars, dirVars>>,
         how = "failed" \/ OnDisk(items[i].name)
  PROVE  IInv'
  BY DEF IInv, EndItem, ResetItem, NoFile, loopVars, resolveVars, dirVars, OnDisk, Whole

\* The steps of one item.
LEMMA ItemInv ==
  ASSUME IInv, NEW i \in DOMAIN items,
         \/ Stat(i) \/ Redirect(i) \/ Answer(i) \/ Chmod(i) \/ Rename(i)
         \/ \E a \in {"right", "wrong", "absent", "broken"} : Sidecar(i, a)
         \/ \E b \in Bodies \cup {"broken"}, c \in BOOLEAN : Copy(i, b, c)
  PROVE  IInv'
<1> USE DEF loopVars, dirVars, resolveVars, Fetching
<1>1. CASE Stat(i)
  <2>1. CASE EndItem(i, "skipped") /\ OnDisk(items[i].name)
    BY <1>1, <2>1, EndItemInv DEF Stat
  <2>2. CASE step' = "sidecar" /\ UNCHANGED <<outcomes, digest, hop, tmp>>
    BY <1>1, <2>2 DEF Stat, IInv, OnDisk, Whole
  <2> QED BY <1>1, <2>1, <2>2 DEF Stat
<1>2. CASE Redirect(i)
  <2>1. CASE EndItem(i, "failed")
    BY <1>2, <2>1, EndItemInv DEF Redirect
  <2>2. CASE hop' = hop + 1 /\ UNCHANGED <<outcomes, step, digest, tmp>>
    BY <1>2, <2>2 DEF Redirect, IInv, OnDisk, Whole
  <2> QED BY <1>2, <2>1, <2>2 DEF Redirect
<1>3. CASE Answer(i)
  <2>1. CASE EndItem(i, "failed")
    BY <1>3, <2>1, EndItemInv DEF Answer
  <2>2. CASE step' = "copy" /\ tmp' = [NoFile EXCEPT !.jar = items[i].jar] /\ UNCHANGED <<outcomes, digest, hop>>
    BY <1>3, <2>2 DEF Answer, IInv, OnDisk, Whole, NoFile
  <2> QED BY <1>3, <2>1, <2>2 DEF Answer
<1>4. CASE Chmod(i)
  <2>1. CASE EndItem(i, "failed")
    BY <1>4, <2>1, EndItemInv DEF Chmod
  <2>2. CASE step' = "rename" /\ tmp' = [tmp EXCEPT !.readable = TRUE] /\ UNCHANGED <<outcomes, digest, hop, faults>>
    BY <1>4, <2>2 DEF Chmod, IInv, OnDisk, Whole
  <2> QED BY <1>4, <2>1, <2>2 DEF Chmod
<1>5. CASE Rename(i)
  <2>1. CASE EndItem(i, "failed") /\ UNCHANGED disk
    BY <1>5, <2>1, EndItemInv DEF Rename
  <2>2. CASE /\ disk' = {f \in disk : f.name # items[i].name} \cup {[tmp EXCEPT !.name = items[i].name]}
             /\ EndItem(i, IF digest = "absent" THEN "unverified" ELSE "written")
    <3> DEFINE new == [tmp EXCEPT !.name = items[i].name]
    <3>1. new \in disk' /\ new.name = items[i].name
      BY <2>2 DEF IInv
    <3>2. \A f \in disk : f.name # items[i].name => f \in disk'
      BY <2>2
    <3>3. \A n : OnDisk(n) => OnDisk(n)'
      BY <3>1, <3>2 DEF OnDisk
    <3>4. OnDisk(items[i].name)'
      BY <3>1, <1>5 DEF OnDisk, Rename
    <3>5. \A j \in DOMAIN items : j # i => outcomes'[j] = outcomes[j]
      BY <2>2 DEF EndItem, IInv
    <3>6. Ended' /\ Shaped'
      BY <1>5, <2>2, <3>3, <3>4, <3>5 DEF IInv, EndItem, Rename
    <3> QED BY <1>5, <2>2, <3>6 DEF IInv, EndItem, ResetItem, NoFile, Rename, Whole
  <2> QED BY <1>5, <2>1, <2>2 DEF Rename
<1>6. ASSUME NEW a \in {"right", "wrong", "absent", "broken"}, Sidecar(i, a) PROVE IInv'
  <2>1. CASE EndItem(i, "failed")
    BY <1>6, <2>1, EndItemInv DEF Sidecar
  <2>2. CASE step' = "jar" /\ UNCHANGED <<outcomes, tmp>>
    BY <1>6, <2>2 DEF Sidecar, IInv, OnDisk, Whole
  <2> QED BY <1>6, <2>1, <2>2 DEF Sidecar
<1>7. ASSUME NEW b \in Bodies \cup {"broken"}, NEW c \in BOOLEAN, Copy(i, b, c) PROVE IInv'
  <2>1. CASE EndItem(i, "failed")
    BY <1>7, <2>1, EndItemInv DEF Copy
  <2>2. CASE /\ Accepts(b, c) /\ step' = "chmod"
             /\ tmp' = [tmp EXCEPT !.body = b, !.checked = (digest = "right")]
             /\ UNCHANGED <<outcomes, digest, hop>>
    <3>1. Whole([tmp' EXCEPT !.readable = TRUE])
      BY <1>7, <2>2 DEF Accepts, Whole, IInv, Bodies
    <3>2. Checked'
      BY <2>2, <3>1 DEF IInv
    <3>3. UNCHANGED <<phase, exit, items, disk, temps, kills, outcomes>>
      BY <1>7, <2>2 DEF Copy
    <3>4. Ended' /\ Shaped' /\ Running' /\ Counted'
      BY <3>3 DEF IInv, OnDisk
    <3> QED BY <3>2, <3>4 DEF IInv
  <2> QED BY <1>7, <2>1, <2>2 DEF Copy
<1> QED BY <1>1, <1>2, <1>3, <1>4, <1>5, <1>6, <1>7

LEMMA StepInv == IInv /\ [Next]_vars => IInv'
  BY OuterInv, ItemInv DEF Next, Fetch, Rest

LEMMA Invariant == Spec => []IInv
  BY InitInv, StepInv, PTL DEF Spec

\* Only a process that was killed leaves a temporary file in the directory
\* (writeAtomic): the count of one never exceeds that of the other.
THEOREM NoFileLeft == Spec => []TempsAreKills
<1>1. IInv => TempsAreKills
  BY DEF IInv, TempsAreKills
<1> QED BY <1>1, Invariant, PTL

-----------------------------------------------------------------------------
(***************************************************************************)
(* The refinement: each step is a step of the directory's promise.         *)
(***************************************************************************)
dirView == <<disk, {items[i].name : i \in DOMAIN items}, exit>>

\* Only the two steps below touch what the promise is about outside the loop.
LEMMA OuterStep ==
  ASSUME IInv,
         \/ \E in \in Inputs : Begin(in)
         \/ MakeDir \/ (\E lost \in Losses : Resolve(lost)) \/ Omit \/ OmitListUnreadable
         \/ Finish \/ Kill \/ UNCHANGED vars
  PROVE  [Dir!Next]_dirView
<1> USE DEF IInv, dirVars, resolveVars, fetchVars, Abort, dirView, Dir!Next
<1>1. ASSUME NEW in \in Inputs, Begin(in) PROVE Dir!Begin
  BY <1>1 DEF Begin, Dir!Begin
<1>2. ASSUME MakeDir PROVE Dir!Say \/ UNCHANGED dirView
  BY <1>2 DEF MakeDir, Dir!Say
<1>3. ASSUME NEW lost \in Losses, Resolve(lost) PROVE Dir!Say \/ UNCHANGED dirView
  <2>1. CASE ResolveSeed(lost)
    BY <2>1 DEF ResolveSeed, Dir!Say
  <2>2. CASE Expand(lost)
    <3>1. UNCHANGED <<items, disk>> /\ phase = "expand"
      BY <2>2 DEF Expand
    <3>2. exit' = "failed" \/ UNCHANGED exit
      BY <2>2 DEF Expand
    <3> QED BY <3>1, <3>2 DEF Dir!Say
  <2> QED BY <1>3, <2>1, <2>2 DEF Resolve
<1>4. ASSUME Omit PROVE Dir!Plan
  BY <1>4 DEF Omit, Dir!Plan
<1>5. ASSUME OmitListUnreadable PROVE Dir!Say
  BY <1>5 DEF OmitListUnreadable, Dir!Say
<1>6. ASSUME Finish PROVE Dir!Say
  <2>1. phase = "items" /\ \A i \in DOMAIN items : outcomes[i] # "todo"
    BY <1>6 DEF Finish
  <2>2. exit' = IF \E i \in DOMAIN outcomes : outcomes[i] = "failed" THEN "failed" ELSE "ok"
    BY <1>6 DEF Finish
  <2>3. exit' = "ok" => \A i \in DOMAIN items : OnDisk(items[i].name)
    BY <2>1, <2>2
  <2> QED BY <1>6, <2>1, <2>2, <2>3 DEF Finish, Dir!Say, OnDisk
<1>7. ASSUME Kill PROVE Dir!Say
  BY <1>7 DEF Kill, Dir!Say
<1>8. ASSUME UNCHANGED vars PROVE UNCHANGED dirView
  BY <1>8 DEF vars
<1> QED BY <1>1, <1>2, <1>3, <1>4, <1>5, <1>6, <1>7, <1>8

\* Of one item's steps only the rename publishes.
LEMMA ItemStep ==
  ASSUME IInv, NEW i \in DOMAIN items,
         \/ Stat(i) \/ Redirect(i) \/ Answer(i) \/ Chmod(i) \/ Rename(i)
         \/ \E a \in {"right", "wrong", "absent", "broken"} : Sidecar(i, a)
         \/ \E b \in Bodies \cup {"broken"}, c \in BOOLEAN : Copy(i, b, c)
  PROVE  [Dir!Next]_dirView
<1> USE DEF loopVars, dirVars, resolveVars, Fetching, dirView
<1>1. CASE Rename(i)
  <2>1. CASE UNCHANGED disk
    BY <1>1, <2>1 DEF Rename
  <2>2. CASE disk' = {f \in disk : f.name # items[i].name} \cup {[tmp EXCEPT !.name = items[i].name]}
    <3> DEFINE new == [tmp EXCEPT !.name = items[i].name]
    <3>1. new.name = items[i].name /\ Whole(new)
      BY <1>1 DEF Rename, IInv, Whole
    <3>2. new \in disk' /\ disk' = {f \in disk : f.name # new.name} \cup {new}
      BY <2>2, <3>1
    <3>3. exit = "running" /\ UNCHANGED <<items, exit>>
      BY <1>1 DEF Rename, IInv
    <3> HIDE DEF new
    <3>4. Dir!Publish
      BY <3>1, <3>2, <3>3 DEF Dir!Publish
    <3> QED BY <3>4 DEF Dir!Next
  <2> QED BY <1>1, <2>1, <2>2 DEF Rename
<1>2. CASE ~Rename(i)
  BY <1>2 DEF Stat, Redirect, Answer, Chmod, Sidecar, Copy
<1> QED BY <1>1, <1>2

\* download jar keeps the promise of its directory (LibsDirectory).
THEOREM KeepsPromise == Spec => Directory
<1>1. Init => Dir!Init
  BY DEF Init, Dir!Init
<1>2. IInv /\ [Next]_vars => [Dir!Next]_dirView
  BY OuterStep, ItemStep DEF Next, Fetch, Rest
<1> QED BY <1>1, <1>2, Invariant, PTL DEF Spec, Directory, Dir!Spec, dirView

-----------------------------------------------------------------------------
(***************************************************************************)
(* What a download that exits 0 leaves.                                    *)
(***************************************************************************)
\* A member has its item, or is on the image and may be dropped.
Provided(i) ==
    \/ \E k \in DOMAIN items : items[k].name = FileName(result[i].coord, result[i].version)
    \/ i # 1 /\ ~input.include /\ ImageSatisfies(ImageLibs(input), result[i])

Planned == (input.urls = <<>> /\ (phase = "items" \/ exit = "ok")) => \A i \in DOMAIN result : Provided(i)
Filled  == exit = "ok" => \A k \in DOMAIN items : OnDisk(items[k].name)

PlanInv == Planned /\ Filled

\* A step that keeps the plan and the files.
LEMMA PlanStays ==
    ASSUME PlanInv, UNCHANGED <<input, result, items, disk>>,
           phase' = "items" => phase = "items" \/ input.urls # <<>>,
           exit' = "ok" => exit = "ok"
    PROVE  PlanInv'
<1>1. Planned'
  BY DEF PlanInv, Planned, Provided
<1>2. Filled'
  BY DEF PlanInv, Filled, OnDisk
<1> QED BY <1>1, <1>2 DEF PlanInv

\* A step of a run that has not ended well.
LEMMA PlanRuns ==
    ASSUME exit' # "ok", phase' # "items"
    PROVE  PlanInv'
  BY DEF PlanInv, Planned, Filled

LEMMA PlanOuter ==
  ASSUME IInv, TypeInv, WalkInv, PlanInv,
         \/ \E in \in Inputs : Begin(in)
         \/ MakeDir \/ (\E lost \in Losses : Resolve(lost)) \/ Omit \/ OmitListUnreadable
         \/ Finish \/ Kill \/ UNCHANGED vars
  PROVE  PlanInv'
<1> USE DEF dirVars, resolveVars, Abort
<1>0. (phase = "idle") = (exit # "running")
  BY DEF IInv
<1>1. CASE \E in \in Inputs : Begin(in)
  BY <1>1, PlanRuns DEF Begin
<1>2. CASE MakeDir
  <2>1. exit # "ok" /\ UNCHANGED <<input, result, items, disk>> /\ exit' \in {exit, "failed"}
    BY <1>0, <1>2 DEF MakeDir
  <2>2. phase' = "items" => input.urls # <<>>
    BY <1>2 DEF MakeDir
  <2> QED BY <2>1, <2>2, PlanStays
<1>3. ASSUME NEW lost \in Losses, Resolve(lost) PROVE PlanInv'
  <2>1. exit # "ok" /\ phase \notin {"idle", "items"}
    BY <1>0, <1>3 DEF Resolve, ResolveSeed, Expand
  <2>2. phase' \in {phase, "expand", "idle"} /\ exit' \in {exit, "failed"}
    BY <1>3 DEF Resolve, ResolveSeed, Expand
  <2> QED BY <2>1, <2>2, PlanRuns
<1>4. CASE Omit
  <2>1. PICK wanted : /\ wanted = Only(result, Kept(ImageLibs(input)))
                      /\ items' = [i \in DOMAIN wanted |-> Item(wanted[i])]
    BY <1>4 DEF Omit
  <2>2. phase = "expand" /\ UNCHANGED <<input, result, exit>>
    BY <1>4 DEF Omit
  <2>3. exit' # "ok"
    BY <1>0, <2>2
  <2>4. PICK n \in Nat : DOMAIN result = 1..n
    BY DEF TypeInv
  <2>5. Kept(ImageLibs(input)) \in SUBSET (1..n)
    BY <2>4 DEF Kept
  <2>6. PICK pos : Places(result, Kept(ImageLibs(input)), wanted, pos)
    BY <2>1, <2>5, OnlyElements
  <2>7. ASSUME NEW i \in DOMAIN result PROVE Provided(i)'
    <3>1. CASE i \in Kept(ImageLibs(input))
      <4>1. PICK k \in DOMAIN wanted : pos[k] = i /\ wanted[k] = result[i]
        BY <2>6, <3>1 DEF Places
      <4>2. k \in DOMAIN items' /\ items'[k].name = FileName(result[i].coord, result[i].version)
        BY <2>1, <4>1 DEF Item
      <4> QED BY <2>2, <4>2 DEF Provided
    <3>2. CASE i \notin Kept(ImageLibs(input))
      <4>1. result[i].coord # SeedOf(input.set) /\ ~input.include /\ ImageSatisfies(ImageLibs(input), result[i])
        BY <3>2 DEF Kept
      <4>2. i # 1
        <5>1. result # <<>>
          OBVIOUS
        <5> QED BY <4>1, <5>1 DEF WalkInv, Seeded
      <4> QED BY <2>2, <4>1, <4>2 DEF Provided
    <3> QED BY <3>1, <3>2
  <2>8. Planned'
    BY <2>2, <2>7 DEF Planned
  <2> QED BY <2>3, <2>8 DEF PlanInv, Filled
<1>5. CASE OmitListUnreadable \/ Kill
  BY <1>5, PlanRuns DEF OmitListUnreadable, Kill
<1>6. CASE Finish
  <2>1. phase = "items" /\ UNCHANGED <<input, result, items, disk>> /\ \A i \in DOMAIN items : outcomes[i] # "todo"
    BY <1>6 DEF Finish
  <2>2. exit' = "ok" => \A i \in DOMAIN outcomes : outcomes[i] # "failed"
    BY <1>6 DEF Finish
  <2>3. \A i \in DOMAIN items : outcomes[i] \notin {"todo", "failed"} => OnDisk(items[i].name)
    BY DEF IInv
  <2>4. DOMAIN outcomes = DOMAIN items
    BY DEF IInv
  <2>5. Filled'
    BY <2>1, <2>2, <2>3, <2>4 DEF Filled, OnDisk
  <2>6. Planned'
    BY <2>1 DEF PlanInv, Planned, Provided
  <2> QED BY <2>5, <2>6 DEF PlanInv
<1>7. CASE UNCHANGED vars
  BY <1>7, PlanStays DEF vars
<1> QED BY <1>1, <1>2, <1>3, <1>4, <1>5, <1>6, <1>7

LEMMA PlanItem ==
  ASSUME IInv, PlanInv, NEW i \in DOMAIN items,
         \/ Stat(i) \/ Redirect(i) \/ Answer(i) \/ Chmod(i) \/ Rename(i)
         \/ \E a \in {"right", "wrong", "absent", "broken"} : Sidecar(i, a)
         \/ \E b \in Bodies \cup {"broken"}, c \in BOOLEAN : Copy(i, b, c)
  PROVE  PlanInv'
<1>1. UNCHANGED loopVars /\ phase = "items"
  BY DEF Stat, Redirect, Answer, Chmod, Rename, Sidecar, Copy, Fetching
<1>2. UNCHANGED <<input, phase, result, items, exit>>
  BY <1>1 DEF loopVars, resolveVars
<1>3. exit' # "ok"
  BY <1>1, <1>2 DEF IInv
<1>4. Planned'
  BY <1>2 DEF PlanInv, Planned, Provided
<1> QED BY <1>3, <1>4 DEF PlanInv, Filled

LEMMA PlanStep == IInv /\ TypeInv /\ WalkInv /\ PlanInv /\ [Next]_vars => PlanInv'
  BY PlanOuter, PlanItem DEF Next, Fetch, Rest

LEMMA PlanInvariant == Spec => [](TypeInv /\ WalkInv /\ PlanInv)
<1>1. Init => PlanInv
  BY DEF Init, PlanInv, Planned, Filled
<1> QED BY <1>1, PlanStep, Invariant, WalkInvariant, PTL DEF Spec

\* Of the closure's jars the image ships no pre-release and no service pack: such
\* versions compareVersions takes for newer than some it is older than.
ImageIsReleased ==
    \A i \in DOMAIN result :
        LET name == BaseName(result[i].coord)
        IN  name \in DOMAIN ImageLibs(input) => ImageLibs(input)[name] \in Plain

\* A download of a set that exits 0 leaves every jar of the closure in the
\* directory or on the image, no older there than the version resolved, and the
\* seed in the directory (runDownload), when the image ships released versions of them.
THEOREM OkLeaves == Spec => [](ImageIsReleased => OkLeavesClosure)
<1>1. TypeInv /\ PlanInv => (ImageIsReleased => OkLeavesClosure)
  <2> SUFFICES ASSUME TypeInv, PlanInv, ImageIsReleased, exit = "ok", input.urls = <<>>, NEW i \in DOMAIN result
               PROVE  \/ OnDisk(FileName(result[i].coord, result[i].version))
                      \/ /\ i # 1 /\ ~input.include
                         /\ BaseName(result[i].coord) \in DOMAIN ImageLibs(input)
                         /\ ~Older(ImageLibs(input)[BaseName(result[i].coord)], result[i].version)
    BY DEF OkLeavesClosure
  <2>1. Provided(i) /\ \A k \in DOMAIN items : OnDisk(items[k].name)
    BY DEF PlanInv, Planned, Filled
  <2>2. CASE \E k \in DOMAIN items : items[k].name = FileName(result[i].coord, result[i].version)
    <3>1. PICK k \in DOMAIN items : items[k].name = FileName(result[i].coord, result[i].version)
      BY <2>2
    <3>2. OnDisk(items[k].name)
      BY <2>1
    <3> QED BY <3>1, <3>2
  <2>3. CASE i # 1 /\ ~input.include /\ ImageSatisfies(ImageLibs(input), result[i])
    <3> DEFINE name == BaseName(result[i].coord)
               ships == ImageLibs(input)[name]
    <3>1. name \in DOMAIN ImageLibs(input) /\ CompareVersions(ships, result[i].version) >= 0
      BY <2>3 DEF ImageSatisfies
    <3>2. ships \in Plain
      BY <3>1 DEF ImageIsReleased
    <3>3. result[i].version \in Versions
      <4>1. \A a \in Member : a.version \in Versions
        BY DEF Member
      <4> QED BY <4>1 DEF TypeInv
    <3> HIDE DEF ships
    <3>4. ~Older(ships, result[i].version)
      BY <3>1, <3>2, <3>3, PlainOrder
    <3> QED BY <2>3, <3>1, <3>4 DEF ships
  <2> QED BY <2>1, <2>2, <2>3 DEF Provided
<1> QED BY <1>1, PlanInvariant, PTL
=============================================================================
