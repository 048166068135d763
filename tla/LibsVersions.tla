---------------------------- MODULE LibsVersions ----------------------------
(***************************************************************************)
(* How internal/libs orders the versions of a jar (compareVersions and its *)
(* helpers) and picks a release from a maven-metadata.xml document.        *)
(*                                                                         *)
(* A version is the sequence of its segments, split on '.', '-' and '_'.   *)
(* A segment is a number or one of three words, which stand for every      *)
(* spelling the three regular expressions accept: a pre-release qualifier  *)
(* (rc1, beta, M2, SNAPSHOT), a release qualifier (Final, GA, RELEASE) and *)
(* a service pack (sp1).  Every other word is left out.                    *)
(***************************************************************************)
EXTENDS Integers, Sequences, SequencesExt

Pre == -1
Rel == -2
Sp  == -3

IsNumber(seg) == seg >= 0

Sign(n) == IF n > 0 THEN 1 ELSE IF n < 0 THEN -1 ELSE 0

\* Two words, or a word and a number, compared as text: a digit sorts before
\* every letter, and "rc1" before "sp1" (both in lower case).
TextRank(seg) == IF IsNumber(seg) THEN 0 ELSE IF seg = Pre THEN 1 ELSE 2

\* releaseVersus: a release qualifier means "no qualifier", so it is older than
\* a number or a service pack and newer than a pre-release.
ReleaseVersus(other) == IF other = Pre THEN 1 ELSE -1

CompareVersionSegment(a, b) ==
    IF IsNumber(a) /\ IsNumber(b) THEN Sign(a - b)
    ELSE IF a = Rel /\ b = Rel THEN 0
    ELSE IF a = Rel THEN ReleaseVersus(b)
    ELSE IF b = Rel THEN -ReleaseVersus(a)
    ELSE Sign(TextRank(a) - TextRank(b))

\* A segment only one side has: a release qualifier decides nothing.
RankExtraSegment(seg) == CASE seg = Rel -> 0 [] seg = Pre -> -1 [] OTHER -> 1

CompareAt(a, b, i) ==
    IF i <= Len(a) /\ i <= Len(b) THEN CompareVersionSegment(a[i], b[i])
    ELSE IF i <= Len(a) THEN RankExtraSegment(a[i])
    ELSE -RankExtraSegment(b[i])

\* The first position that decides.
CompareVersions(a, b) ==
    LET n       == IF Len(a) > Len(b) THEN Len(a) ELSE Len(b)
        deciding == {i \in 1..n : CompareAt(a, b, i) # 0}
    IN  IF deciding = {} THEN 0
        ELSE CompareAt(a, b, CHOOSE i \in deciding : \A j \in deciding : i <= j)

IsPreRelease(v) == \E i \in DOMAIN v : v[i] = Pre

\* The empty text, a version range or any other text that is no version, and the
\* texts validateCoordPart lets into a URL.
NoVersion    == <<>>
OutOfCharset == <<-9>>
Versions     == Seq(Nat \cup {Pre, Rel, Sp})
ValidVersion(v) == v \in Versions \ {NoVersion}

AnyMajor == -1
VersionMajor(v) == IF v # NoVersion /\ IsNumber(v[1]) THEN v[1] ELSE -1

\* highestStable scans the list in the order the document has it and keeps the
\* first of equals.
HighestStable(versions, major) ==
    FoldLeft(LAMBDA best, v :
                IF IsPreRelease(v) \/ (major # AnyMajor /\ VersionMajor(v) # major) THEN best
                ELSE IF best = NoVersion \/ CompareVersions(v, best) > 0 THEN v
                ELSE best,
             NoVersion, versions)

\* <release> is taken only when it is stable and in the document's own list.
LatestStable(meta) ==
    IF /\ meta.release # NoVersion
       /\ ~IsPreRelease(meta.release)
       /\ \E i \in DOMAIN meta.versions : meta.versions[i] = meta.release
    THEN meta.release
    ELSE HighestStable(meta.versions, AnyMajor)

(***************************************************************************)
(* The reference order the comparison is judged by: what the comment of    *)
(* compareVersions says, with the shorter version padded by "no            *)
(* qualifier".  Key puts a pre-release below no qualifier, and that below  *)
(* a service pack and every number.                                        *)
(***************************************************************************)
Key(v, i) ==
    IF i > Len(v) \/ v[i] = Rel THEN 1
    ELSE IF v[i] = Pre THEN 0
    ELSE IF v[i] = Sp THEN 2
    ELSE 3 + v[i]

Older(a, b) ==
    \E i \in 1..(IF Len(a) > Len(b) THEN Len(a) ELSE Len(b)) :
        /\ Key(a, i) < Key(b, i)
        /\ \A j \in 1..(i - 1) : Key(a, j) = Key(b, j)
=============================================================================
