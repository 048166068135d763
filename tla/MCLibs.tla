------------------------------- MODULE MCLibs -------------------------------
(***************************************************************************)
(* Instances of Libs: small repositories with the shapes that matter.      *)
(***************************************************************************)
EXTENDS Libs

MCCoords == {"mq", "a", "b", "c", "enc", "core", "core3"}

\* Two coordinates of different groups share the base name "core".
MCBaseName(c) == IF c = "core3" THEN "core" ELSE c
MCSeedOf(set) == IF set = "mq" THEN "mq" ELSE "enc"

v1 == <<1, 0>>
v2 == <<2, 0>>
v1rc == <<1, 0, Pre>>
v101 == <<1, 0, 1>>
v1final == <<1, 0, Rel>>

Lit(v) == [lit |-> v, ref |-> ""]
Ref(p) == [lit |-> NoVersion, ref |-> p]
Dep(c, text) == [to |-> c, version |-> text, scope |-> "", optional |-> FALSE, type |-> ""]
POM(parent, props, mgmt, deps) ==
    [parent |-> parent, props |-> props, mgmt |-> mgmt, deps |-> deps, found |-> TRUE]
Leaf == POM(<<>>, NoEntries, NoEntries, <<>>)
Releases(vs) == [release |-> Last(vs), versions |-> vs]

\* A diamond with a cycle: b names another version of a than the seed does, and
\* c, whose version is a property of a's parent, depends on the seed.  Six
\* artifacts, one more than the cap.
Diamond ==
    [meta |-> "mq" :> Releases(<<v1, v1rc>>) @@ "c" :> Releases(<<v1>>),
     poms |-> <<"mq", v1>> :> POM(<<>>, NoEntries, NoEntries,
                    <<Dep("b", Lit(v1)), Dep("a", Ref("project.version")),
                      [Dep("core", Lit(v1)) EXCEPT !.scope = "test"],
                      [Dep("enc", Lit(v1)) EXCEPT !.optional = TRUE]>>)
           @@ <<"b", v1>> :> POM(<<>>, NoEntries, NoEntries, <<Dep("a", Lit(v2))>>)
           @@ <<"a", v1>> :> POM(<<"core", v2>>, NoEntries, NoEntries,
                    <<Dep("c", NoText), Dep("core3", Lit(v2)), Dep("core", Lit(v1))>>)
           @@ <<"core", v2>> :> POM(<<>>, "c.version" :> Lit(v101), "c" :> Ref("c.version"), <<>>)
           @@ <<"c", v101>> :> POM(<<>>, NoEntries, NoEntries, <<Dep("mq", Lit(v2))>>)]

\* A chain deeper than the cap, a version range and a property of a property,
\* both of which fall back, and a POM whose parents form a cycle.
Chain ==
    [meta |-> "mq" :> Releases(<<v1>>) @@ "a" :> Releases(<<v1, v2>>) @@ "c" :> Releases(<<v1final, v101>>),
     poms |-> <<"mq", v1>> :> POM(<<>>, "p" :> Ref("q") @@ "q" :> Lit(v1), NoEntries,
                    <<Dep("a", Lit(OutOfCharset)), Dep("c", Ref("p"))>>)
           @@ <<"a", v2>> :> POM(<<>>, NoEntries, NoEntries, <<Dep("mq", Lit(v2)), Dep("b", Lit(v1))>>)
           @@ <<"b", v1>> :> POM(<<>>, NoEntries, NoEntries, <<Dep("core", Lit(v1))>>)
           @@ <<"c", v101>> :> POM(<<"core", v1>>, NoEntries, NoEntries, <<Dep("core3", Lit(v1))>>)
           @@ <<"core", v1>> :> POM(<<"core3", v1>>, NoEntries, NoEntries, <<>>)
           @@ <<"core3", v1>> :> POM(<<"core", v1>>, NoEntries, NoEntries, <<>>)]

\* The encoder: 8.x on Jackson 2, 9.x on Jackson 3.
Encoder ==
    [meta |-> "enc" :> Releases(<<<<8, 1>>, <<9, 0>>>>),
     poms |-> <<"enc", <<8, 1>>>> :> POM(<<>>, NoEntries, NoEntries, <<Dep("core", Lit(v1))>>)
           @@ <<"enc", <<9, 0>>>> :> POM(<<>>, NoEntries, NoEntries, <<Dep("core3", Lit(v2))>>)
           @@ <<"core", v1>> :> Leaf @@ <<"core3", v2>> :> Leaf]

MCRepository == "diamond" :> Diamond @@ "chain" :> Chain @@ "encoder" :> Encoder

MCEmbeddedLists ==
    <<[from |-> <<2, 10>>, before |-> <<3, 0>>, libs |-> "core" :> v1 @@ "b" :> v1],
      [from |-> <<3, 1>>, before |-> NoVersion, libs |-> "core" :> v2 @@ "a" :> v1]>>

Image(release) == [named |-> TRUE, ours |-> TRUE, release |-> release]
NoImage == [named |-> FALSE, ours |-> FALSE, release |-> NoVersion]

Ask(set, repo) ==
    [set |-> set, repo |-> repo, version |-> NoVersion, urls |-> <<>>, force |-> FALSE,
     include |-> FALSE, omit |-> NoEntries, image |-> NoImage]

Url(name, jar) == [name |-> name, jar |-> jar]

MCInputs ==
    {Ask("mq", "diamond"),
     [Ask("mq", "diamond") EXCEPT !.include = TRUE, !.force = TRUE],
     [Ask("mq", "chain") EXCEPT !.version = v1, !.include = TRUE],
     [Ask("mq", "chain") EXCEPT !.version = v2],
     [Ask("mq", "chain") EXCEPT !.omit = "a" :> v1 @@ "c" :> v101],
     [Ask("syslog", "encoder") EXCEPT !.image = Image(<<2, 13>>)],
     [Ask("syslog", "encoder") EXCEPT !.image = Image(<<3, 0>>)],
     [Ask("syslog", "encoder") EXCEPT !.image = [Image(<<3, 1>>) EXCEPT !.ours = FALSE]],
     [Ask("mq", "diamond") EXCEPT !.urls = <<Url(<<"mq", v1>>, "mq"), Url(<<"core", v2>>, "core")>>, !.force = TRUE],
     [Ask("mq", "diamond") EXCEPT !.urls = <<Url(<<"core", v2>>, "core3"), Url(<<"a", v1>>, "a"), Url(<<"b", v1>>, "b")>>]}

\* An image that ships a release candidate of c, older than the c resolved.
CandidateInputs == {[Ask("mq", "diamond") EXCEPT !.omit = "c" :> v1rc]}
=============================================================================
