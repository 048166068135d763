------------------------------ MODULE MCTargets ------------------------------
(***************************************************************************)
(* Targets over specs that differ from a plain one in a few fields each:   *)
(* every check of TargetChecks is met and missed by some of them.          *)
(***************************************************************************)
EXTENDS Targets

MCStoreOrder == <<"ca", "key">>
MCVars       == {"PW", "CRED", "FIELD", StatusUserPasswordEnvVar}
MCVarStates  == [v \in MCVars |-> CASE v = "FIELD" -> EnvStates
                                    [] v \in {"PW", "CRED"} -> {"unset", "empty", "set"}
                                    [] OTHER -> {"unset", "set", "odd"}]
MCFileStates == {"good", "medium", "large", "damaged", "locked", "other role", "missing", "unreadable"}

Existing == [kind |-> "file", held |-> FALSE, pass |-> "PW"]
Certs    == [kind |-> "certs", held |-> FALSE, pass |-> "PW"]
Jks      == [kind |-> "jks", held |-> FALSE, pass |-> "PW"]
HeldFile == [kind |-> "file", held |-> TRUE, pass |-> "PW"]
Literal(st) == [st EXCEPT !.pass = "literal"]
HeldOnly == [kind |-> "none", held |-> TRUE, pass |-> "none"]

Kube == [command |-> <<"binary">>, runAs |-> "", name |-> 20, namespace |-> 10, malformed |-> {},
         retired |-> {}, replicas |-> 1, creds |-> "create", storesBlock |-> "none", pull |-> "none", libs |-> "none"]
Engine == [command |-> <<"binary">>, runAs |-> "", malformed |-> {}, retired |-> {}, restart |-> ""]

Base == [sections |-> {"kubernetes"}, kubernetes |-> Kube, docker |-> Engine, podman |-> Engine,
         image |-> "tagged", java |-> "portable", registryUser |-> "none", registryPass |-> "none",
         unsafePaths |-> {}, standalone |-> FALSE, cred |-> "CRED", document |-> 1,
         expands |-> {}, stores |-> [n \in {} |-> Existing]]

Only(p)          == [Base EXCEPT !.sections = {p}]
Storing(in, f)   == [in EXCEPT !.stores = f]
One(st)          == [n \in {"ca"} |-> st]
Two(st1, st2)    == [n \in {"ca", "key"} |-> IF n = "ca" THEN st1 ELSE st2]
\* All sections, and a connection without a password: the stores' are enough.
Everywhere       == [Base EXCEPT !.sections = Platforms, !.cred = "none"]
NoPassword(in)   == [in EXCEPT !.cred = "none"]

\* Stores of every kind, on the platforms one at a time and together.
Deployable ==
    {Storing(Only(p), s) : p \in Platforms, s \in {One(Certs), One(Jks), One(Existing), One(HeldFile)}}
        \cup {Storing(Everywhere, One(st)) : st \in {Certs, Jks, Existing, HeldFile}}
        \cup {Storing(Only("kubernetes"), One(HeldOnly)), Storing(Only("docker"), One(HeldOnly))}
        \cup {Storing(NoPassword(Only("docker")), Two(Literal(Certs), Literal(Existing))),
              Storing(NoPassword(Only("kubernetes")), Two(Existing, Certs))}

\* kubernetes sections, sound and not.
Kubes ==
    {[Base EXCEPT !.kubernetes = k] : k \in
        {[Kube EXCEPT !.creds = c] : c \in {"omitted", "existing", "both", "neither"}}
        \cup {[Kube EXCEPT !.name = n] : n \in {51, 52, 56, 57}}
        \cup {[Kube EXCEPT !.libs = l] : l \in {"download", "both", "pvc-both"}}
        \cup {[Kube EXCEPT !.libs = "pvc", !.name = n] : n \in {44, 45}}
        \cup {[Kube EXCEPT !.storesBlock = b] : b \in {"existing", "create"}}
        \cup {[Kube EXCEPT !.retired = {"create.name"}], [Kube EXCEPT !.malformed = {"port"}],
              [Kube EXCEPT !.runAs = "malformed"], [Kube EXCEPT !.replicas = 2]}}
    \cup {[Base EXCEPT !.kubernetes.replicas = 2, !.standalone = TRUE], [Base EXCEPT !.document = 5]}
    \cup {[Base EXCEPT !.kubernetes.pull = pull, !.registryUser = "literal", !.registryPass = pass] :
             pull \in {"named", "unnamed", "create", "create-named"}, pass \in {"PW", "none"}}
    \cup {Storing([Base EXCEPT !.kubernetes.creds = c, !.cred = "none"], s) :
             c \in {"omitted", "existing"}, s \in {[n \in {} |-> Existing], One(HeldOnly), One(Certs)}}

Commands ==
    {<<"binary", "other">>, <<"other", "binary">>, <<"binary", "flag", "word">>, <<"binary", "flag=", "word">>,
     <<"path">>, <<"binary", "--">>, <<"unsafe">>, <<>>}

\* What the three sections share, and the containers' own.
Containers ==
    {[Only(p) EXCEPT ![p].command = c] : p \in Platforms, c \in Commands}
        \cup {[Only(p) EXCEPT ![p].restart = w] : p \in {"docker", "podman"}, w \in {"unless-stopped", "on-abort"}}
        \cup {[Only("docker") EXCEPT ![ "docker"].retired = {"base-dir"}, !.unsafePaths = u] : u \in {{}, {"ca"}}}
        \cup {[Only("podman") EXCEPT !.document = d, !.unsafePaths = {"ca"}] : d \in {1, 9}}
        \cup {[Only("podman") EXCEPT !.image = "untagged"], [Only("docker") EXCEPT !.java = "unsafe"]}

\* Fields written with a variable: a name that must be there, a port with a
\* default, a label that may be anything but odd, of one section or shared.
Field(section, refused) == {[field |-> "field", section |-> section, var |-> "FIELD", refused |-> refused]}
Expanding ==
    {[NoPassword(Only(p)) EXCEPT !.expands = Field(s, refused)] :
        p \in Platforms, s \in {"shared", "docker"}, refused \in {{"unset", "empty", "odd"}, {"empty", "odd"}, {"odd"}}}
    \cup {[Everywhere EXCEPT !.expands = Field(s, {"unset", "odd"})] : s \in {"shared"} \cup Platforms}
    \cup {Storing([Only("docker") EXCEPT !.expands = Field("shared", {"unset"})], One(Certs))}

MCInputs == Deployable \cup Kubes \cup Containers \cup Expanding
=============================================================================
