------------------------------- MODULE ForgeRoute -------------------------------
(***************************************************************************)
(* Which instance of which forge a call of `gh` or `glab` reaches: what    *)
(* the origin says of it (parse_remote_url in src/src/forge.rs), who may   *)
(* say that gwm calls there (authorised_kind), what gwm pins and clears in *)
(* the environment and what it passes as the project (src/src/github.rs,   *)
(* src/src/gitlab.rs), and what the command makes of all that.             *)
(*                                                                         *)
(* An instance is a host and a port.  A path is the project, under the     *)
(* folder its instance is served from if the origin is a web URL.          *)
(***************************************************************************)
EXTENDS Naturals, FiniteSets

CONSTANTS
    Remotes,        \* what an origin may be: [scheme, host, port, sub]
    Alias,          \* alternate SSH hosts of a known one -> that one
    Known,          \* hosts that name their forge -> it
    WebOf,          \* an SSH host -> the web instance that it belongs to
    Subfolder,      \* a host -> the folder it is served from
    Environments,   \* what may be exported
    Windows         \* of {"remote"}: the origin changes after it was resolved

VARIABLES
    origin,         \* the remote, or NoRemote
    key, hosts, trusted,    \* `forge` in .gwm.toml, [forge_hosts], the ledger
    env,
    backend,        \* the forge that was resolved
    called,         \* history: what a call reached
    asks            \* whether something of this was changed

rvars == <<origin, key, hosts, trusted, env, backend, called, asks>>

NoRemote == [scheme |-> "none"]
Unset == "unset"
Kinds == {"github", "gitlab"}
Hosts == {r.host : r \in Remotes}
Https == 443
Http == 80
NoPort == 0
Nowhere == [host |-> "nowhere", port |-> NoPort]

\* parse_remote_url: a web URL is taken at its word, of an SSH one the host is a guess,
\* but for those that are known to be an alternate endpoint.
Host(r) == IF r.host \in DOMAIN Alias THEN Alias[r.host] ELSE r.host
IsWeb(r) == r.scheme \in {"http", "https"}
FromUrl(r) == IsWeb(r) \/ r.host \in DOMAIN Alias
Port(r) == IF IsWeb(r) THEN r.port ELSE NoPort
Path(r) == IF IsWeb(r) THEN <<r.sub, "project">> ELSE <<"", "project">>

\* Where it really is.
Instance(r) ==
    IF IsWeb(r) THEN [host |-> Host(r), port |-> IF r.port = NoPort THEN Https ELSE r.port]
    ELSE IF r.host \in DOMAIN Alias THEN [host |-> Host(r), port |-> Https] ELSE WebOf[r.host]

\* authorised_kind
Authorised(r) ==
    LET h == Host(r) IN
    IF h \in DOMAIN Known THEN IF key = Unset THEN Known[h] ELSE key
    ELSE IF h \in DOMAIN hosts THEN hosts[h]
    ELSE IF key # Unset /\ trusted THEN key ELSE Unset

-----------------------------------------------------------------------------
\* gh_env: a host that gh can be told of, and only one that is known for sure.
GhPin(r) ==
    IF FromUrl(r) /\ r.scheme # "http" /\ Port(r) \in {NoPort, Https} THEN [host |-> Host(r), port |-> Https] ELSE Nowhere

\* Slip in GhSelector: always the project.
GhAlways(r) == Path(r)

\* GitHubForge::repo_selector: the project, or nothing and the working directory says.
GhSelector(r) == IF GhPin(r) # Nowhere \/ Host(r) = "github.com" THEN Path(r) ELSE <<>>

\* glab_env, ci_autologin_conflict, resolve_selector
GlabPin(r) == IF FromUrl(r) THEN Instance(r) ELSE Nowhere

CiConflict(r) ==
    /\ env.ci.web # Nowhere
    /\ IF FromUrl(r) THEN env.ci.web # Instance(r)
       ELSE env.ci.ssh # Unset /\ env.ci.ssh # Host(r)

EnvSubfolder ==
    IF env.subfolder # "" THEN env.subfolder ELSE IF env.ci.web # Nowhere THEN env.ci.sub ELSE ""

GlabSelector(r) ==
    IF ~ FromUrl(r) THEN <<>>
    ELSE IF EnvSubfolder # "" /\ Path(r)[1] = EnvSubfolder THEN <<"", "project">> ELSE Path(r)

\* What the child sees.  A project of the environment is cleared, a host only if gwm
\* has one to put there; GITLAB_API_HOST in any case.
Child(r, kind) ==
    IF kind = "github"
    THEN [repo |-> Nowhere, host |-> IF GhPin(r) # Nowhere THEN GhPin(r) ELSE env.ghHost,
          selector |-> GhSelector(r)]
    ELSE [repo |-> Nowhere, host |-> IF GlabPin(r) # Nowhere THEN GlabPin(r) ELSE env.gitlabHost,
          selector |-> GlabSelector(r), apiHost |-> Nowhere]

\* resolve_or_default without an origin: nothing is cleared and nothing passed.
Bare(kind) ==
    IF kind = "github"
    THEN [repo |-> env.ghRepo, host |-> env.ghHost, selector |-> <<>>]
    ELSE [repo |-> env.gitlabRepo, host |-> env.gitlabHost, selector |-> <<>>,
          apiHost |-> env.apiHost]

-----------------------------------------------------------------------------
NoBackend == [kind |-> Unset]
NotCalled == [kind |-> Unset]

RouteInit ==
    /\ origin \in Remotes \cup {NoRemote}
    /\ key \in Kinds \cup {Unset}
    /\ \E some \in SUBSET (Hosts \ DOMAIN Known) :
        Cardinality(some) <= 1 /\ hosts \in [some -> Kinds]
    /\ trusted \in BOOLEAN
    /\ env \in Environments
    /\ backend = NoBackend /\ called = NotCalled /\ asks = 0

RouteRest ==
    /\ origin = NoRemote /\ key = Unset /\ hosts = <<>> /\ trusted = FALSE
    /\ env = CHOOSE e \in Environments : TRUE
    /\ backend = NoBackend /\ called = NotCalled /\ asks = 0

\* resolve, resolve_or_default
ResolveForge ==
    /\ backend = NoBackend
    /\ LET kind == IF origin # NoRemote THEN Authorised(origin)
                   ELSE IF key = Unset THEN "github" ELSE key
       IN  /\ kind # Unset
           /\ backend' = IF origin = NoRemote THEN [kind |-> kind, refuse |-> FALSE, sees |-> Bare(kind)]
                         ELSE [kind |-> kind, refuse |-> kind = "gitlab" /\ CiConflict(origin),
                               sees |-> Child(origin, kind)]
    /\ UNCHANGED <<origin, key, hosts, trusted, env, called, asks>>

\* A refusal says how to allow the host: `gwm trust add`, or a line in [forge_hosts].
Allow ==
    /\ backend = NoBackend /\ origin # NoRemote /\ Authorised(origin) = Unset /\ asks = 0
    /\ \/ trusted' = TRUE /\ UNCHANGED hosts
       \/ /\ \E k \in Kinds : hosts' = [h \in DOMAIN hosts \cup {Host(origin)} |->
                                          IF h = Host(origin) THEN k ELSE hosts[h]]
          /\ UNCHANGED trusted
    /\ asks' = 1
    /\ UNCHANGED <<origin, key, env, backend, called>>

\* gh: the project that was named on the host of the environment, or on github.com; else
\* the repository of the working directory.
GhReaches ==
    LET there == IF backend.sees.host # Nowhere THEN backend.sees.host
                 ELSE [host |-> "github.com", port |-> Https]
    IN  IF backend.sees.selector # <<>> THEN [at |-> there, project |-> backend.sees.selector]
        ELSE IF backend.sees.repo # Nowhere THEN [at |-> backend.sees.repo, project |-> <<"", "project">>]
        ELSE IF origin = NoRemote THEN [at |-> Nowhere, project |-> <<>>]
        ELSE [at |-> Instance(origin), project |-> <<"", "project">>]

\* glab: signed in by a pipeline it is the pipeline's instance, whatever is pinned; the
\* API host before any other; else the host, else the remote of the working directory.
GlabReaches ==
    LET there == IF env.ci.web # Nowhere THEN env.ci.web
                 ELSE IF backend.sees.apiHost # Nowhere THEN backend.sees.apiHost
                 ELSE IF backend.sees.host # Nowhere THEN backend.sees.host
                 ELSE IF origin = NoRemote THEN Nowhere ELSE Instance(origin)
    IN  IF backend.sees.selector # <<>> THEN [at |-> there, project |-> backend.sees.selector]
        ELSE IF backend.sees.repo # Nowhere THEN [at |-> backend.sees.repo, project |-> <<"", "project">>]
        ELSE [at |-> there, project |-> <<"", "project">>]

\* A folder that glab does not know of, or that is not there, leads nowhere.
Answers(at) ==
    at # Nowhere /\ Subfolder[at.host] = IF backend.kind = "gitlab" THEN EnvSubfolder ELSE ""

CallForge ==
    /\ backend # NoBackend /\ called = NotCalled /\ ~ backend.refuse
    /\ LET reached == IF backend.kind = "github" THEN GhReaches ELSE GlabReaches
       IN  /\ Answers(reached.at)
           /\ called' = [kind |-> backend.kind, at |-> reached.at, project |-> reached.project]
    /\ UNCHANGED <<origin, key, hosts, trusted, env, backend, asks>>

\* git remote set-url.
RemoteMoves(r) ==
    /\ r # origin /\ asks = 0 /\ asks' = 1
    /\ backend = NoBackend \/ "remote" \in Windows
    /\ origin' = r
    /\ UNCHANGED <<key, hosts, trusted, env, backend, called>>

RouteNext == ResolveForge \/ Allow \/ CallForge \/ \E r \in Remotes : RemoteMoves(r)

RouteSpec == RouteInit /\ [][RouteNext]_rvars

-----------------------------------------------------------------------------
Calls == called # NotCalled /\ origin # NoRemote

\* gwm leaves github.com to the default of gh, which an exported GH_HOST changes.
LeftToDefault ==
    called.kind = "github" /\ Host(origin) = "github.com" /\ GhPin(origin) = Nowhere /\ env.ghHost # Nowhere

\* A guessed origin leaves GitLab's host to the user's environment, if it names one.
LeftToUser == called.kind = "gitlab" /\ ~ FromUrl(origin) /\ env.gitlabHost # Nowhere

\* A call reaches the instance of the origin and the project in it, whatever is exported
\* (repo_selector, gh_env_remove, glab_env_remove, ci_autologin_conflict).
CallsReachTheOrigin ==
    Calls /\ ~ LeftToDefault /\ ~ LeftToUser =>
        /\ \/ called.at = Instance(origin)
           \/ called.at.host = "github.com" /\ Host(origin) = "github.com"
        /\ called.project = <<"", "project">>

\* No call goes where neither the host, nor the user, nor a repository that the user
\* approved says that it may (authorised_kind).
CallsAreAllowed == Calls => Authorised(origin) # Unset

RouteInv == CallsReachTheOrigin /\ CallsAreAllowed

\* What gh_env says: github.com is pinned like any other host.
GitHubIsPinned ==
    Calls /\ called.kind = "github" /\ Host(origin) = "github.com" => called.at.host = "github.com"
=============================================================================
