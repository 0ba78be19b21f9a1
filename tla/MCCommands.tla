------------------------------- MODULE MCCommands -------------------------------
(* Small instances of the handlers of Commands. *)
EXTENDS Commands, TLC

CONSTANTS p1, p2, n1, plain, boots, hooks, i1, here, away, x, y

\* One file, and lists of guards of at most two names.  What is done on a match is asked
\* of a source, the fallback of none, so that one of each goes with one of the other.
MCCopies ==
    {c \in [from : {"t1"}, to : {"t1"}, fallback : {"inline", "skip"},
            guards : {<<>>, <<"known">>, <<"other", "known">>, <<"undefined", "known">>,
                      <<"known", "undefined">>},
            onMatch : {"seed-from-example", "abort"}] :
        c.fallback = "inline" <=> c.onMatch = "seed-from-example"}

\* Two repositories: in the first a name that is another's id, and a name twice.
Tree(repo, id, name) == [repo |-> repo, id |-> id, name |-> name]
MCWorktrees == {Tree(1, "a", "a"), Tree(1, "b", "a"), Tree(1, "c", "b"), Tree(2, "a", "ab")}
MCWithin == {<<"a", "ab">>, <<"b", "ab">>, <<"a", "a">>, <<"b", "b">>}

\* One id that two directories can claim.
OneId == [q \in {here, away} |-> i1]

MCDirsOf == [p \in Profiles |->
    CASE p = "default" -> {"target"} [] p = "all" -> {"target", "dist"} [] OTHER -> {}]

\* Everything of one label, and another that is not.
Plain == [desc |-> 0, mark |-> 1, state |-> "open"]
MCMayDeclare == [n \in Wanted |->
    IF n = 1 THEN [desc : 0 .. 1, mark : 0 .. 3, state : {"open", "closed"}] ELSE {Plain}]
MCMayHold == [n \in Wanted |->
    IF n = 1 THEN [desc : 0 .. 1, mark : 0 .. 2, state : {"open", "closed"}, id : {0}]
    ELSE {Plain @@ [id |-> 0]}]

\* Three instances: the known one, one on a port of its own and one that is served from
\* a folder, each with an SSH host of another name.
Url(scheme, host, port, sub) == [scheme |-> scheme, host |-> host, port |-> port, sub |-> sub]
MCRemotes ==
    {Url("ssh", "github.com", 0, ""), Url("https", "github.com", 0, ""),
     Url("ssh", "ssh.github.com", 0, ""), Url("https", "acme", 0, "folder"),
     Url("https", "acme", 8443, "folder"), Url("http", "hub", 0, ""),
     Url("ssh", "git.hub", 0, ""), Url("ssh", "git.acme", 0, "")}
MCAlias == "ssh.github.com" :> "github.com"
MCKnown == "github.com" :> "github"
Web(host) == [host |-> host, port |-> 443]
MCWebOf == "github.com" :> Web("github.com") @@ "git.acme" :> Web("acme") @@ "git.hub" :> Web("hub")
MCSubfolder == "github.com" :> "" @@ "acme" :> "folder" @@ "hub" :> ""

Nowhere == [host |-> "nowhere", port |-> 0]

\* Command lines with the program they run.
MCLines == {[line |-> l[1], runs |-> l[2]] : l \in {
    <<<<"tool">>, "tool">>, <<<<"lost">>, "lost">>, <<<<"command", "lost">>, "lost">>,
    <<<<"X=1", "env", "-u", "tool", "lost", "tool">>, "lost">>,
    <<<<"env", "-i", "X=1", "tool", "lost">>, "tool">>,
    <<<<"X=1", "X=1", "lost", "X=1">>, "lost">>}}

\* A pipeline of one of them or none, and at most one more variable exported.
Pipelines ==
    {[web |-> Nowhere, ssh |-> "unset", sub |-> ""],
     [web |-> Web("acme"), ssh |-> "git.acme", sub |-> "folder"],
     [web |-> Web("hub"), ssh |-> "git.hub", sub |-> ""]}
Exported == {"ghHost", "ghRepo", "gitlabHost", "gitlabRepo", "apiHost"}
MCEnvironments ==
    {[v \in Exported |-> IF v \in some THEN Web("hub") ELSE Nowhere]
        @@ [subfolder |-> folder, ci |-> ci] :
        some \in {s \in SUBSET Exported : Cardinality(s) <= 1},
        folder \in {"", "folder"}, ci \in Pipelines}
=============================================================================
