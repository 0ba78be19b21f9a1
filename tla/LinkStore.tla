------------------------------- MODULE LinkStore -------------------------------
(***************************************************************************)
(* The issue and PR numbers gwm keeps in git's branch configuration        *)
(* (src/src/github.rs), and the two guards on them: the origin stamp       *)
(* (gwm-link-origin), checked by every read and renewed by every write,    *)
(* and the backend marker (gwm-link-forge), reconciled for the branch at   *)
(* HEAD whenever a command resolves a forge.                               *)
(*                                                                         *)
(* A command works in stages, each a sequence of configuration writes: the *)
(* reconcile, the adoption of a read, the stamp, and the command's own.  A *)
(* write can fail (another process holds the config's lock), and then the  *)
(* rest of its stage is not attempted.  The stages before the command's    *)
(* own are best-effort: the next one goes on from whatever they left.  A   *)
(* kill leaves what a failure of every later write would.                  *)
(*                                                                         *)
(* Every stored item carries, as a history, the instance it was obtained   *)
(* from (of), whether the branch's marker named its backend when it was    *)
(* stored (marked), and whether the stamp it was stored under was its own  *)
(* (stamped), which it is not when the stamp could not be written; the     *)
(* code never sees these fields.  A title is the instance it came from.    *)
(***************************************************************************)
EXTENDS Naturals, Sequences, SequencesExt

CONSTANTS
    Branches,    \* each is checked out in a worktree of its own
    Main,        \* what the main checkout is on: a branch or, detached, none of them
    Origins,     \* web origins and paths the remote can point to
    NoOrigin,    \* no origin, or one that does not parse
    Forges,      \* backends
    GitHub,      \* the backend every link older than the marker was made for
    Numbers,     \* issue and PR numbers
    BranchIssue, \* the issue a branch's name carries, or Nothing
    Nothing,     \* an absent configuration key
    MaxMoves     \* bound: changes of origin and of backend explored

ASSUME LinkAssumption ==
    /\ GitHub \in Forges
    /\ NoOrigin \notin Origins
    /\ Nothing \notin Numbers \cup Origins \cup Forges \cup {NoOrigin}
    /\ BranchIssue \in [Branches -> Numbers \cup {Nothing}]

VARIABLES
    config,     \* the gwm-* keys of each branch
    origin,     \* what the remote points to
    forge,      \* the backend .gwm.toml selects
    tui,        \* what a running TUI last resolved and listed
    moves       \* history: changes of origin and backend so far

vars == <<config, origin, forge, tui, moves>>

Instance == [origin : Origins \cup {NoOrigin}, forge : Forges]
Item == [number : Numbers, of : Instance, marked : BOOLEAN, stamped : BOOLEAN]
Held == Item \cup {Nothing}
ASSUME NothingAssumption == Nothing \notin Item \cup Instance

BranchConfig ==
    [issue : Held, title : Instance \cup {Nothing}, pr : Held, detected : Held,
     stamp : Origins \cup {Nothing}, marker : Forges \cup {Nothing}]
Bare == [issue |-> Nothing, title |-> Nothing, pr |-> Nothing,
         detected |-> Nothing, stamp |-> Nothing, marker |-> Nothing]

TypeOK ==
    /\ config \in [Branches -> BranchConfig]
    /\ origin \in Origins \cup {NoOrigin}
    /\ forge \in Forges
    /\ tui \in [resolved : Instance, listed : [Branches -> Numbers \cup {Nothing}]]
    /\ moves \in Nat

Here == [origin |-> origin, forge |-> forge]
\* An absent marker reads as GitHub.
MarkedHere(c) == c.marker = forge \/ (c.marker = Nothing /\ forge = GitHub)
StampedHere(c) == origin = NoOrigin \/ c.stamp = origin
New(c, n) == [number |-> n, of |-> Here, marked |-> MarkedHere(c), stamped |-> StampedHere(c)]

-----------------------------------------------------------------------------
\* The configuration after each write of a sequence of writes.
After(c, writes) == IF writes = <<>> THEN c ELSE Last(writes)

\* What a stage leaves: all of its writes, or the ones before a failure.
Upto(c, writes) == {After(c, SubSeq(writes, 1, done)) : done \in 0 .. Len(writes)}

\* drop_branch_links: every number and the metadata cached for it, in order.
Dropped(c) ==
    LET one == [c EXCEPT !.issue = Nothing]
        two == [one EXCEPT !.title = Nothing]
        three == [two EXCEPT !.pr = Nothing]
        four == [three EXCEPT !.detected = Nothing]
    IN <<one, two, three, four>>

\* Slip: what is stamped already is purged as well.
StampAndPurge(c) ==
    IF origin = NoOrigin THEN <<>>
    ELSE Append(Dropped(c), [Last(Dropped(c)) EXCEPT !.stamp = origin])

\* stamp_link_origin: nothing without an origin; a purge before a new stamp.
Stamp(c) ==
    IF origin = NoOrigin THEN <<>>
    ELSE LET purge == IF c.stamp \in {Nothing, origin} THEN <<>> ELSE Dropped(c)
         IN Append(purge, [After(c, purge) EXCEPT !.stamp = origin])

\* Slip: the marker moves on before the links are gone.
MarkFirst(c) ==
    IF MarkedHere(c) THEN <<>>
    ELSE LET marked == [c EXCEPT !.marker = forge]
         IN <<marked>> \o Append(Dropped(marked),
                                 [Last(Dropped(marked)) EXCEPT !.stamp = Nothing])

\* reconcile_link_forge: an absent marker reads as GitHub; the purge, then the
\* origin stamp, and the marker last of all.
Reconcile(c) ==
    IF MarkedHere(c) THEN <<>>
    ELSE LET unstamped == [Last(Dropped(c)) EXCEPT !.stamp = Nothing]
         IN Dropped(c) \o <<unstamped, [unstamped EXCEPT !.marker = forge]>>

Foreign(c) == origin # NoOrigin /\ c.stamp \notin {Nothing, origin}

\* read_link's one write: links without a stamp are adopted by the origin.
Adopt(c) ==
    IF /\ c.stamp = Nothing /\ origin # NoOrigin
       /\ {c.issue, c.title, c.pr, c.detected} # {Nothing}
    THEN <<[c EXCEPT !.stamp = origin]>> ELSE <<>>

\* read_link: what a reader gets, and the stored numbers it was served from.  A
\* foreign stamp hides everything persisted; the branch's name still counts.
Read(b, c) ==
    LET issue == IF Foreign(c) THEN Nothing ELSE c.issue
        pr == IF Foreign(c) THEN Nothing
              ELSE IF c.pr # Nothing THEN c.pr ELSE c.detected
        number == IF issue # Nothing THEN issue.number ELSE BranchIssue[b]
        title == IF Foreign(c) \/ number = Nothing THEN Nothing ELSE c.title
    IN [issue  |-> number,
        title  |-> title,
        served |-> {issue, pr} \ {Nothing}]

\* What stamp_link_origin leaves for the write it precedes: it reports no failure.
Stamped(c) == Upto(c, Stamp(c))

\* link_issue and link_pr: stamp, write the number, forget the old title.
LinkIssue(c, n) ==
    UNION {LET numbered == [s EXCEPT !.issue = New(s, n)]
           IN Upto(s, <<numbered, [numbered EXCEPT !.title = Nothing]>>) : s \in Stamped(c)}
LinkPr(c, n) == UNION {Upto(s, <<[s EXCEPT !.pr = New(s, n)]>>) : s \in Stamped(c)}

\* unlink_issue and unlink_pr, which drops the detection too.
UnlinkIssue(c) ==
    LET gone == [c EXCEPT !.issue = Nothing] IN Upto(c, <<gone, [gone EXCEPT !.title = Nothing]>>)
UnlinkPr(c) ==
    LET gone == [c EXCEPT !.pr = Nothing] IN Upto(c, <<gone, [gone EXCEPT !.detected = Nothing]>>)

\* persist_detected_pr and clear_persisted_detected_pr, which stamps nothing.
Detect(c, n) ==
    IF n = Nothing THEN Upto(c, <<[c EXCEPT !.detected = Nothing]>>)
    ELSE UNION {Upto(s, <<[s EXCEPT !.detected = New(s, n)]>>) : s \in Stamped(c)}

\* persist_issue_title: metadata fetched by the TUI from what it had resolved.
Title(c) == UNION {Upto(s, <<[s EXCEPT !.title = tui.resolved]>>) : s \in Stamped(c)}

-----------------------------------------------------------------------------
\* What resolving a forge at `at` leaves of branch b: reconcile_link_forge
\* reports no failure either.
Reconciled(at, b) == IF at = b THEN Upto(config[b], Reconcile(config[b])) ELSE {config[b]}

\* A branch's configuration becomes one of those a command may leave.
Leaves(b, results) == \E c \in results : config' = [config EXCEPT ![b] = c]

\* Where the command that writes b resolves: in b's own worktree, or in the
\* main checkout (gwm pr, gwm review, the TUI).
Resolves(b) == {b, Main}

OriginMoves ==
    /\ moves < MaxMoves
    /\ \E o \in (Origins \cup {NoOrigin}) \ {origin} : origin' = o
    /\ moves' = moves + 1
    /\ UNCHANGED <<config, forge, tui>>

ForgeFlips ==
    /\ moves < MaxMoves
    /\ \E f \in Forges \ {forge} : forge' = f
    /\ moves' = moves + 1
    /\ UNCHANGED <<config, origin, tui>>

\* gwm status, gwm open: resolve at b, then read its link; also a listing's
\* read of a row, which resolves nothing (an empty stage).
Status(b) ==
    /\ \E c \in Reconciled(b, b) : Leaves(b, Upto(c, Adopt(c)))
    /\ UNCHANGED <<origin, forge, tui, moves>>

\* gwm link, in b's worktree; gwm pr and gwm review, which resolve with the
\* repository handle of the main checkout and link the branch at hand; the
\* link prompt of the TUI, whose handle is the main checkout's too.
Link(b, at, n) ==
    /\ \E c \in Reconciled(at, b) : Leaves(b, LinkIssue(c, n) \cup LinkPr(c, n))
    /\ UNCHANGED <<origin, forge, tui, moves>>

\* gwm unlink resolves nothing.
Unlink(b) ==
    /\ Leaves(b, UnlinkIssue(config[b]) \cup UnlinkPr(config[b]))
    /\ UNCHANGED <<origin, forge, tui, moves>>

\* A successful probe for the branch's PR: gwm status --detect-pr in the
\* worktree, F in the TUI: resolve, read the link, and store what was found.
\* An explicit link is never probed.
Probe(b, at, n) ==
    /\ \E r \in Reconciled(at, b) : \E c \in Upto(r, Adopt(r)) :
          /\ Foreign(c) \/ c.pr = Nothing
          /\ Leaves(b, Detect(c, n))
    /\ UNCHANGED <<origin, forge, tui, moves>>

\* The TUI resolves at the main checkout and lists every branch.  The listing
\* reconciles nothing, and its adoptions are left to Status.
TuiLists ==
    /\ IF Main \in Branches THEN Leaves(Main, Reconciled(Main, Main)) ELSE UNCHANGED config
    /\ tui' = [resolved |-> Here,
               listed   |-> [b \in Branches |-> Read(b, config'[b]).issue]]
    /\ UNCHANGED <<origin, forge, moves>>

\* An issue it fetched lands: the title is stored for each row listed with
\* that number.
TuiLands(n) ==
    LET leaves(b) == IF tui.listed[b] = n THEN Title(config[b]) ELSE {config[b]}
    IN /\ config' \in {f \in [Branches -> UNION {leaves(b) : b \in Branches}] :
                          \A b \in Branches : f[b] \in leaves(b)}
       /\ UNCHANGED <<origin, forge, tui, moves>>

Init ==
    /\ config = [b \in Branches |-> Bare]
    /\ origin \in Origins \cup {NoOrigin}
    /\ forge \in Forges
    /\ tui = [resolved |-> Here, listed |-> [b \in Branches |-> Nothing]]
    /\ moves = 0

Next ==
    \/ OriginMoves
    \/ ForgeFlips
    \/ TuiLists
    \/ \E n \in Numbers : TuiLands(n)
    \/ \E b \in Branches :
          \/ Status(b)
          \/ Unlink(b)
          \/ \E at \in Resolves(b), n \in Numbers : Link(b, at, n)
          \/ \E at \in Resolves(b), n \in Numbers \cup {Nothing} : Probe(b, at, n)

Spec == Init /\ [][Next]_vars

-----------------------------------------------------------------------------
\* Two instances a number may be shared by: a number linked while there was no
\* origin has none to be confused with.
MayServe(of, now) ==
    /\ of.forge = now.forge
    /\ of.origin = now.origin \/ NoOrigin \in {of.origin, now.origin}

\* What `gwm status` or `gwm open` in a worktree would serve now: the read that
\* follows its own reconcile.
ServedIn(b) == Read(b, After(config[b], Reconcile(config[b])))

\* A number stored for one repository of one backend, under its marker and its
\* stamp, is never served as a number of another, whatever the remote and the
\* backend did in between and wherever a purge, a reconcile or a later stamp was
\* cut short (github.rs, 51-60 and 412-451).  It says nothing of a number whose
\* own stamp could not be written: the command stores it all the same.
ServesItsOwn ==
    \A b \in Branches : \A item \in ServedIn(b).served :
        (item.marked /\ item.stamped) => MayServe(item.of, Here)

\* Types, and nothing served for an instance it was not made for, wherever a
\* purge or a stamp was cut short (read_link_with, stamp_link_origin).
LinkInv == TypeOK /\ ServesItsOwn

\* The same without the stamp, as the comment on the key has it: stamping the
\* origin lets read_link recognise a number that came from somewhere else.  The
\* code does not have it: stamp_link_origin drops its error, and the number that
\* follows stays under the old stamp (github.rs, 391-400 and 527-539).
ServesNoStranger ==
    \A b \in Branches : \A item \in ServedIn(b).served :
        item.marked => MayServe(item.of, Here)

\* A number the user linked where the repository points now, under the marker
\* and the stamp that belong to it, is removed by an unlink only: no purge takes
\* it, wherever the commands before it were cut short (github.rs, 464-467).
LinksAreKept ==
    [][\A b \in Branches : \A key \in {"issue", "pr"} :
          ( /\ config[b][key] # Nothing
            /\ config[b][key].of = Here /\ config[b][key].marked /\ config[b][key].stamped
            /\ config'[b][key] = Nothing ) => Unlink(b)]_vars

\* The same without the marker, as the comment has it: every write of a link comes
\* after a reconcile.  The code reconciles the branch at HEAD of the main checkout
\* and writes another one (cmd_pr, cli.rs 3345), which a later reconcile purges.
EveryLinkIsKept ==
    [][\A b \in Branches : \A key \in {"issue", "pr"} :
          ( /\ config[b][key] # Nothing
            /\ config[b][key].of = Here /\ config[b][key].stamped
            /\ config'[b][key] = Nothing ) => Unlink(b)]_vars

\* The title served with an issue was fetched from the instance the branch is
\* stamped with (github.rs, 588-594).
TitlesAreLocal ==
    \A b \in Branches :
       LET title == Read(b, config[b]).title
       IN (title # Nothing /\ origin # NoOrigin /\ config[b].stamp = origin)
             => title.origin \in {origin, NoOrigin}

=============================================================================
