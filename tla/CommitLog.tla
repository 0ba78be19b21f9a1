------------------------------- MODULE CommitLog -------------------------------
(***************************************************************************)
(* The commit listing (src/src/tui/views/commits.rs): the overlay, its two *)
(* reads, of the log and of what each commit changed, which land while the *)
(* list is refreshed and the overlay closed and opened again (drain_task_  *)
(* results in src/src/tui/app.rs), the log behind its memo and git's output*)
(* (src/src/worktree.rs), and the graph that is drawn beside it            *)
(* (src/src/tui/commit_graph.rs), here row by row over every history.      *)
(***************************************************************************)
EXTENDS Integers, SequencesExt

CONSTANTS
    Homes, Old,    \* the paths of worktrees, and the tip of those that have one at first
    Parents,        \* the parents of each commit; a commit has a smaller number than they
    Diff,           \* what each commit changed, file by file
    CommitsPage, CommitsMax,    \* COMMITS_PAGE and COMMITS_MAX
    MaxMemo,        \* RECENT_COMMITS_CACHE_MAX_ENTRIES
    MaxMoves, MaxOpens,     \* bounds: what others do, and reads of the log
    MaxRows, MaxIds, MaxParents     \* bounds of the histories that are drawn

VARIABLES
    walk,           \* the rows drawn so far, of a history that shows itself row by row
    tips,           \* the tip of each worktree's HEAD
    rows,           \* App.worktrees: the tip that each row was listed with
    under,         \* the row under the cursor, or none
    page,           \* App.commits, and whether it is on screen
    tasks,          \* the two slots and their generations
    reads,          \* the workers
    memo,           \* RECENT_COMMITS_CACHE
    moves, seen     \* history: what others did, the tips listed since the overlay opened

logVars == <<walk, tips, rows, under, page, tasks, reads, memo, moves, seen>>

Nowhere == "nowhere"
Commit == DOMAIN Parents
NoTip == 0          \* WorktreeInfo.head is None, or HEAD is unborn
Removed == -1       \* no worktree
Zero == 0           \* Oid::ZERO_SHA1

-----------------------------------------------------------------------------
(* The graph: a pipe goes from a lane of the row above to a lane of this   *)
(* one, for the edge between two commits.                                  *)

Pipe(from, at, child, to, kind) ==
    [from |-> from, at |-> at, child |-> child, to |-> to, kind |-> kind]

Live(pipes) == SelectSeq(pipes, LAMBDA p : p.kind # "terminates")
First(S) == CHOOSE i \in S : \A j \in S : i <= j
Between(a, b) == IF a <= b THEN a .. b ELSE b .. a
Lanes == 0 .. 2 * MaxRows * MaxParents

NodeLane(pipes, c) ==
    LET hits == {i \in DOMAIN Live(pipes) : Live(pipes)[i].to = c}
    IN  IF hits # {} THEN Live(pipes)[First(hits)].at
        ELSE 1 + Max({pipes[i].at : i \in DOMAIN pipes} \cup {0})

\* traverse
Crossed(s, pipe) ==
    [out |-> Append(s.out, pipe), taken |-> s.taken \cup {pipe.at},
     crossed |-> s.crossed \cup Between(pipe.from, pipe.at)]

\* next_free
Free(s) == First(Lanes \ s.crossed)

\* A pipe moves left until a lane is in its way.
Slid(s, pipe, pos) ==
    LET stops == {n \in pos .. pipe.at - 1 : n \in s.taken \cup s.crossed}
    IN  IF pipe.at <= pos THEN pipe.at
        ELSE IF stops = {} THEN pos ELSE 1 + CHOOSE n \in stops : \A o \in stops : o <= n

\* Slip in NextPipes: a parent takes the first lane that no pipe of this row ends in.
OpenForParent(s, passing) == First(Lanes \ s.taken)

\* next_free_for_new
FreeForNew(s, passing) == First(Lanes \ (s.taken \cup passing))

KindRank == [terminates |-> 1, starts |-> 2, continues |-> 3]
Ordered(pipes) ==
    LET Before(i, j) ==
            \/ pipes[i].at < pipes[j].at
            \/ /\ pipes[i].at = pipes[j].at
               /\ \/ KindRank[pipes[i].kind] < KindRank[pipes[j].kind]
                  \/ pipes[i].kind = pipes[j].kind /\ i < j
        order == SetToSortSeq(DOMAIN pipes, Before)
    IN  [i \in DOMAIN pipes |-> pipes[order[i]]]

\* get_next_pipes: the pipes of the row of commit c.
NextPipes(prev, c, parents) ==
    LET current == Live(prev)
        pos == NodeLane(prev, c)
        passing == {current[i].at : i \in {j \in DOMAIN current : current[j].to # c}}
        own == Pipe(pos, pos, c, IF parents = <<>> THEN Zero ELSE Head(parents), "starts")
        Arrives(s, p) ==
            IF p.to = c THEN Crossed(s, Pipe(p.at, pos, p.child, p.to, "terminates"))
            ELSE IF p.at < pos THEN Crossed(s, Pipe(p.at, Free(s), p.child, p.to, "continues"))
            ELSE s
        Branching(s, q) ==
            LET at == FreeForNew(s, passing)
            IN  [s EXCEPT !.out = Append(@, Pipe(pos, at, c, q, "starts")), !.taken = @ \cup {at}]
        Passes(s, p) ==
            IF p.to # c /\ p.at > pos
            THEN Crossed(s, Pipe(p.at, Slid(s, p, pos), p.child, p.to, "continues")) ELSE s
        arrived == FoldLeft(Arrives, [out |-> <<own>>, taken |-> {}, crossed |-> {}], current)
        branched == FoldLeft(Branching, arrived, IF parents = <<>> THEN <<>> ELSE Tail(parents))
    IN  Ordered(FoldLeft(Passes, branched, current).out)

\* apply_pipe: the arms of the cell of a lane; the node's own are under its glyph.
Arms(pipes, node, lane) ==
    LET Pipes == {pipes[i] : i \in DOMAIN pipes}
        shown == {p \in Pipes : ~ (p.kind = "terminates" /\ p.from = node /\ p.at = node)}
        Low(p) == IF p.from < p.at THEN p.from ELSE p.at
        High(p) == IF p.from < p.at THEN p.at ELSE p.from
    IN  [up |-> \E p \in shown : p.kind # "starts" /\ p.from = lane,
         down |-> \E p \in shown : p.kind # "terminates" /\ p.at = lane,
         left |-> \E p \in shown : Low(p) < lane /\ lane <= High(p),
         right |-> \E p \in shown : Low(p) <= lane /\ lane < High(p)]

\* render_pipe_set: the node is where the last pipe that starts or terminates says.
DrawnNode(pipes) ==
    LET ends == {i \in DOMAIN pipes : pipes[i].kind # "continues"}
        p == pipes[CHOOSE i \in ends : \A j \in ends : j <= i]
    IN  IF p.kind = "starts" THEN p.from ELSE p.at

IsMerge(pipes) == Len(SelectSeq(pipes, LAMBDA p : p.kind = "starts")) > 1

\* build_pipe_sets: commits come after those they are a parent of.  What has been named
\* as a parent and has no row yet is waited for.
WalkInit == walk = [drawn |-> {}, ids |-> 1, edges |-> {}, above |-> <<>>,
                    pipes |-> <<Pipe(0, 0, Zero, 1, "starts")>>, last |-> [id |-> 0, parents |-> 0]]

WalkRow ==
    /\ Cardinality(walk.drawn) < MaxRows
    /\ \E c \in (1 .. walk.ids) \ walk.drawn, n \in 0 .. MaxParents :
        \E parents \in [1 .. n -> 1 .. MaxIds] :
            /\ IsInjective(parents) /\ ToSet(parents) \cap (walk.drawn \cup {c}) = {}
            /\ \A i \in 1 .. n : \A new \in walk.ids + 1 .. parents[i] - 1 :
                \E j \in 1 .. i - 1 : parents[j] = new
            /\ walk' = [drawn |-> walk.drawn \cup {c},
                        ids |-> Max(ToSet(parents) \cup {walk.ids}),
                        edges |-> {e \in walk.edges : e[2] # c} \cup {<<c, p>> : p \in ToSet(parents)},
                        above |-> walk.pipes, pipes |-> NextPipes(walk.pipes, c, parents),
                        last |-> [id |-> c, parents |-> n]]
    /\ UNCHANGED <<tips, rows, under, page, tasks, reads, memo, moves, seen>>

-----------------------------------------------------------------------------
(* What git says of the commits: a run of tokens for a list of commits.    *)

Token(kind, status, ins, del) ==
    [kind |-> kind, status |-> status, oid |-> Zero, ins |-> ins, del |-> del]
Oid(c) == [Token("oid", "", 0, 0) EXCEPT !.oid = c]

\* A path by what it looks like: one that is like none of git's own tokens, or that is.
PathToken(p) == IF p = "plain" THEN Token("path", "", 0, 0)
                ELSE IF p = "hex" THEN Oid(Zero)
                ELSE Token("raw", "A", 0, 0)

Raws(files) ==
    FlattenSeq([i \in DOMAIN files |->
        <<Token("raw", files[i].status, 0, 0), PathToken(files[i].path)>>
            \o IF files[i].status = "R" THEN <<PathToken(files[i].path)>> ELSE <<>>])
Nums(files) ==
    FlattenSeq([i \in DOMAIN files |->
        <<Token(IF files[i].binary THEN "dash" ELSE "num", "", files[i].ins, files[i].del)>>
            \o IF files[i].status = "R" THEN <<PathToken("plain"), PathToken(files[i].path)>> ELSE <<>>])

\* git log --no-walk --raw --numstat -z
GitLog(commits) ==
    FlattenSeq([i \in DOMAIN commits |->
        <<Oid(commits[i])>> \o Raws(Diff[commits[i]]) \o Nums(Diff[commits[i]])])

NoStat == [added |-> 0, modified |-> 0, deleted |-> 0, ins |-> 0, del |-> 0]
With(map, c) == IF c \in DOMAIN map THEN map ELSE [d \in DOMAIN map \cup {c} |-> IF d = c THEN NoStat ELSE map[d]]

\* Slip in ParsedToken: a rename is a file added.
RenameIsAdded(status) == IF status \in {"A", "C", "R"} THEN "added" ELSE IF status = "D" THEN "deleted" ELSE "modified"

Counter(status) == IF status \in {"A", "C"} THEN "added" ELSE IF status = "D" THEN "deleted" ELSE "modified"

\* parse_commit_stats: a token is what it looks like.
ParsedToken(s, t) ==
    IF t.kind = "oid" THEN [at |-> <<t.oid>>, out |-> With(s.out, t.oid)]
    ELSE IF s.at = <<>> THEN s
    ELSE IF t.kind = "raw" THEN [s EXCEPT !.out[s.at[1]][Counter(t.status)] = @ + 1]
    ELSE IF t.kind = "num" THEN [s EXCEPT !.out[s.at[1]].ins = @ + t.ins, !.out[s.at[1]].del = @ + t.del]
    ELSE s

ParseCommitStats(tokens) == FoldLeft(ParsedToken, [at |-> <<>>, out |-> <<>>], tokens).out

\* What the files of a commit add up to.
Changed(c) ==
    LET files == Diff[c]
        Of(S) == Len(SelectSeq(files, LAMBDA f : f.status \in S))
        Lines(f) == IF f.binary THEN [ins |-> 0, del |-> 0] ELSE f
    IN  [added |-> Of({"A", "C"}), deleted |-> Of({"D"}), modified |-> Of({"M", "R", "T"}),
         ins |-> FoldLeft(LAMBDA n, f : n + Lines(f).ins, 0, files),
         del |-> FoldLeft(LAMBDA n, f : n + Lines(f).del, 0, files)]

-----------------------------------------------------------------------------
(* The log, and the reads of it.                                           *)

Ancestors[c \in Commit] == {c} \cup UNION {Ancestors[p] : p \in ToSet(Parents[c])}

\* recent_commits_revwalk: no commit before one it is a parent of.
Walk(tip, limit) ==
    LET log == SetToSortSeq(Ancestors[tip], <)
    IN  SubSeq(log, 1, IF Len(log) < limit THEN Len(log) ELSE limit)

NoRead == [rows |-> <<>>, lines |-> "error"]
Read(rs) == [rows |-> rs, lines |-> "rows"]

\* worktree_head_oid: of the row, or HEAD now.
Tip(p, listed) == IF listed # NoTip THEN listed ELSE IF tips[p] = Removed THEN NoTip ELSE tips[p]

\* recent_commits_cached, recent_commits_listing
RecentCommits(p, listed, limit) ==
    LET tip == Tip(p, listed)
    IN  IF tip = NoTip \/ (<<p, tip, limit>> \notin memo /\ tips[p] = Removed) THEN NoRead
        ELSE Read(Walk(tip, limit))

Remembered(p, listed, limit) ==
    LET key == <<p, Tip(p, listed), limit>>
    IN  IF RecentCommits(p, listed, limit) = NoRead \/ key \in memo THEN {memo}
        ELSE IF Cardinality(memo) < MaxMemo THEN {memo \cup {key}}
        ELSE {(memo \ {old}) \cup {key} : old \in memo}

\* commit_stats, before the worktree is removed or after it.
CommitStats(p, commits) ==
    {ParseCommitStats(GitLog(commits))} \cup IF tips[p] = Removed THEN {<<>>} ELSE {}

Tasks == INSTANCE TaskRunner WITH Kinds <- {"log", "stats"}

Worker(kind, gen, p, limit, tip, rs) ==
    [kind |-> kind, gen |-> gen, path |-> p, limit |-> limit, tip |-> tip, rows |-> rs,
     done |-> kind = "stats", lines |-> ""]

\* commit_meta_columns: a line for each row, with what git said of it; nothing was asked yet,
\* or it was.
Columns(rs, stats, read) == [of |-> rs, stats |-> stats, read |-> read]
NoColumns == Columns(<<>>, <<>>, FALSE)

\* draw_commits: what the body shows.
Shown(g) == IF g.lines # "" THEN g.lines ELSE IF g.loading THEN "loader" ELSE "no commits"

\* CommitsModal::begin
Begun(p, limit, head) ==
    [up |-> TRUE, path |-> p, limit |-> limit, head |-> head, rows |-> <<>>, lines |-> "",
     tiers |-> NoColumns, statted |-> FALSE, loading |-> p # Nowhere]

Requests(t, kind, work) ==
    IF Tasks!CanRequest(t, kind)
    THEN /\ tasks' = Tasks!Requested(t, kind)
         /\ reads' = reads \cup {[work EXCEPT !.gen = Tasks!ClaimedGeneration(t, kind)]}
    ELSE tasks' = t /\ UNCHANGED reads

MayRead == tasks.generation["log"] < MaxOpens

\* Slip in EnterCommits: a read of the same worktree is ridden on.
OtherPath(p, head) == page.path # p

\* What a read under way is not of.
OtherRead(p, head) == page.path # p \/ page.limit # CommitsPage \/ page.head # head

\* enter_commits
EnterCommits ==
    /\ ~ page.up /\ MayRead
    /\ LET p == under
           head == IF p = Nowhere THEN NoTip ELSE rows[p]
           t == IF page.loading /\ OtherRead(p, head) THEN Tasks!Invalidated(tasks, "log") ELSE tasks
       IN  /\ page' = Begun(p, CommitsPage, head)
           /\ seen' = {head}
           /\ IF p = Nowhere THEN tasks' = t /\ UNCHANGED reads
              ELSE Requests(t, "log", Worker("log", 0, p, CommitsPage, head, <<>>))
    /\ UNCHANGED <<walk, tips, rows, under, memo, moves>>

\* can_load_more, commits_can_load_more
CanLoadMore(g) == ~ g.loading /\ Len(g.rows) >= g.limit /\ g.limit < CommitsMax
NextLimit(g) == IF g.limit + CommitsPage > CommitsMax THEN CommitsMax ELSE g.limit + CommitsPage

LoadMore ==
    /\ page.up /\ MayRead
    /\ CanLoadMore(page) /\ page.path \in DOMAIN rows
    /\ page' = [page EXCEPT !.limit = NextLimit(page), !.loading = TRUE]
    /\ Requests(tasks, "log", Worker("log", 0, page.path, NextLimit(page), rows[page.path], <<>>))
    /\ UNCHANGED <<walk, tips, rows, under, memo, moves, seen>>

Close ==
    /\ page.up /\ page' = [page EXCEPT !.up = FALSE]
    /\ UNCHANGED <<walk, tips, rows, under, tasks, reads, memo, moves, seen>>

\* A worker reads the log, and sends it.
WorkerReads(w) ==
    /\ ~ w.done
    /\ LET got == RecentCommits(w.path, w.tip, w.limit) IN
        reads' = (reads \ {w}) \cup {[w EXCEPT !.done = TRUE, !.rows = got.rows, !.lines = got.lines]}
    /\ memo' \in Remembered(w.path, w.tip, w.limit)
    /\ UNCHANGED <<walk, tips, rows, under, page, tasks, moves, seen>>

\* request_commit_stats, in a task table with `left` under way.
AsksStats(g, t, left) ==
    LET idle == IF Tasks!IsLoading(t, "stats") THEN Tasks!Invalidated(t, "stats") ELSE t
        w == Worker("stats", Tasks!ClaimedGeneration(idle, "stats"), g.path, g.limit, g.head, g.rows)
    IN  IF g.statted \/ g.rows = <<>> \/ g.path = Nowhere THEN tasks' = t /\ reads' = left
        ELSE tasks' = Tasks!Requested(idle, "stats") /\ reads' = left \cup {w}

\* Slip in Loaded: the columns of the rows before are said to be these.
LoadedKeeps(g, w) ==
    [g EXCEPT !.rows = w.rows, !.lines = w.lines, !.tiers = Columns(w.rows, <<>>, FALSE),
              !.loading = FALSE]

\* CommitsModal::load
Loaded(g, w) ==
    [g EXCEPT !.rows = w.rows, !.lines = w.lines, !.tiers = Columns(w.rows, <<>>, FALSE),
              !.statted = FALSE, !.loading = FALSE]

\* The drain, of TaskMsg::Commits,
LandLog(w) ==
    /\ w.kind = "log" /\ w.done
    /\ LET t == Tasks!Completed(tasks, "log", w.gen)
           left == reads \ {w}
       IN  IF Tasks!IsAuthoritative(tasks, "log", w.gen) /\ page.path = w.path /\ page.limit = w.limit
           THEN page' = Loaded(page, w) /\ AsksStats(Loaded(page, w), t, left)
           ELSE tasks' = t /\ reads' = left /\ UNCHANGED page
    /\ UNCHANGED <<walk, tips, rows, under, memo, moves, seen>>

\* Slip in LandStats: what the overlay shows is not asked.
StatsOfAny(w) == TRUE

\* The listing that the columns are of.
StatsOfShown(w) == page.path = w.path /\ page.limit = w.limit /\ page.head = w.tip

\* and of TaskMsg::CommitStats.
LandStats(w) ==
    /\ w.kind = "stats"
    /\ reads' = reads \ {w}
    /\ tasks' = Tasks!Completed(tasks, "stats", w.gen)
    /\ IF Tasks!IsAuthoritative(tasks, "stats", w.gen) /\ StatsOfShown(w)
       THEN \E stats \in CommitStats(w.path, w.rows) :
            page' = [page EXCEPT !.tiers = Columns(w.rows, stats, TRUE), !.statted = TRUE]
       ELSE UNCHANGED page
    /\ UNCHANGED <<walk, tips, rows, under, memo, moves, seen>>

\* The list is refreshed: it shows what there is, and some row is under the cursor.
Refresh ==
    /\ rows' = [p \in {q \in Homes : tips[q] # Removed} |-> tips[p]]
    /\ under' \in IF DOMAIN rows' = {} THEN {Nowhere} ELSE DOMAIN rows'
    /\ seen' = IF page.path \in DOMAIN rows' THEN seen \cup {rows'[page.path]} ELSE seen
    /\ UNCHANGED <<walk, tips, page, tasks, reads, memo, moves>>

\* Someone commits, rewrites a branch, or removes a worktree.
Move(p) ==
    /\ moves < MaxMoves /\ moves' = moves + 1
    /\ \E tip \in (Commit \cup {Removed}) \ {tips[p]} : tips' = [tips EXCEPT ![p] = tip]
    /\ UNCHANGED <<walk, rows, under, page, tasks, reads, memo, seen>>

-----------------------------------------------------------------------------
AtRest ==
    /\ rows = [p \in {q \in Homes : tips[q] # Removed} |-> tips[p]]
    /\ page = [up |-> FALSE, path |-> Nowhere, limit |-> 0, head |-> NoTip, rows |-> <<>>, lines |-> "",
               tiers |-> NoColumns, statted |-> FALSE, loading |-> FALSE]
    /\ tasks = Tasks!NewRunner /\ reads = {} /\ memo = {} /\ moves = 0 /\ seen = {}
    /\ WalkInit

LogRest == tips = [p \in Homes |-> Removed] /\ under = Nowhere /\ AtRest

LogInit ==
    /\ tips \in [Homes -> {NoTip, Old}]
    /\ under \in Homes \cup {Nowhere}
    /\ AtRest

\* A history is drawn, or the overlay is used.
LogNext ==
    \/ tips = [p \in Homes |-> NoTip] /\ page.limit = 0 /\ under = Nowhere /\ WalkRow
    \/ /\ walk.drawn = {}
       /\ \/ EnterCommits \/ LoadMore \/ Close \/ Refresh
          \/ \E w \in reads : WorkerReads(w) \/ LandLog(w) \/ LandStats(w)
          \/ \E p \in Homes : Move(p)

LogSpec == LogInit /\ [][LogNext]_logVars

-----------------------------------------------------------------------------
LogTypeOK ==
    /\ DOMAIN rows \subseteq Homes /\ under \in Homes \cup {Nowhere}
    /\ page.limit <= CommitsMax /\ Len(page.rows) <= page.limit
    /\ Cardinality(memo) <= MaxMemo

\* Every edge of the history between a row and what is below it has a line, on a lane of
\* its own or of edges to the same commit, that goes on in the next row; a node is where
\* its children's lines end, alone on its lane (get_next_pipes, render_pipe_set).
GraphIsTheHistory ==
    LET live == Live(walk.pipes)
        node == DrawnNode(walk.pipes)
    IN  walk.drawn # {} =>
        /\ {<<live[i].child, live[i].to>> : i \in {j \in DOMAIN live : live[j].to # Zero}} = walk.edges
        /\ \A i, j \in DOMAIN live : live[i].at = live[j].at => live[i].to = live[j].to
        /\ \A i \in DOMAIN walk.pipes : LET p == walk.pipes[i] IN
            p.kind = "terminates" <=> (p.to = walk.last.id /\ p.at = node /\ p.child # walk.last.id)
        /\ \A n \in Lanes \ {node} :
            (\E i \in DOMAIN Live(walk.above) : Live(walk.above)[i].at = n) <=> Arms(walk.pipes, node, n).up
        /\ IsMerge(walk.pipes) <=> walk.last.parents > 1

\* The overlay shows rows, an error, or a loader that a worker will replace.
LoaderIsServed ==
    /\ page.loading =>
        \E w \in reads : /\ w.kind = "log" /\ Tasks!IsAuthoritative(tasks, "log", w.gen)
                         /\ w.path = page.path /\ w.limit = page.limit
    /\ page.up /\ Shown(page) = "no commits" => page.path = Nowhere

\* The rows are the log of a tip that the list gave the worktree while the overlay was
\* up, the first page of the one it opened on, to the depth that was asked for.
RowsAreTheLog ==
    page.rows # <<>> /\ page.head # NoTip =>
        \E tip \in seen \ {NoTip}, n \in 1 .. page.limit :
            /\ page.rows = Walk(tip, n)
            /\ ~ page.loading => n = page.limit
            /\ page.limit = CommitsPage => tip = page.head

\* The columns beside the rows are theirs, with what git says of each, or with it to come.
ColumnsAreTheRows ==
    /\ page.rows # <<>> => page.tiers.of = page.rows
    /\ page.tiers.of # <<>> /\ page.head # NoTip =>
        \E tip \in seen \ {NoTip}, n \in 1 .. page.limit : page.tiers.of = Walk(tip, n)
    /\ \A c \in DOMAIN page.tiers.stats \cap Commit : page.tiers.stats[c] = Changed(c)
    /\ page.rows # <<>> => page.tiers.read \/ Tasks!IsLoading(tasks, "stats") \/ page.loading

LogInv == LogTypeOK /\ GraphIsTheHistory /\ LoaderIsServed /\ RowsAreTheLog /\ ColumnsAreTheRows

\* Said of the code, and not so.  The columns go with the rows (commits.rs:94),
ColumnsComeWithRows == page.tiers.of = page.rows

\* and `head` is the tip that the rows were read at (commits.rs:154).
HeadIsTheTipRead ==
    page.rows # <<>> /\ ~ page.loading /\ page.head # NoTip => page.rows = Walk(page.head, page.limit)
=============================================================================
