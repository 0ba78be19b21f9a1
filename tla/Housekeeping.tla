------------------------------ MODULE Housekeeping ------------------------------
(***************************************************************************)
(* Looking after a repository that has been worked in: `gwm doctor`, its   *)
(* `--fix`, and `gwm prune` (src/src/doctor.rs, src/src/worktree.rs,       *)
(* src/src/github.rs), and the `when` expressions that bootstrap and hooks *)
(* evaluate and the doctor reads (src/src/bootstrap.rs).                   *)
(*                                                                         *)
(* A worktree has the name of its branch here.  Other processes, git and   *)
(* people work on in the same repository.                                  *)
(***************************************************************************)
EXTENDS Naturals, FiniteSets, Sequences, FiniteSetsExt

CONSTANTS
    Kept,           \* branches
    Styled,         \* those among them that the pattern of [worktree] reads back
    Suffixes,         \* gwm-* leaves of a branch's section
    Windows,        \* "purge", "prune", "doctor": others act within one of these
    MaxKeys,        \* bound: keys with a value at the start
    MaxWhen,        \* bound: tokens of a `when` expression
    MaxHands,       \* bound: changes by others
    Lines,          \* command lines: [line : sequence of tokens, runs : the program]
    Present         \* programs on $PATH

VARIABLES
    live,           \* local branches
    keys,           \* [Kept \X Suffixes -> Shapes]
    entry,          \* [Kept -> Entries]: .git/worktrees and the directories
    merged,         \* branches a trunk contains
    noted,          \* branches with a note
    setup,          \* what the doctor finds in the configuration and around it
    duty,           \* the command and how far it is
    report,         \* what it has told
    gone,           \* history: keys that --fix really dropped
    hands           \* changes by others

hvars == <<live, keys, entry, merged, noted, setup, duty, report, gone, hands>>

Cells == Kept \X Suffixes

\* A key on disk: absent, with one value, with none, with several, with several one of
\* which has none, in a file that is included, or there and in .git/config.
Shapes == {"none", "one", "bare", "many", "mixed", "included", "both"}
Reachable(s) == s \notin {"none", "included", "both"}
NeedsMultivar(s) == s = "many"

Entries == {"none", "tree", "missing", "lockedMissing"}
Prunable(e) == e = "missing"

-----------------------------------------------------------------------------
(* `when` expressions: atoms that hold or not, of which the doctor evaluates some, *)
(* or that no version knows; `!`, `&&`, `||`.                                      *)
-----------------------------------------------------------------------------
Safe == {"yes", "no"}
Atoms == Safe \cup {"envYes", "unknown"}
Tokens == Atoms \cup {"not", "and", "or"}

EvalAtom(a) == a # "no"

\* WhenParser: parse_or of parse_and of parse_not; where an atom is expected and there
\* is none, "true", and what follows the expression is not read.
Parse(t) ==
    LET n == Len(t)
        Is(i, token) == i <= n /\ t[i] = token
        Atom(i) == IF i <= n /\ t[i] \in Atoms THEN [val |-> EvalAtom(t[i]), pos |-> i + 1]
                   ELSE [val |-> TRUE, pos |-> i]
        Not[i \in 1 .. n + 1] ==
            IF Is(i, "not") THEN [Not[i + 1] EXCEPT !.val = ~ @] ELSE Atom(i)
        And[i \in 1 .. n + 1] ==
            LET l == Not[i]
            IN  IF Is(l.pos, "and") THEN [And[l.pos + 1] EXCEPT !.val = l.val /\ @] ELSE l
        Or[i \in 1 .. n + 1] ==
            LET l == And[i]
            IN  IF Is(l.pos, "or") THEN [Or[l.pos + 1] EXCEPT !.val = l.val \/ @] ELSE l
    IN  Or[1].val

EvaluateWhen(t) == Parse(t)
AtomsOf(t) == {t[i] : i \in {j \in DOMAIN t : t[j] \in Atoms}}
SafeToEvaluate(t) == AtomsOf(t) \subseteq Safe

\* What it means: some term between || of which every atom holds, a `!` before it
\* counted, in an expression that is one.
WellFormed(t) ==
    /\ t # <<>>
    /\ \A i \in DOMAIN t :
          LET last == IF i = 1 THEN "or" ELSE t[i - 1]
          IN  IF t[i] \in {"and", "or"} THEN last \in Atoms ELSE last \notin Atoms
    /\ t[Len(t)] \in Atoms
Term(t, i) == {j \in DOMAIN t : \A k \in i .. j : t[k] # "or"} \cap (i .. Len(t))
Terms(t) == {Term(t, i) : i \in {j \in DOMAIN t : j = 1 \/ t[j - 1] = "or"}}
Nots(t, i) == Cardinality({j \in 1 .. i - 1 : \A k \in j .. i - 1 : t[k] = "not"})
Means(t) ==
    \E term \in Terms(t) : \A i \in term :
        t[i] \in Atoms => (EvalAtom(t[i]) = (Nots(t, i) % 2 = 0))

\* executable_in: assignments, one wrapper with its flags and its assignments; then it.
ExecutableIn(line) ==
    LET words == {i \in DOMAIN line : line[i] # "X=1"}
        bare == IF words = {} THEN <<>> ELSE SubSeq(line, Min(words), Len(line))
        Rest[i \in 1 .. Len(bare) + 2] ==
            IF i > Len(bare) THEN <<>>
            ELSE IF bare[i] = "-u" THEN Rest[i + 2]
            ELSE IF bare[i] \in {"-i", "X=1"} THEN Rest[i + 1]
            ELSE SubSeq(bare, i, Len(bare))
        left == IF bare # <<>> /\ bare[1] \in {"env", "command", "exec"} THEN Rest[2] ELSE bare
    IN  IF left = <<>> THEN {} ELSE {left[1]}

\* How a shell reads a command line: assignments, then the program, or a wrapper of it,
\* that reads its flags, of which one takes the next word, and more assignments.
Wrappers == {"env", "command", "exec"}
Reads(line, words, end) ==
  \A k \in words :
    k <= end /\ (k = end \/ (line[k] = "-u" /\ k + 2 \in words) \/ (line[k] \in {"-i", "X=1"} /\ k + 1 \in words))
Wrapped(line, a, program) ==
  /\ line[a] \in Wrappers /\ program \notin {"X=1", "-i", "-u"}
  /\ \E words \in SUBSET (a + 1 .. Len(line)), end \in a + 1 .. Len(line) :
        line[end] = program /\ a + 1 \in words /\ end \in words /\ Reads(line, words, end)
ShellRuns(line, program) ==
  \E a \in DOMAIN line :
    /\ \A k \in 1 .. a - 1 : line[k] = "X=1"
    /\ (line[a] = program /\ program \notin Wrappers \cup {"X=1"}) \/ Wrapped(line, a, program)

-----------------------------------------------------------------------------
(* The checks on the configuration and on what is around it. *)
-----------------------------------------------------------------------------
NoStep == [line |-> <<>>, runs |-> "", when |-> <<>>, given |-> TRUE]

\* The repository's file and the user's, and what both together say.  One that is
\* rejected parses, and a validator refuses what it says.
Files == {"fine", "absent", "unreadable", "invalid", "badProfile", "rejected"}
Globals == {"fine", "invalid", "rejected"}

Fine == [file |-> "fine", global |-> "fine", guards |-> "known", step |-> NoStep,
         baseDir |-> "writable", keymap |-> "fine", pattern |-> "fine", list |-> "fine"]

\* At most one thing is out of order in what is configured,
Contents ==
    {Fine, [Fine EXCEPT !.guards = "dangling"]}
    \cup {[Fine EXCEPT !.baseDir = b] : b \in {"unexpandable", "readOnly", "rootless",
             "parentMissing", "parentWritable", "parentReadOnly"}}
    \cup {[Fine EXCEPT !.keymap = k] : k \in {"conflict", "modalConflict", "noQuit"}}
    \cup {[Fine EXCEPT !.pattern = "lossy"], [Fine EXCEPT !.list = "unreadable"]}
    \cup {[Fine EXCEPT !.step = [line |-> l.line, runs |-> l.runs, when |-> w, given |-> g]] :
             l \in Lines, w \in {<<>>, <<"yes">>, <<"no">>, <<"envYes">>, <<"unknown">>,
                                 <<"not", "yes">>, <<"no", "or", "envYes">>},
             g \in BOOLEAN}

\* whatever becomes of either file.
In(c, f, g) == [file |-> f, global |-> g, guards |-> c.guards, step |-> c.step,
                baseDir |-> c.baseDir, keymap |-> c.keymap, pattern |-> c.pattern, list |-> c.list]
Setups == {In(c, f, g) : c \in Contents, f \in Files, g \in Globals}

\* The two layers merge when both parse; what they make loads when every validator takes
\* it, the one of the keymap included.  The doctor goes on with defaults when it does
\* not load, except for the keymap and the pattern, which it merges again.
Merges(s) == s.file \notin {"unreadable", "invalid"} /\ s.global # "invalid"
Loads(s) ==
    /\ Merges(s)
    /\ s.file \notin {"badProfile", "rejected"} /\ s.global # "rejected"
    /\ s.keymap \notin {"conflict", "modalConflict"}
Step(s) == IF Loads(s) THEN s.step ELSE NoStep

Verdict(bad, warn) == IF bad THEN "failed" ELSE IF warn THEN "warning" ELSE "ok"

\* Of the repository's file alone, and of what it says only the profiles.
CheckConfigParses(s) == Verdict(s.file \in {"unreadable", "invalid", "badProfile"}, FALSE)
CheckGuardReferences(s) == Verdict(Loads(s) /\ s.guards = "dangling", FALSE)
CheckWhenPredicates(s) == Verdict("unknown" \in AtomsOf(Step(s).when), FALSE)
CheckBaseDirWritable(s) ==
    Verdict(s.baseDir \in {"unexpandable", "readOnly", "parentReadOnly"},
            s.baseDir = "parentMissing")
CheckTuiKeymap(s) ==
    Verdict(Merges(s) /\ s.keymap \in {"conflict", "modalConflict"},
            Merges(s) /\ s.keymap = "noQuit")
CheckBranchPattern(s) == Verdict(FALSE, Merges(s) /\ s.pattern = "lossy")

\* A step that its `when` switches off, as far as the doctor evaluates it, one that brings
\* its own PATH, a keyword, a placeholder and a path are not looked up.
GatedOff(step) == step.when # <<>> /\ SafeToEvaluate(step.when) /\ ~ EvaluateWhen(step.when)
Needed(step) ==
    IF GatedOff(step) \/ ~ step.given THEN {}
    ELSE ExecutableIn(step.line) \ {"cd", "{path}", "./run"}
CheckBinariesOnPath(s) == Verdict(FALSE, ~ (Needed(Step(s)) \subseteq Present))

\* The worktrees are listed once, for two checks; a branch counts as claimed when its
\* worktree can be opened.
Claimed == {b \in Kept : entry[b] = "tree"}
CheckPrunable(listed) == Verdict(FALSE, \E b \in Kept : Prunable(listed[b]))
OrphanBranches(claimed) == ((live \cap Styled) \ claimed) \ merged
OrphanNotes == noted \ live

\* collect_orphan_branch_keys: the keys of branches that are gone, as they are on disk.
OrphanKeys == {c \in Cells : keys[c] # "none" /\ c[1] \notin live}
Purgeable == {c \in OrphanKeys : Reachable(keys[c])}
OutOfReach == OrphanKeys \ Purgeable

Checks == {"config", "guards", "when", "binaries", "prunable", "branches", "notes", "keys",
           "base", "keymap", "pattern"}
Unsaid == [c \in Checks |-> "none"]
NoReport == [checks |-> Unsaid, advice |-> {}, purged |-> 0, remaining |-> 0]

\* The highest severity, as an exit code.
ExitCode(checks) ==
    IF \E c \in Checks : checks[c] = "failed" THEN 2
    ELSE IF \E c \in Checks : checks[c] = "warning" THEN 1 ELSE 0

-----------------------------------------------------------------------------
Idle == [job |-> "none", at |-> "done", before |-> [c \in Cells |-> "none"], todo |-> {},
         listed |-> [b \in Kept |-> "none"], plan |-> {}, when |-> <<>>, ran |-> TRUE,
         fixed |-> FALSE, pruned |-> 0]

Job(job) == [Idle EXCEPT !.job = job, !.at = "start"]

HouseTypeOK ==
    /\ live \subseteq Kept /\ merged \subseteq Kept /\ noted \subseteq Kept
    /\ keys \in [Cells -> Shapes]
    /\ entry \in [Kept -> Entries]
    /\ setup.file \in Files /\ setup.global \in Globals
    /\ \E c \in Contents : setup = In(c, setup.file, setup.global)
    /\ duty.job \in {"none", "fix", "doctor", "prune", "preview", "when"}
    /\ duty.at \in {"start", "dropping", "listed", "pruning", "done"}
    /\ duty.before \in [Cells -> Shapes] /\ duty.todo \subseteq Cells
    /\ duty.plan \subseteq Kept /\ duty.pruned \in 0 .. Cardinality(Kept)
    /\ report.checks \in [Checks -> {"none", "ok", "warning", "failed"}]
    /\ report.advice \subseteq Kept
    /\ gone \subseteq Cells /\ hands \in 0 .. MaxHands

\* What the world is like to begin with, one thing at a time.
HouseInit ==
    /\ report = NoReport /\ gone = {} /\ hands = 0
    /\ \/ /\ duty = Job("fix")
          /\ live \in SUBSET Kept
          /\ keys \in [Cells -> Shapes]
          /\ Cardinality({c \in Cells : keys[c] # "none"}) <= MaxKeys
          /\ entry = [b \in Kept |-> "none"] /\ merged = {} /\ noted = {} /\ setup = Fine
       \/ /\ duty = Job("doctor")
          /\ live \in SUBSET Kept /\ merged \in SUBSET live /\ noted \in SUBSET Kept
          /\ entry \in [Kept -> Entries]
          /\ keys = [c \in Cells |-> "none"] /\ setup = Fine
       \/ /\ duty = Job("doctor")
          /\ setup \in Setups
          /\ live = {} /\ merged = {} /\ noted = {} /\ entry = [b \in Kept |-> "none"]
          /\ keys = [c \in Cells |-> "none"]
       \/ /\ duty \in {Job("prune"), Job("preview")}
          /\ entry \in [Kept -> Entries] /\ live = Kept
          /\ merged = {} /\ noted = {} /\ setup = Fine /\ keys = [c \in Cells |-> "none"]
       \/ /\ \E t \in UNION {[1 .. n -> Tokens] : n \in 0 .. MaxWhen} :
                duty = [Job("when") EXCEPT !.when = t]
          /\ live = {} /\ merged = {} /\ noted = {} /\ entry = [b \in Kept |-> "none"]
          /\ setup = Fine /\ keys = [c \in Cells |-> "none"]

HouseRest ==
    /\ live = {} /\ keys = [c \in Cells |-> "none"] /\ entry = [b \in Kept |-> "none"]
    /\ merged = {} /\ noted = {} /\ setup = Fine /\ duty = Idle /\ report = NoReport
    /\ gone = {} /\ hands = 0

-----------------------------------------------------------------------------
\* doctor --fix: the keys of branches that are gone are read,
ListOrphans ==
    /\ duty.job = "fix" /\ duty.at = "start"
    /\ duty' = [duty EXCEPT !.at = "dropping", !.todo = OrphanKeys,
                            !.before = [c \in Cells |-> IF c \in OrphanKeys THEN keys[c]
                                                        ELSE "none"]]
    /\ UNCHANGED <<live, keys, entry, merged, noted, setup, report, gone, hands>>

\* What libgit2 makes of a key, asked in the way its shape was read: a key of several
\* values goes as such, one value goes, and it refuses the others.
Removed(was, key) ==
    IF NeedsMultivar(was) THEN IF key \in {"one", "many"} THEN "none" ELSE key
    ELSE IF key \in {"one", "bare"} THEN "none" ELSE key

\* one after the other dropped, unless that fails,
Drop(c) ==
    /\ duty.job = "fix" /\ duty.at = "dropping" /\ c \in duty.todo
    /\ duty' = [duty EXCEPT !.todo = @ \ {c}]
    /\ \/ /\ Reachable(duty.before[c])
          /\ keys' = [keys EXCEPT ![c] = Removed(duty.before[c], @)]
       \/ UNCHANGED keys
    /\ gone' = IF keys'[c] # keys[c] THEN gone \cup {c} ELSE gone
    /\ UNCHANGED <<live, entry, merged, noted, setup, report, hands>>

\* Slip in ReadBack: what was attempted is told.
TellAttempts ==
    /\ duty.job = "fix" /\ duty.at = "dropping" /\ duty.todo = {}
    /\ report' = [report EXCEPT
          !.purged = Cardinality({c \in Cells : Reachable(duty.before[c])}),
          !.remaining = Cardinality(OrphanKeys)]
    /\ duty' = [duty EXCEPT !.job = "doctor", !.at = "start", !.fixed = TRUE]
    /\ UNCHANGED <<live, keys, entry, merged, noted, setup, gone, hands>>

\* and what is told is read back: how many fewer a branch has, and what is left.
ReadBack ==
    /\ duty.job = "fix" /\ duty.at = "dropping" /\ duty.todo = {}
    /\ LET Had(b) == Cardinality({l \in Suffixes : duty.before[<<b, l>>] # "none"})
           Has(b) == Cardinality({l \in Suffixes : <<b, l>> \in OrphanKeys})
           Less(b) == IF Had(b) > Has(b) THEN Had(b) - Has(b) ELSE 0
       IN  report' = [report EXCEPT
              !.purged = MapThenSumSet(Less, Kept),
              !.remaining = Cardinality(OrphanKeys)]
    /\ duty' = [duty EXCEPT !.job = "doctor", !.at = "start", !.fixed = TRUE]
    /\ UNCHANGED <<live, keys, entry, merged, noted, setup, gone, hands>>

\* doctor: the configuration, and the worktrees as they are listed,
ListTrees ==
    /\ duty.job = "doctor" /\ duty.at = "start"
    /\ report' = [report EXCEPT !.checks = [@ EXCEPT
          !["config"] = CheckConfigParses(setup),
          !["guards"] = CheckGuardReferences(setup),
          !["when"] = CheckWhenPredicates(setup),
          !["binaries"] = CheckBinariesOnPath(setup),
          !["prunable"] = IF setup.list = "fine" THEN CheckPrunable(entry) ELSE "failed"]]
    /\ duty' = [duty EXCEPT !.at = "listed", !.listed = entry]
    /\ UNCHANGED <<live, keys, entry, merged, noted, setup, gone, hands>>

\* then the branches, the notes and the keys as they are by then, and the rest.
Diagnose ==
    /\ duty.job = "doctor" /\ duty.at = "listed"
    /\ \E readable \in BOOLEAN :
          LET claimed == {b \in Kept : duty.listed[b] = "tree"}
              orphans == IF readable /\ setup.list = "fine" THEN OrphanBranches(claimed) ELSE {}
          IN  report' = [report EXCEPT
                !.advice = orphans,
                !.checks = [@ EXCEPT
                   !["branches"] = Verdict(setup.list # "fine" \/ ~ readable, orphans # {}),
                   !["notes"] = Verdict(FALSE, OrphanNotes # {}),
                   !["keys"] = Verdict(FALSE, OrphanKeys # {}),
                   !["base"] = CheckBaseDirWritable(setup),
                   !["keymap"] = CheckTuiKeymap(setup),
                   !["pattern"] = CheckBranchPattern(setup)]]
    /\ duty' = [duty EXCEPT !.at = "done"]
    /\ UNCHANGED <<live, keys, entry, merged, noted, setup, gone, hands>>

-----------------------------------------------------------------------------
\* prune: the entries whose directory is missing and that nobody locked; a dry run ends
\* there.
PlanPrune ==
    /\ duty.job \in {"prune", "preview"} /\ duty.at = "start"
    /\ duty' = [duty EXCEPT !.plan = {b \in Kept : Prunable(entry[b])},
                            !.at = IF duty.job = "preview" THEN "done" ELSE "pruning"]
    /\ UNCHANGED <<live, keys, entry, merged, noted, setup, report, gone, hands>>

\* Each is looked up again, and what has that name then is pruned, locked or not, and
\* its directory if it has one.
PruneOne(b) ==
    /\ duty.at = "pruning" /\ b \in duty.plan
    /\ \/ /\ entry[b] # "none"
          /\ entry' = [entry EXCEPT ![b] = "none"]
          /\ duty' = [duty EXCEPT !.plan = @ \ {b}, !.pruned = @ + 1]
       \/ /\ duty' = [duty EXCEPT !.plan = @ \ {b}]
          /\ UNCHANGED entry
    /\ UNCHANGED <<live, keys, merged, noted, setup, report, gone, hands>>

Pruned ==
    /\ duty.at = "pruning" /\ duty.plan = {}
    /\ duty' = [duty EXCEPT !.at = "done"]
    /\ UNCHANGED <<live, keys, entry, merged, noted, setup, report, gone, hands>>

\* A step of bootstrap, or a hook: runs unless its `when` says no.
Evaluate ==
    /\ duty.job = "when" /\ duty.at = "start"
    /\ duty' = [duty EXCEPT !.at = "done", !.ran = EvaluateWhen(duty.when)]
    /\ UNCHANGED <<live, keys, entry, merged, noted, setup, report, gone, hands>>

-----------------------------------------------------------------------------
\* The others: a branch is made, with its keys and its worktree, or goes; a worktree is
\* moved back to its place, or locked; a note is written.
Between ==
    /\ duty.at = "dropping" => "purge" \in Windows
    /\ duty.at = "pruning" => "prune" \in Windows
    /\ duty.job = "doctor" /\ duty.at = "listed" => "doctor" \in Windows
    /\ duty.job # "when" /\ hands < MaxHands
    /\ hands' = hands + 1

MadeBranch(b) ==
    /\ b \notin live /\ entry[b] = "none"
    /\ Between
    /\ live' = live \cup {b}
    /\ entry' = [entry EXCEPT ![b] = "tree"]
    /\ keys' = [c \in Cells |-> IF c[1] = b /\ keys[c] = "none" THEN "one" ELSE keys[c]]
    /\ UNCHANGED <<merged, noted, setup, duty, report, gone>>

DeletedBranch(b) ==
    /\ b \in live /\ entry[b] # "tree"
    /\ Between
    /\ live' = live \ {b} /\ merged' = merged \ {b}
    /\ UNCHANGED <<keys, entry, noted, setup, duty, report, gone>>

CameBack(b, e) ==
    /\ entry[b] \in {"missing", "lockedMissing"} /\ e \in {"tree", "lockedMissing"}
    /\ Between
    /\ entry' = [entry EXCEPT ![b] = e]
    /\ UNCHANGED <<live, keys, merged, noted, setup, duty, report, gone>>

HouseNext ==
    \/ ListOrphans \/ ReadBack \/ ListTrees \/ Diagnose
    \/ PlanPrune \/ Pruned \/ Evaluate
    \/ \E c \in Cells : Drop(c)
    \/ \E b \in Kept :
          PruneOne(b) \/ MadeBranch(b) \/ DeletedBranch(b) \/ \E e \in Entries : CameBack(b, e)

HouseSpec == HouseInit /\ [][HouseNext]_hvars

-----------------------------------------------------------------------------
\* Neither takes what is in use: the keys of a branch that is there, a worktree with its
\* directory, an entry that somebody locked (purge_orphan_branch_config, prune); nor does
\* the doctor propose to delete a branch that is in a worktree or in a trunk
\* (check_orphan_branches).
HousekeepingSparesTheLiving ==
    [][hands' = hands =>
          /\ \A c \in Cells : keys[c] # "none" /\ keys'[c] = "none" => c[1] \notin live
          /\ \A b \in Kept : entry'[b] # entry[b] => entry[b] = "missing"
          /\ report'.advice \cap (Claimed \cup merged) = {} \/ report' = report]_hvars

\* What --fix tells is what it did: as many keys purged as are gone, and the others left,
\* however a deletion ended (the outcome is read back, purge_orphan_branch_config).
FixTellsWhatItDid ==
    duty.job = "doctor" /\ duty.fixed =>
        /\ report.purged = Cardinality(gone)
        /\ report.remaining = Cardinality({c \in Cells : duty.before[c] # "none"} \ gone)

\* A clean bill of health is one: the exit code is 0 only when nothing is out of order that
\* the doctor looks at, and then it says nothing else (DoctorReport::exit_code).  It looks
\* at guards and steps in the configuration that loads, at keymap and pattern in the one
\* that merges, and of a file that parses and does not load it sees no more than that:
\* GuardReferencesResolve is about that one.
Ailing ==
    \/ setup.file \in {"unreadable", "invalid", "badProfile"}
    \/ setup.list # "fine"
    \/ setup.baseDir \in {"unexpandable", "readOnly", "parentReadOnly", "parentMissing"}
    \/ Merges(setup) /\ (setup.keymap # "fine" \/ setup.pattern # "fine")
    \/ Loads(setup) /\
          \/ setup.guards = "dangling" \/ "unknown" \in AtomsOf(setup.step.when)
          \/ setup.step.line # <<>> /\ setup.step.given /\ EvaluateWhen(setup.step.when) /\ setup.step.runs \notin Present
    \/ \E b \in Kept : entry[b] = "missing"
    \/ OrphanNotes # {} \/ OrphanKeys # {}
    \/ OrphanBranches(Claimed) # {}
HealthIsReal ==
    duty.job = "doctor" /\ duty.at = "done" /\ ExitCode(report.checks) = 0 /\ hands = 0 =>
        ~ Ailing

\* An expression means what it says, `!` before `&&` before `||` (evaluate_when).
WhenMeansWhatItSays ==
    duty.job = "when" /\ duty.at = "done" /\ WellFormed(duty.when) =>
        duty.ran = Means(duty.when)

HousekeepingHolds ==
    /\ HouseTypeOK /\ FixTellsWhatItDid /\ HealthIsReal /\ WhenMeansWhatItSays

\* The check that says every reference points at a real guard is right about that
\* (check_guard_references): not when the configuration does not load.
GuardReferencesResolve ==
    duty.job = "doctor" /\ duty.at = "done" /\ report.checks["guards"] = "ok" =>
        setup.guards = "known"

\* What the comments say beyond that, and what does not hold: a key that --fix is said to
\* drop is dropped (github.rs:1023), a step whose expression is not understood runs
\* (bootstrap.rs:563).
FixHelps == \A s \in Shapes : Reachable(s) => Removed(s, s) = "none"
UnknownRuns ==
    duty.job = "when" /\ duty.at = "done" /\ AtomsOf(duty.when) \subseteq {"unknown"} => duty.ran
=============================================================================
