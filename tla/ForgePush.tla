------------------------------- MODULE ForgePush -------------------------------
(***************************************************************************)
(* `gwm labels push` and `gwm milestones push`: what .gwm.toml declares is *)
(* resolved and compared with what the forge has, and the difference is    *)
(* written there call by call (src/src/cli.rs, src/src/labels.rs,          *)
(* src/src/milestones.rs), each forge in its own terms                     *)
(* (src/src/github.rs, src/src/gitlab.rs).  A call may fail, and others    *)
(* write to the forge too.                                                 *)
(*                                                                         *)
(* A label or a milestone is called by a number.  `mark` is a label's      *)
(* colour or the day a milestone is due, and 0 is what is left unsaid.     *)
(***************************************************************************)
EXTENDS Naturals, Sequences

CONSTANTS
    Names, Hostile,     \* of which no forge may be called with the latter
    MayDeclare, MayHold,    \* name -> the entries a repository or a forge starts with
    MaxPushes, MaxOthers    \* bounds: pushes, and what others write

VARIABLES
    forge, what,    \* "github" or "gitlab", "labels" or "milestones"
    declared,       \* name -> entry, in .gwm.toml
    remote,         \* name -> entry, on the forge
    push,           \* the push under way
    pushes, others,
    ended           \* history: how the last push ended

pvars == <<forge, what, declared, remote, push, pushes, others, ended>>

\* What may be declared, and what a forge holds.
Timed == 2      \* a due date with a time of day
Bad == 3        \* what is neither a colour nor a date
Entries == [desc : 0 .. 1, mark : 0 .. Bad, state : {"open", "closed"}]
Held == [desc : 0 .. 1, mark : 0 .. 2, state : {"open", "closed"}, id : 0 .. MaxOthers]

\* resolve_labels, resolve_milestones; nothing if an entry is refused.
Default == 1
Refusal == <<>>

Named(names) == names \cap Hostile = {}

Resolve(entries, random) ==
    IF \/ what = "labels" /\ ~ Named(DOMAIN entries)
       \/ \E n \in DOMAIN entries : entries[n].mark = Bad
    THEN Refusal
    ELSE [n \in DOMAIN entries |->
            IF what = "labels" /\ entries[n].mark = 0
            THEN [entries[n] EXCEPT !.mark = IF random THEN 2 ELSE Default] ELSE entries[n]]

Same(spec, held) == spec.desc = held.desc /\ spec.mark = held.mark /\ spec.state = held.state

\* diff_labels, diff_milestones
Diff(specs) ==
    [create |-> DOMAIN specs \ DOMAIN remote,
     update |-> {n \in DOMAIN specs \cap DOMAIN remote : ~ Same(specs[n], remote[n])},
     extra |-> DOMAIN remote \ DOMAIN specs]

\* check_due_on_is_date_only: of GitLab's milestones.
Accepts(spec) == ~ (forge = "gitlab" /\ what = "milestones" /\ spec.mark = Timed)

\* Slip in Checked: only what is written is looked at.
CheckedWrites(specs, diff, prune) == \A n \in diff.create \cup diff.update : Accepts(specs[n])

\* Before a plan is shown or carried out.
Checked(specs, diff, prune) ==
    /\ \A n \in diff.create \cup diff.update : Accepts(specs[n])
    /\ what = "labels" /\ prune => Named(diff.extra)

\* The calls: what to do, to what, and the number it has on the forge; and their order,
\* with what closes a milestone at once after what made it.
Calls(specs, diff, prune) ==
    LET calls(do, names) ==
            {[do |-> do, name |-> n, id |-> IF n \in DOMAIN remote THEN remote[n].id ELSE 0] : n \in names}
    IN  calls("create", diff.create) \cup calls("update", diff.update)
            \cup (IF prune THEN calls("delete", diff.extra) ELSE {})
Order == [close |-> 0, create |-> 1, update |-> 2, delete |-> 3]

-----------------------------------------------------------------------------
NotPushing == [step |-> "none"]
NotEnded == [how |-> "none"]

ForgePushInit ==
    /\ forge \in {"github", "gitlab"} /\ what \in {"labels", "milestones"}
    /\ \E some \in SUBSET Names :
        /\ declared \in [some -> Entries]
        /\ \A n \in some :
            /\ declared[n] \in MayDeclare[n]
            /\ what = "labels" => declared[n].state = "open"
    /\ \E some \in SUBSET Names :
        /\ remote \in [some -> Held]
        /\ \A n \in some :
            /\ remote[n] \in MayHold[n]
            /\ forge = "gitlab" => remote[n].mark # Timed
            /\ what = "labels" => remote[n].state = "open" /\ remote[n].mark # 0
    /\ push = NotPushing /\ pushes = 0 /\ others = 0 /\ ended = NotEnded

ForgePushRest ==
    /\ forge = "github" /\ what = "labels" /\ declared = <<>> /\ remote = <<>>
    /\ push = NotPushing /\ pushes = 0 /\ others = 0 /\ ended = NotEnded

Ended(how, specs, prune, was, seen) ==
    ended' = [how |-> how, specs |-> specs, prune |-> prune, was |-> was, seen |-> seen]

\* cmd_labels_push, cmd_milestones_push, up to the first call that writes.
Push(dry, prune, random) ==
    /\ push = NotPushing /\ pushes < MaxPushes /\ pushes' = pushes + 1
    /\ DOMAIN declared # {}
    /\ LET specs == Resolve(declared, random)
           diff == Diff(specs)
       IN  IF specs = Refusal \/ ~ Checked(specs, diff, prune)
           THEN push' = NotPushing /\ Ended("refused", <<>>, prune, remote, others)
           ELSE IF dry
           THEN push' = NotPushing /\ Ended("planned", specs, prune, remote, others)
           ELSE /\ push' = [step |-> "write", specs |-> specs, prune |-> prune, was |-> remote,
                            seen |-> others, todo |-> Calls(specs, diff, prune)]
                /\ ended' = NotEnded
    /\ UNCHANGED <<forge, what, declared, remote, others>>

NextCalls == {c \in push.todo : \A d \in push.todo : Order[c.do] <= Order[d.do]}

\* What a call leaves there: GitHub is not told what is unsaid, GitLab is.
Told(spec, field, old) == IF spec[field] = 0 /\ forge = "github" THEN old[field] ELSE spec[field]

Written(spec, old) ==
    [desc |-> Told(spec, "desc", old), mark |-> Told(spec, "mark", old),
     state |-> spec.state, id |-> old.id]

New == [desc |-> 0, mark |-> 0, state |-> "open", id |-> others]

\* A label is called by its name, and GitHub makes it if need be; a milestone by its number.
Finds(c) ==
    /\ c.name \in DOMAIN remote
    /\ what = "milestones" => remote[c.name].id = c.id

Put(n, entry) ==
    remote' = [m \in DOMAIN remote \cup {n} |-> IF m = n THEN entry ELSE remote[m]]

Onward(c) == [push EXCEPT !.todo = @ \ {c}]

Forced == forge = "github" /\ what = "labels"

Making(c) ==
    LET n == c.name
        spec == push.specs[n]
        old == IF n \in DOMAIN remote THEN remote[n] ELSE New
        closing == forge = "gitlab" /\ what = "milestones" /\ spec.state = "closed"
    IN  /\ c.do = "create" \/ (c.do = "update" /\ Forced)
        /\ Forced \/ n \notin DOMAIN remote
        /\ Put(n, [Written(spec, old) EXCEPT !.state = IF closing THEN "open" ELSE @])
        /\ push' = IF closing       \* a second call
                   THEN [push EXCEPT !.todo = (@ \ {c}) \cup {[do |-> "close", name |-> n, id |-> old.id]}]
                   ELSE Onward(c)

Changing(c) ==
    /\ c.do = "close" \/ (c.do = "update" /\ ~ Forced)
    /\ Finds(c)
    /\ Put(c.name, Written(push.specs[c.name], remote[c.name])) /\ push' = Onward(c)

Deleting(c) ==
    /\ c.do = "delete" /\ Finds(c)
    /\ remote' = [m \in DOMAIN remote \ {c.name} |-> remote[m]] /\ push' = Onward(c)

\* The backend looks at what it is given once more.
Takes(c) == IF c.do = "delete" THEN what = "labels" => Named({c.name}) ELSE Accepts(push.specs[c.name])

PushCall ==
    /\ push # NotPushing
    /\ \E c \in NextCalls : Takes(c) /\ (Making(c) \/ Changing(c) \/ Deleting(c))
    /\ UNCHANGED <<forge, what, declared, pushes, others, ended>>

\* The first failure ends it: gwm's own refusal, or the forge's, for any reason.
PushFails ==
    /\ push # NotPushing
    /\ \E c \in NextCalls :
          Ended(IF Takes(c) THEN "failed" ELSE "late", push.specs, push.prune, push.was, push.seen)
    /\ push' = NotPushing
    /\ UNCHANGED <<forge, what, declared, remote, pushes, others>>

PushDone ==
    /\ push # NotPushing /\ push.todo = {}
    /\ push' = NotPushing
    /\ Ended("done", push.specs, push.prune, push.was, push.seen)
    /\ UNCHANGED <<forge, what, declared, remote, pushes, others>>

-----------------------------------------------------------------------------
\* The others, on the forge.
Others == others < MaxOthers /\ others' = others + 1
          /\ UNCHANGED <<forge, what, declared, push, pushes, ended>>

OthersPut(n, entry) == Others /\ Put(n, [entry EXCEPT !.id = others'])
OthersDelete(n) ==
    Others /\ n \in DOMAIN remote /\ remote' = [m \in DOMAIN remote \ {n} |-> remote[m]]

ForgePushNext ==
    \/ \E dry, prune, random \in BOOLEAN : Push(dry, prune, random)
    \/ PushCall \/ PushFails \/ PushDone
    \/ \E n \in Names : OthersDelete(n)
        \/ \E e \in {h \in Held : h.id = 0 /\ h.desc = 1 /\ h.mark = 1 /\ h.state = "open"} : OthersPut(n, e)

ForgePushSpec == ForgePushInit /\ [][ForgePushNext]_pvars

-----------------------------------------------------------------------------
\* Nobody else wrote since the push looked.
Alone == others = ended.seen

\* A push that went through leaves the forge as declared, and what is unsaid as it was
\* on GitHub; with --prune nothing else is left, without it nothing is lost.
DoneIsDeclared ==
    ended.how = "done" /\ Alone =>
        LET specs == DOMAIN ended.specs  was == DOMAIN ended.was IN
        /\ DOMAIN remote = specs \cup (IF ended.prune THEN {} ELSE was)
        /\ \A n \in was \ specs : n \in DOMAIN remote => remote[n] = ended.was[n]
        /\ \A n \in specs :
            /\ remote[n].state = ended.specs[n].state
            /\ \A field \in {"desc", "mark"} :
                \/ remote[n][field] = ended.specs[n][field]
                \/ /\ forge = "github" /\ ended.specs[n][field] = 0
                   /\ n \in was /\ remote[n][field] = ended.was[n][field]

\* What gwm will not send it refuses before anything is sent, and before a plan is
\* shown; a refused push and a plan change nothing.
RefusedBeforeAnyCall ==
    /\ ended.how # "late"
    /\ ended.how \in {"refused", "planned"} /\ Alone => remote = ended.was

PushInv == DoneIsDeclared /\ RefusedBeforeAnyCall

\* What the documentation of .gwm.toml says of a description that is not declared.
UnsaidIsLeftAlone ==
    ended.how = "done" /\ Alone =>
        \A n \in DOMAIN ended.specs \cap DOMAIN ended.was :
            ended.specs[n].desc = 0 => remote[n].desc = ended.was[n].desc
=============================================================================
