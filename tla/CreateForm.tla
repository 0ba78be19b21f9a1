------------------------------- MODULE CreateForm -------------------------------
(***************************************************************************)
(* The names of worktrees: what the patterns of the configuration write    *)
(* and what is read back from a branch and a directory                     *)
(* (src/src/naming.rs), and the form of the TUI that makes a worktree from *)
(* them, or from an issue, or renames one (src/src/tui/state/              *)
(* create_form.rs, src/src/tui/app.rs).                                    *)
(*                                                                         *)
(* A pattern is a sequence of tokens: segments, "repo", which is known, and *)
(* characters.  A name is a sequence of characters.                        *)
(***************************************************************************)
EXTENDS Naturals, Sequences, FiniteSets, SequencesExt, FiniteSetsExt

CONSTANTS
    Letters, Digits,        \* of the characters; others are "-", "/" and "_"
    Types,                  \* the branch types, in their order
    Repo,                   \* the name of the repository
    Configs, Others,        \* the patterns in force, and those of another repository
    Probes,                 \* patterns that are only read
    Specs, FreeNames,       \* what worktrees were made from
    Titles,                 \* the issues of the forge: their type and description
    Strokes,                \* what may be typed
    MaxText, MaxStrokes,    \* bounds: a text, and keys in one form
    Switches                \* a refresh may change the repository under the form

VARIABLES
    conf,       \* the patterns in force
    row,        \* the worktree under the cursor
    form,
    loading,    \* what the form waits for: nothing, an answer, a worker
    touched,    \* history: the segments that were edited
    sent,       \* history: what was last submitted
    strokes

formVars == <<conf, row, form, loading, touched, sent, strokes>>

Segments == {"type", "issue", "desc"}
InOrder == <<"type", "issue", "desc">>
TypeNames == {Types[i] : i \in DOMAIN Types}

-----------------------------------------------------------------------------
\* ISSUE_GROUP and its like: what a segment may hold.
Accepts(segment, c) ==
    CASE segment = "type" -> c \in Letters
      [] segment = "issue" -> c \in Digits
      [] segment = "desc" -> c \in Letters \cup Digits \cup {"-"}

Starts(segment, c) == Accepts(segment, c) /\ ~ (segment = "desc" /\ c = "-")

Holds(segment, s) ==
    /\ s # <<>> /\ Starts(segment, s[1])
    /\ \A i \in DOMAIN s : Accepts(segment, s[i])

\* expand_placeholders
Literal(token) == IF token = "repo" THEN Repo ELSE <<token>>

Expand(pattern, v) ==
    FlattenSeq([i \in DOMAIN pattern |->
        IF pattern[i] \in Segments THEN v[pattern[i]] ELSE Literal(pattern[i])])

Writes(pattern) == Segments \cap ToSet(pattern)

\* fields_for: the segments that a pattern writes, by their first appearance.
Fields(c) ==
    FoldLeft(LAMBDA out, t : IF t \in ToSet(out) \/ t \notin Segments THEN out ELSE Append(out, t),
             <<>>, c.branch \o c.path \o c.base)

-----------------------------------------------------------------------------
\* What a compiled pattern matches: each way to read a name, as the text of the segments.
NoText == [s \in Segments |-> <<>>]

IsAt(name, at, text) == at + Len(text) <= Len(name) /\ SubSeq(name, at + 1, at + Len(text)) = text

Past(name, ways, token) ==
    IF token \in Segments
    THEN {[at |-> we[2], text |-> [we[1].text EXCEPT ![token] = SubSeq(name, we[1].at + 1, we[2])]] :
            we \in {x \in ways \X (1 .. Len(name)) : Holds(token, SubSeq(name, x[1].at + 1, x[2]))}}
    ELSE {[at |-> w.at + Len(Literal(token)), text |-> w.text] :
            w \in {x \in ways : IsAt(name, x.at, Literal(token))}}

Readings(pattern, name) ==
    {w.text : w \in {x \in FoldLeft(LAMBDA ways, token : Past(name, ways, token),
                                    {[at |-> 0, text |-> NoText]}, pattern) : x.at = Len(name)}}

\* Of several the expression takes the one whose first segments are the longest.
Greedy(pattern, ways) ==
    CHOOSE w \in ways : \A o \in ways \ {w} :
        \E i \in DOMAIN pattern :
            /\ pattern[i] \in Segments
            /\ Len(w[pattern[i]]) > Len(o[pattern[i]])
            /\ \A j \in 1 .. i - 1 : pattern[j] \in Segments => w[pattern[j]] = o[pattern[j]]

\* The text between two segments, which could be read as part of either.
CanStart(segment, s) ==
    s # <<>> => Starts(segment, s[1]) /\ \A i \in DOMAIN s : Accepts(segment, s[i])

CanShift(left, sep, right) ==
    IF sep = <<>>
    THEN \E c \in Letters \cup Digits \cup {"-"} : Accepts(left, c) /\ Starts(right, c)
    ELSE \E d \in 1 .. Len(sep) :
            /\ \A i \in 1 .. d : Accepts(left, sep[i])
            /\ SubSeq(sep, 1, Len(sep) - d) = SubSeq(sep, d + 1, Len(sep))
            /\ CanStart(right, SubSeq(sep, Len(sep) - d + 1, Len(sep)))

Probe == [type |-> Types[1], issue |-> <<CHOOSE d \in Digits : TRUE>>,
          desc |-> <<CHOOSE l \in Letters : TRUE>>]

\* Slip in Compiles: a separator may be what the segment before it can hold.
CompilesLoosely(pattern) ==
    \A i, j \in DOMAIN pattern :
        i < j /\ pattern[i] \in Segments /\ pattern[j] \in Segments
            => pattern[i] # pattern[j] /\ (j = i + 1 => ~ CanShift(pattern[i], <<>>, pattern[j]))

\* compile: a segment is written once, no boundary can shift, and the parser reads what
\* the formatter writes.
Compiles(pattern) ==
    /\ \A i, j \in DOMAIN pattern :
        i < j /\ pattern[i] \in Segments /\ pattern[j] \in Segments =>
            /\ pattern[i] # pattern[j]
            /\ (\A k \in i + 1 .. j - 1 : pattern[k] \notin Segments) =>
                    ~ CanShift(pattern[i], Expand(SubSeq(pattern, i + 1, j - 1), Probe), pattern[j])
    /\ \E w \in Readings(pattern, Expand(pattern, Probe)) :
            \A s \in Writes(pattern) : w[s] = Probe[s]

-----------------------------------------------------------------------------
\* literal_constants: a segment that is not written may be frozen in what is, between
\* the segments that come before it and after it, the end of the one before at `cursor`.
Rank(s) == SelectInSeq(InOrder, LAMBDA x : x = s)

Region(pattern, s) ==
    LET At(S) == {i \in DOMAIN pattern : pattern[i] \in S}
        before == At({t \in Segments : Rank(t) < Rank(s)})
        after == At({t \in Segments : Rank(t) > Rank(s)})
    IN  [from |-> IF before = {} THEN 1 ELSE Max(before) + 1,
         to |-> IF after = {} THEN Len(pattern) ELSE Min(after) - 1]

\* The longest runs of what the segment accepts, without the dashes they start with.
Runs(pattern, s, from, to) ==
    LET Of(i) == i \in from .. to /\ Accepts(s, pattern[i])
        Text(a, b) == LET starts == {i \in a .. b : Starts(s, pattern[i])}
                      IN  IF starts = {} THEN <<>> ELSE SubSeq(pattern, Min(starts), b)
    IN  {[end |-> ab[2] + 1, text |-> Text(ab[1], ab[2])] : ab \in
            {x \in (from .. to) \X (from .. to) :
                (\A i \in x[1] .. x[2] : Of(i)) /\ x[1] <= x[2] /\ ~ Of(x[1] - 1) /\ ~ Of(x[2] + 1)}}

Plausible(s, text) == Holds(s, text) /\ (s = "type" => text \in TypeNames)

\* assignments: each way to read the segments that are missing, in their order; one may be left
\* unread, and one that is read ends before the next is looked for.
Assigned(pattern, ways, s) ==
    LET region == Region(pattern, s)
        Found(w) == {r \in Runs(pattern, s, Max({region.from, w.at}), region.to) : Plausible(s, r.text)}
    IN  ways \cup UNION {{[at |-> r.end, frozen |-> w.frozen \cup {<<s, r.text>>}] : r \in Found(w)} : w \in ways}

Assignments(pattern, missing) ==
    {w.frozen : w \in FoldLeft(LAMBDA ways, s : Assigned(pattern, ways, s),
                               {[at |-> 1, frozen |-> {}]}, missing)}

\* What the fullest readings agree on.
Fullest(all) == {a \in all : \A b \in all : Cardinality(b) <= Cardinality(a)}
Agreed(top) == {x \in UNION top : \A a \in top : x \in a}
Frozen(pattern) ==
    Agreed(Fullest(Assignments(pattern, SelectSeq(InOrder, LAMBDA s : s \notin Writes(pattern)))))

Unread == [none |-> TRUE]

\* BranchParser::parse; a pattern that does not compile reads nothing.
Taken(pattern, ways, frozen) ==
    IF ways = {} THEN Unread
    ELSE [s \in Segments |-> IF s \in Writes(pattern) THEN Greedy(pattern, ways)[s]
                             ELSE IF \E x \in frozen : x[1] = s
                             THEN (CHOOSE x \in frozen : x[1] = s)[2] ELSE <<>>]

Parse(pattern, name) ==
    IF Compiles(pattern) THEN Taken(pattern, Readings(pattern, name), Frozen(pattern)) ELSE Unread

\* worktree_spec: the branch first, and what it does not write from the directory.
Joined(c, spec, read) ==
    IF spec = Unread \/ read = Unread THEN spec
    ELSE [s \in Segments |->
            IF s \in Writes(c.path) \ Writes(c.branch) /\ read[s] # <<>> THEN read[s] ELSE spec[s]]

WorktreeSpec(c, branch, dir) == Joined(c, Parse(c.branch, branch), Parse(c.path, dir))

-----------------------------------------------------------------------------
Dash(s) == [i \in DOMAIN s |-> IF s[i] = "/" THEN "-" ELSE s[i]]

\* kebab: anything else is a dash, never two of them, nor one at an end.
Untrailed(s) == IF s # <<>> /\ Last(s) = "-" THEN Front(s) ELSE s
Kebab(s) ==
    Untrailed(FoldLeft(LAMBDA out, c :
                    IF c \in Letters \cup Digits THEN Append(out, c)
                    ELSE IF out = <<>> \/ Last(out) = "-" THEN out ELSE Append(out, "-"), <<>>, s))

Refused == [refused |-> TRUE]

\* BranchSpec, once what the patterns write is found to be valid.
Written(c, v) ==
    IF \A s \in ToSet(Fields(c)) : Holds(s, v[s]) /\ (s = "type" => v[s] \in TypeNames)
    THEN [branch |-> Expand(c.branch, v), base |-> Expand(c.base, v), dir |-> Expand(c.path, v)]
    ELSE Refused
Structured(c, v) == Written(c, [v EXCEPT !.desc = Kebab(@)])

\* WorktreeName::freeform, as git and every file system would have it, and never under
\* a base that is sorted by a segment.
Freeform(c, name) ==
    IF \/ name = <<>> \/ name[1] \in {"-", "/"} \/ Last(name) = "/"
       \/ \E i \in 1 .. Len(name) - 1 : name[i] = "/" /\ name[i + 1] = "/"
       \/ Writes(c.base) # {}
    THEN Refused
    ELSE [branch |-> name, base |-> Expand(c.base, NoText), dir |-> Dash(name)]

\* What gwm made under these patterns.
Rows(c) ==
    {r \in {[made |-> "spec", at |-> Structured(c, v)] : v \in Specs}
            \cup {[made |-> "name", at |-> Freeform(c, n)] : n \in FreeNames} : r.at # Refused}

-----------------------------------------------------------------------------
NoRow == [made |-> "none"]
NotSent == [kind |-> "none"]

Blank == [view |-> "list", mode |-> "structured", field |-> "type", type |-> 1, issue |-> <<>>,
          desc |-> <<>>, name |-> <<>>, awaiting |-> <<>>, of |-> NoRow]

FormTypeOK ==
    /\ form.view \in {"list", "create", "edit", "report"}
    /\ form.mode \in {"structured", "freeform", "issue"}
    /\ form.field \in Segments \cup {"name"} /\ form.type \in DOMAIN Types
    /\ loading \in {"no", "answer", "worker"} /\ touched \subseteq Segments
    /\ strokes \in 0 .. MaxStrokes

FormInit ==
    /\ \/ conf \in Configs /\ row \in Rows(conf)
       \/ row = NoRow /\ conf \in {[branch |-> p, path |-> p, base |-> <<>>] : p \in Probes}
    /\ form = Blank /\ loading = "no" /\ touched = {} /\ sent = NotSent /\ strokes = 0

FormRest ==
    /\ conf = [branch |-> <<>>, path |-> <<>>, base |-> <<>>] /\ row = NoRow
    /\ form = Blank /\ loading = "no" /\ touched = {} /\ sent = NotSent /\ strokes = 0

First(s, default) == IF s = <<>> THEN default ELSE s[1]
EntryField == LET texts == SelectSeq(Fields(conf), LAMBDA f : f # "type")
              IN  First(texts, First(Fields(conf), "type"))
LastField == IF Fields(conf) = <<>> THEN "type" ELSE Last(Fields(conf))

\* reset keeps what is renamed.
Reset == [Blank EXCEPT !.view = form.view, !.of = form.of, !.field = First(Fields(conf), "type")]
Closed == [Reset EXCEPT !.view = "list", !.of = NoRow]

Open(f) == form.view = "list" /\ row # NoRow /\ form' = f /\ touched' = {}

EnterCreate ==
    /\ Open([Reset EXCEPT !.view = "create", !.field = EntryField])
    /\ UNCHANGED <<conf, row, loading, sent, strokes>>

EnterCreateFromIssue ==
    /\ Open([Reset EXCEPT !.view = "create", !.mode = "issue", !.field = "issue"])
    /\ UNCHANGED <<conf, row, loading, sent, strokes>>

\* Slip in Showable: what was not read is shown as it comes.
ShowableAlways(spec) == Holds("type", spec.type) => spec.type \in TypeNames

\* What the form would write it has read.
Showable(spec) ==
    \A s \in ToSet(Fields(conf)) : spec[s] # <<>> /\ (s = "type" => spec[s] \in TypeNames)

Shown(spec) ==
    IF spec = Unread
    THEN [Reset EXCEPT !.view = "edit", !.mode = "freeform", !.field = "name",
                       !.name = row.at.branch, !.of = row]
    ELSE [Reset EXCEPT !.view = "edit", !.field = LastField, !.of = row,
                       !.type = IF spec.type \in TypeNames
                                THEN SelectInSeq(Types, LAMBDA t : t = spec.type) ELSE 1,
                       !.issue = spec.issue, !.desc = spec.desc]

EnterEdit ==
    /\ row # NoRow
    /\ \E spec \in {WorktreeSpec(conf, row.at.branch, row.at.dir)} :
        (spec # Unread => Showable(spec)) /\ Open(Shown(spec))
    /\ UNCHANGED <<conf, row, loading, sent, strokes>>

-----------------------------------------------------------------------------
\* Keys; none while the worker is at work.
Typing == form.view \in {"create", "edit"} /\ loading # "worker" /\ strokes < MaxStrokes
            /\ strokes' = strokes + 1
Held == UNCHANGED <<conf, row, loading, sent>>

Editable == CASE form.mode = "freeform" -> form.field = "name"
              [] form.mode = "issue" -> form.field = "issue"
              [] OTHER -> form.field \in ToSet(Fields(conf))

Edited(text) ==
    /\ form' = [form EXCEPT ![form.field] = text]
    /\ touched' = touched \cup ({form.field} \cap Segments)

Push(c) ==
    /\ Typing /\ Editable /\ form.field # "type" /\ Len(form[form.field]) < MaxText
    /\ form.field = "issue" => c \in Digits
    /\ Edited(Append(form[form.field], c)) /\ Held

Pop ==
    /\ Typing /\ Editable /\ form.field # "type" /\ form[form.field] # <<>>
    /\ Edited(Front(form[form.field])) /\ Held

Turn(by) ==
    /\ Typing /\ form.field = "type"
    /\ form' = [form EXCEPT !.type = 1 + ((@ - 1 + by) % Len(Types))]
    /\ touched' = touched \cup {"type"} /\ Held

\* From a field that is not offered a rotation starts at the first.
Rotated(by) ==
    LET fields == Fields(conf)
        at == IF form.field \in ToSet(fields) THEN SelectInSeq(fields, LAMBDA f : f = form.field) ELSE 1
    IN  IF form.mode # "structured" \/ fields = <<>> THEN form
        ELSE [form EXCEPT !.field = fields[1 + ((at - 1 + by) % Len(fields))]]

Rotate(by) == Typing /\ Rotated(by) # form /\ form' = Rotated(by) /\ Held /\ UNCHANGED touched

\* The other mode starts from the branch that is renamed, in a rename.
Toggle ==
    /\ Typing /\ form.mode # "issue"
    /\ LET seeds == form.view = "edit" IN
       form' = IF form.mode = "structured"
               THEN [form EXCEPT !.mode = "freeform", !.field = "name",
                        !.name = IF seeds /\ @ = <<>> THEN form.of.at.branch ELSE @]
               ELSE [form EXCEPT !.mode = "structured", !.field = EntryField,
                        !.desc = IF seeds /\ @ = <<>> THEN Kebab(form.name) ELSE @]
    /\ touched' = Segments /\ Held

Cancel ==
    /\ form.view \in {"create", "edit"} /\ loading # "worker"
    /\ form' = IF form.view = "edit" THEN Closed ELSE [form EXCEPT !.view = "list"]
    /\ UNCHANGED <<conf, row, loading, touched, sent, strokes>>

-----------------------------------------------------------------------------
\* worktree_name_from_form
Named ==
    IF form.mode = "freeform" THEN Freeform(conf, form.name)
    ELSE Structured(conf, [type |-> Types[form.type], issue |-> form.issue, desc |-> form.desc])

\* prefill_from_issue
Number(digits) == LET some == {i \in DOMAIN digits : digits[i] # "0"}
                  IN  IF some = {} THEN <<>> ELSE SubSeq(digits, Min(some), Len(digits))

Prefilled(n) ==
    LET t == Titles[n] IN
    [form EXCEPT !.mode = "structured", !.issue = n, !.desc = Kebab(t.title), !.awaiting = <<>>,
                 !.type = IF t.type \in DOMAIN Types THEN t.type ELSE @,
                 !.field = IF t.type \in DOMAIN Types THEN EntryField ELSE "type"]

\* submit_create of a number: it is looked up.
Ask ==
    /\ form.view = "create" /\ form.mode = "issue" /\ loading # "worker"
    /\ Number(form.issue) # <<>>
    /\ form' = [form EXCEPT !.awaiting = Number(form.issue)] /\ loading' = "answer"
    /\ UNCHANGED <<conf, row, touched, sent, strokes>>

\* apply_awaited_issue; for a form that was closed or opened again the answer is late.
Answer ==
    /\ loading = "answer" /\ loading' = "no"
    /\ form' = IF form.view = "create" /\ form.awaiting # <<>>
               THEN IF form.awaiting \in DOMAIN Titles THEN Prefilled(form.awaiting)
                    ELSE [form EXCEPT !.awaiting = <<>>]
               ELSE form
    /\ UNCHANGED <<conf, row, touched, sent, strokes>>

\* Enter on the last field.
AtTheEnd ==
    form.field = CASE form.mode = "freeform" -> "name" [] form.mode = "issue" -> "issue"
                   [] OTHER -> LastField

Request(kind, name, of) ==
    /\ sent' = [kind |-> kind, to |-> name, by |-> form.mode, of |-> of, under |-> conf, edited |-> touched]
    /\ loading' = "worker" /\ UNCHANGED form

SubmitCreate ==
    /\ form.view = "create" /\ form.mode # "issue" /\ loading # "worker" /\ AtTheEnd
    /\ \E name \in {Named} \ {Refused} : Request("create", name, NoRow)
    /\ UNCHANGED <<conf, row, touched, strokes>>

SubmitEdit ==
    /\ form.view = "edit" /\ loading # "worker" /\ AtTheEnd
    /\ \E name \in {Named} \ {Refused} :
        IF name = form.of.at THEN form' = Closed /\ UNCHANGED <<sent, loading>>
        ELSE Request("rename", name, form.of)
    /\ UNCHANGED <<conf, row, touched, strokes>>

\* The worker comes back: a failure leaves the form as it is.
Land(ok) ==
    /\ loading = "worker" /\ loading' = "no"
    /\ form' = IF ~ ok THEN form ELSE IF form.view = "edit" THEN Closed ELSE [form EXCEPT !.view = "report"]
    /\ UNCHANGED <<conf, row, touched, sent, strokes>>

\* sync_active_repo, after a refresh that moved the cursor to another repository.
Switch ==
    /\ Switches /\ loading # "worker" /\ row # NoRow /\ conf \notin Others
    /\ conf' \in Others
    /\ form' = [form EXCEPT !.field = IF form.mode = "structured" /\ @ \notin ToSet(Fields(conf'))
                                      THEN First(Fields(conf'), "type") ELSE @]
    /\ UNCHANGED <<row, loading, touched, sent, strokes>>

FormNext ==
    \/ EnterCreate \/ EnterCreateFromIssue \/ EnterEdit
    \/ Pop \/ Toggle \/ Cancel \/ Ask \/ Answer \/ SubmitCreate \/ SubmitEdit \/ Switch
    \/ \E c \in Strokes : Push(c)
    \/ \E by \in {1, 2} : Turn(by) \/ Rotate(by)
    \/ \E ok \in BOOLEAN : Land(ok)

FormSpec == FormInit /\ [][FormNext]_formVars

-----------------------------------------------------------------------------
\* What a pattern that compiles writes is read back, and in one way only (compile).
ReadsBack ==
    Compiles(conf.branch) =>
        \A v \in Specs :
            Readings(conf.branch, Expand(conf.branch, v))
                = {[s \in Segments |-> IF s \in Writes(conf.branch) THEN v[s] ELSE <<>>]}

\* A rename of a worktree gwm made changes the segments that were edited and no other, so
\* that it changes nothing if none was.  Of a branch of another making it may also write the
\* description with single dashes and none at its end, and move the directory to where the pattern
\* has it (enter_edit_worktree, submit_edit_worktree, BranchSpec::new_with_required).
ChangesWhatWasEdited ==
    sent.kind = "rename" /\ sent.by = "structured" =>
        /\ sent.of.made = "spec" => sent.edited # {}
        /\ \A before \in {WorktreeSpec(sent.under, sent.of.at.branch, sent.of.at.dir)},
              now \in {WorktreeSpec(sent.under, sent.to.branch, sent.to.dir)} :
            /\ now # Unread
            /\ \A s \in Segments \ sent.edited :
                now[s] \in {before[s]} \cup IF s = "desc" /\ sent.of.made # "spec" THEN {Kebab(before[s])} ELSE {}

\* What the code says of a form in which nothing was changed, and a description that is not
\* as gwm writes it shows otherwise: it closes, and no branch is renamed (submit_edit_worktree).
UntouchedIsNoRename ==
    sent.kind = "rename" /\ sent.by = "structured" /\ sent.edited = {} =>
        sent.to.branch = sent.of.at.branch

FormInv == FormTypeOK /\ ReadsBack /\ ChangesWhatWasEdited
=============================================================================
