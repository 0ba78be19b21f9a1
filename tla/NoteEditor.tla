------------------------------ MODULE NoteEditor ------------------------------
(***************************************************************************)
(* The notes of the branches (src/src/notes.rs) and the editor of the TUI  *)
(* that writes them (src/src/tui/state/note_editor.rs, handle_note_key in  *)
(* src/src/tui/app.rs).                                                    *)
(*                                                                         *)
(* A text is its lines, and a line its characters: a word is of "a" and    *)
(* "x", "." is a blank, anything else is punctuation.  The caret is before *)
(* a character, counted from 0.                                            *)
(***************************************************************************)
EXTENDS Naturals, SequencesExt

CONSTANTS
    Branches, Portable,     \* those that are there, and those whose name is a file's
    Folded, FileOf,         \* their names without case, and the file the volume opens
    Noted,                  \* that of them which may have a note at first
    Texts, Outside,         \* what a note may hold at first, and what others write in it
    Typed, Heights,         \* what is typed, and how many rows are drawn
    Windows,                \* of {"notes", "full", "bytes", "selection"}
    MaxKeys                 \* bound: keys, of those that are counted

VARIABLES
    disk,       \* what is in each file, and under the name of which branch
    marks,      \* the branches whose row says there is a note
    cursor,     \* the row
    vim,        \* note_vim
    editor,
    last,       \* history: the last key
    count,
    lost        \* history: the branches of which prose was lost

nvars == <<disk, marks, cursor, vim, editor, last, count, lost>>

NoFile == [text |-> <<>>, by |-> "none"]       \* no file
Unreadable == [text |-> <<<<"?">>>>, by |-> "none"]
Closed == [up |-> FALSE]

\* What is typed, and what the marker of an item is made of.
Character == Typed \cup {"-", ".", "[", "x", "]"}

Blank(line) == \A i \in DOMAIN line : line[i] = "."
IsBlank(text) == \A i \in DOMAIN text : Blank(text[i])

\* read: what cannot be read, or says nothing, is no note.
Readable(file) == file.text # Unreadable.text
Read(file) == IF ~ Readable(file) \/ IsBlank(file.text) THEN <<<<>>>> ELSE file.text
HasNote(file) == Readable(file) /\ ~ IsBlank(file.text)

\* NoteEditor::text: lines, the last of them ended, and none if all are blank.
Trimmed(text) == SubSeq(text, 1, Max({0} \cup {i \in DOMAIN text : text[i] # <<>>}))
Saved(text) == IF IsBlank(text) THEN <<>> ELSE Append(Trimmed(text), <<>>)

\* What a reader sees of a text.
Prose(text) == IF IsBlank(text) THEN <<>> ELSE Trimmed(text)

-----------------------------------------------------------------------------
\* A line of a list: its indent, its marker, and how wide they are together.
Indent(line) ==
    LET some == {i \in DOMAIN line : line[i] # "."} IN
    IF some = {} THEN Len(line) ELSE (CHOOSE i \in some : \A j \in some : i <= j) - 1

Mark(rest, mark) ==
    IF rest = mark THEN Len(mark)
    ELSE IF Len(rest) > Len(mark) /\ SubSeq(rest, 1, Len(mark) + 1) = Append(mark, ".")
    THEN Len(mark) + 1 ELSE 0

Kinds == {"bullet", "unchecked", "checked"}
MarkOf(kind) ==
    CASE kind = "bullet" -> <<"-">>
      [] kind = "unchecked" -> <<"-", ".", "[", ".", "]">>
      [] kind = "checked" -> <<"-", ".", "[", "x", "]">>

\* ListLine::parse; what starts like a box and is none is prose.
ListLine(line) ==
    LET at == Indent(line)
        rest == SubSeq(line, at + 1, Len(line))
        box == Len(rest) > 2 /\ SubSeq(rest, 1, 3) = <<"-", ".", "[">>
        kinds == {k \in Kinds : Mark(rest, MarkOf(k)) > 0 /\ (k = "bullet" => ~ box)}
    IN  IF kinds = {} THEN [kind |-> "prose", indent |-> at, width |-> at]
        ELSE LET k == CHOOSE k \in kinds : TRUE
             IN  [kind |-> k, indent |-> at, width |-> at + Mark(rest, MarkOf(k))]

Continued(line) ==
    LET l == ListLine(line) IN
    IF l.kind = "prose" THEN <<>>
    ELSE SubSeq(line, 1, l.indent) \o Append(MarkOf(IF l.kind = "bullet" THEN "bullet" ELSE "unchecked"), ".")

-----------------------------------------------------------------------------
\* An editor `e`: its text, the caret and the mode.
Editor == [up : {TRUE}, branch : Branches, text : Seq(Seq(Character)), line : Nat, col : Nat,
           scroll : Nat, viewport : Nat, dirty : BOOLEAN, normal : BOOLEAN,
           pending : {"none", "g", "d"},
           seen : Seq(Seq(Character))]         \* history: the prose that was read

Here(e) == e.text[e.line]
Width(e) == Len(Here(e))
At(e, line, col) == [e EXCEPT !.line = line, !.col = col]
Col(e, col) == [e EXCEPT !.col = col]
Least(a, b) == IF a <= b THEN a ELSE b

\* clamp_normal: on a character, if there is one.
Before(n) == IF n = 0 THEN 0 ELSE n - 1
ClampNormal(e) == Col(e, Least(e.col, Before(Width(e))))
EnterNormal(e) == ClampNormal([e EXCEPT !.normal = TRUE, !.pending = "none"])

Opened(branch, text, normal) ==
    LET e == [up |-> TRUE, branch |-> branch, text |-> text, line |-> Len(text),
              col |-> Len(Last(text)), scroll |-> 0, viewport |-> 10, dirty |-> FALSE,
              normal |-> FALSE, pending |-> "none", seen |-> Prose(text)]
    IN  IF normal THEN EnterNormal(e) ELSE e

\* The line with `n` characters from `at` on replaced.
Cut(line, at, n, by) == SubSeq(line, 1, at) \o by \o SubSeq(line, at + n + 1, Len(line))

\* Slip in Wrote: a change is forgotten on a text of one line.
WroteSome(e, text) == [e EXCEPT !.text = text, !.dirty = @ \/ Len(text) > 1]

Wrote(e, text) == [e EXCEPT !.text = text, !.dirty = TRUE]
WroteHere(e, line) == Wrote(e, [e.text EXCEPT ![e.line] = line])

Inserted(e, c) == Col(WroteHere(e, Cut(Here(e), e.col, 0, <<c>>)), e.col + 1)

\* Enter: an item without a text ends the list, any other line is split.
Newline(e) ==
    LET l == ListLine(Here(e))
        prefix == Continued(Here(e))
        tail == SubSeq(Here(e), e.col + 1, Width(e))
    IN  IF l.kind # "prose" /\ Blank(SubSeq(Here(e), l.width + 1, Width(e)))
        THEN Col(WroteHere(e, <<>>), 0)
        ELSE At(Wrote(e, InsertAt([e.text EXCEPT ![e.line] = SubSeq(@, 1, e.col)],
                                  e.line + 1, prefix \o tail)), e.line + 1, Len(prefix))

Joined(e, line) ==
    Wrote(e, [i \in 1 .. Len(e.text) - 1 |->
                IF i < line THEN e.text[i]
                ELSE IF i = line THEN e.text[i] \o e.text[i + 1] ELSE e.text[i + 1]])

Backspaced(e) ==
    IF e.col > 0 THEN Col(WroteHere(e, Cut(Here(e), e.col - 1, 1, <<>>)), e.col - 1)
    ELSE IF e.line > 1 THEN At(Joined(e, e.line - 1), e.line - 1, Len(e.text[e.line - 1]))
    ELSE e

DeleteUnder(e) == IF e.col < Width(e) THEN WroteHere(e, Cut(Here(e), e.col, 1, <<>>)) ELSE e

Deleted(e) ==
    IF e.col < Width(e) THEN DeleteUnder(e)
    ELSE IF e.line < Len(e.text) THEN Joined(e, e.line) ELSE e

\* rewrite_marker: the caret stays on its character, or goes to the text of the item.
Remarked(e, from, to, marker) ==
    LET new == from + Len(marker) IN
    Col(WroteHere(e, Cut(Here(e), from, to - from, marker)),
        IF new = to THEN e.col ELSE IF e.col >= to THEN e.col - to + new ELSE new)

ToggleBullet(e) ==
    LET l == ListLine(Here(e)) IN
    Remarked(e, l.indent, l.width, IF l.kind = "prose" THEN <<"-", ".">> ELSE <<>>)

ToggleCheckbox(e) ==
    LET l == ListLine(Here(e)) IN
    Remarked(e, l.indent, l.width,
             Append(MarkOf(IF l.kind = "unchecked" THEN "checked" ELSE "unchecked"), "."))

-----------------------------------------------------------------------------
\* Movement.
OntoLine(e, line) == At(e, line, Least(e.col, Len(e.text[line])))
Up(e) == IF e.line > 1 THEN OntoLine(e, e.line - 1) ELSE e
Down(e) == IF e.line < Len(e.text) THEN OntoLine(e, e.line + 1) ELSE e
Left(e) ==
    IF e.col > 0 THEN Col(e, e.col - 1)
    ELSE IF e.line > 1 THEN At(e, e.line - 1, Len(e.text[e.line - 1])) ELSE e
Right(e) ==
    IF e.col < Width(e) THEN Col(e, e.col + 1)
    ELSE IF e.line < Len(e.text) THEN At(e, e.line + 1, 0) ELSE e
PageUp(e) == OntoLine(e, IF e.line > e.viewport THEN e.line - e.viewport ELSE 1)
PageDown(e) == OntoLine(e, Least(e.line + e.viewport, Len(e.text)))
Home(e) == Col(e, 0)
End(e) == Col(e, Width(e))

\* Word motions: where the next word starts or ends, or the last one did; a line of
\* nothing is a word to the motions that go to a start.
Class(c, big) == IF c = "." THEN "blank" ELSE IF big \/ c \in {"a", "x"} THEN "word" ELSE "other"

Places(e) == UNION {{<<l, i - 1>> : i \in DOMAIN e.text[l]} : l \in DOMAIN e.text}
After(p, q) == p[1] > q[1] \/ (p[1] = q[1] /\ p[2] > q[2])
ClassAt(e, p, big) == Class(e.text[p[1]][p[2] + 1], big)

WordStarts(e, big) ==
    {<<l, 0>> : l \in {l \in DOMAIN e.text : e.text[l] = <<>>}} \cup
    {p \in Places(e) : /\ ClassAt(e, p, big) # "blank"
                       /\ p[2] > 0 => ClassAt(e, <<p[1], p[2] - 1>>, big) # ClassAt(e, p, big)}

WordEnds(e, big) ==
    {p \in Places(e) : /\ ClassAt(e, p, big) # "blank"
                       /\ p[2] + 1 < Len(e.text[p[1]]) =>
                            ClassAt(e, <<p[1], p[2] + 1>>, big) # ClassAt(e, p, big)}

Onto(e, places, default) ==
    LET ahead == {p \in places : After(p, <<e.line, e.col>>)}
        next == CHOOSE p \in ahead : \A q \in ahead \ {p} : After(q, p)
    IN  IF ahead = {} THEN At(e, default[1], default[2]) ELSE At(e, next[1], next[2])

LastPlace(e) == <<Len(e.text), Before(Len(Last(e.text)))>>
WordForward(e, big) == Onto(e, WordStarts(e, big), LastPlace(e))
WordEnd(e, big) == Onto(e, WordEnds(e, big), LastPlace(e))
WordBackward(e, big) ==
    LET behind == {p \in WordStarts(e, big) : After(<<e.line, e.col>>, p)}
        prior == CHOOSE p \in behind : \A q \in behind \ {p} : After(p, q)
    IN  IF behind = {} THEN At(e, 1, 0) ELSE At(e, prior[1], prior[2])

-----------------------------------------------------------------------------
\* normal_key
DeleteLine(e) ==
    IF Len(e.text) = 1
    THEN IF Here(e) = <<>> THEN Col(e, 0) ELSE Col(WroteHere(e, <<>>), 0)
    ELSE At(Wrote(e, RemoveAt(e.text, e.line)), Least(e.line, Len(e.text) - 1), 0)

Typing(e) == [e EXCEPT !.normal = FALSE]

OpenLine(e, at) ==
    LET prefix == Continued(Here(e)) IN
    Typing(At(Wrote(e, InsertAt(e.text, at, prefix)), at, Len(prefix)))

Verbs == {"h", "l", "j", "k", "0", "^", "$", "w", "W", "b", "B", "e", "E", "G", "g", "d", "x",
          "i", "I", "a", "A", "o", "O"}

Verb(e, v) ==
    CASE v = "h" -> Col(e, Before(e.col))
      [] v = "l" -> Col(e, Least(e.col + 1, Before(Width(e))))
      [] v = "j" -> Down(e)
      [] v = "k" -> Up(e)
      [] v = "0" -> Home(e)
      [] v = "^" -> Col(e, Indent(Here(e)))
      [] v = "$" -> End(e)
      [] v \in {"w", "W"} -> WordForward(e, v = "W")
      [] v \in {"b", "B"} -> WordBackward(e, v = "B")
      [] v \in {"e", "E"} -> WordEnd(e, v = "E")
      [] v = "G" -> At(e, Len(e.text), e.col)
      [] v \in {"g", "d"} -> [e EXCEPT !.pending = v]
      [] v = "x" -> DeleteUnder(e)
      [] v = "i" -> Typing(e)
      [] v = "I" -> Typing(Col(e, Indent(Here(e))))
      [] v = "a" -> Typing(Col(e, Least(e.col + 1, Width(e))))
      [] v = "A" -> Typing(End(e))
      [] v = "o" -> OpenLine(e, e.line + 1)
      [] v = "O" -> OpenLine(e, e.line)

NormalKey(e, v) ==
    LET rest == [e EXCEPT !.pending = "none"] IN
    IF e.pending = "g" /\ v = "g" THEN ClampNormal([rest EXCEPT !.line = 1])
    ELSE IF e.pending = "d" /\ v = "d" THEN DeleteLine(rest)
    ELSE IF e.pending # "none" THEN rest
    ELSE LET done == Verb(e, v) IN IF done.normal THEN ClampNormal(done) ELSE done

InsertKey(e, k) ==
    CASE k = "Enter" -> Newline(e)
      [] k = "Backspace" -> Backspaced(e)
      [] k = "Delete" -> Deleted(e)
      [] OTHER -> Inserted(e, k)

\* Keys that mean the same in both modes.
Shared == {"Left", "Right", "Up", "Down", "Home", "End", "PageUp", "PageDown", "bullet", "checkbox"}

Moved(e, k) ==
    CASE k = "Left" -> Left(e) [] k = "Right" -> Right(e)
      [] k = "Up" -> Up(e) [] k = "Down" -> Down(e)
      [] k = "Home" -> Home(e) [] k = "End" -> End(e)
      [] k = "PageUp" -> PageUp(e) [] k = "PageDown" -> PageDown(e)
      [] k = "bullet" -> ToggleBullet(e) [] k = "checkbox" -> ToggleCheckbox(e)

\* Slip in SharedKey: a half-typed verb waits.
SharedKeyWaits(e, k) == IF e.normal THEN ClampNormal(Moved(e, k)) ELSE Moved(e, k)

\* In normal mode any of them drops a half-typed verb, and the caret is put back.
SharedKey(e, k) ==
    IF e.normal THEN ClampNormal(Moved([e EXCEPT !.pending = "none"], k)) ELSE Moved(e, k)

EditKeys == {"Enter", "Backspace", "Delete"}
AsVerb(k) == CASE k = "Enter" -> "j" [] k = "Backspace" -> "h" [] k = "Delete" -> "x" [] OTHER -> k

Pressed(e, k) ==
    IF k \in Shared THEN SharedKey(e, k)
    ELSE IF e.normal THEN NormalKey(e, AsVerb(k)) ELSE InsertKey(e, k)

\* clamp_scroll, as the next frame is drawn.
Scrolled(e, height) ==
    [e EXCEPT !.viewport = height,
              !.scroll = IF e.line - 1 < @ THEN e.line - 1
                         ELSE IF e.line - 1 >= @ + height THEN e.line - height ELSE @]

-----------------------------------------------------------------------------
NoteInit ==
    /\ vim \in BOOLEAN /\ cursor \in Branches /\ lost = {}
    /\ \E text \in Texts :
        LET b == Noted
            file == IF text = <<>> THEN NoFile ELSE [text |-> text, by |-> b]
        IN  /\ disk = [f \in {FileOf[c] : c \in Branches} |-> IF f = FileOf[b] THEN file ELSE NoFile]
            /\ marks = IF HasNote(file) THEN {b} ELSE {}
            \* Closed, or open and moved about in.
            /\ \/ editor = Closed
               \/ \E l \in 1 .. Len(Read(file)), n \in {FALSE, vim}, h \in Heights :
                    \E c \in 0 .. Len(Read(file)[l]) :
                        /\ cursor = b
                        /\ editor = Scrolled(IF n THEN EnterNormal(At(Opened(b, Read(file), FALSE), l, c))
                                             ELSE At(Opened(b, Read(file), FALSE), l, c), h)
    /\ last = "N" /\ count = 0

NoteRest ==
    /\ disk = [f \in {FileOf[c] : c \in Branches} |-> NoFile]
    /\ marks = {} /\ cursor = (CHOOSE b \in Branches : TRUE) /\ vim = FALSE
    /\ editor = Closed /\ last = "N" /\ count = 0 /\ lost = {}

\* prepare: no live branch may share the file, nor may a note of another be in it.
Rival(b) == \E c \in Branches \ {b} : Folded[c] = Folded[b]
Aliased(b) == disk[FileOf[b]].by \notin {"none", b}
Prepared(b) == b \in Portable /\ ~ Rival(b) /\ ~ Aliased(b)

Key(k) == count < MaxKeys /\ count' = count + 1 /\ last' = k

OpenNote ==
    /\ ~ editor.up /\ Prepared(cursor)
    /\ Readable(disk[FileOf[cursor]]) \/ "bytes" \in Windows
    /\ \E h \in Heights :
        editor' = Scrolled(Opened(cursor, Read(disk[FileOf[cursor]]), vim), h)
    /\ Key("N")
    /\ UNCHANGED <<disk, marks, cursor, vim, lost>>

Press(k) ==
    /\ editor.up
    /\ k \in Shared \cup EditKeys \cup (IF editor.normal THEN Verbs ELSE Typed)
    /\ \E next \in {Pressed(editor, k)} : editor' = Scrolled(next, next.viewport)
    /\ Key(k)
    /\ UNCHANGED <<disk, marks, cursor, vim, lost>>

\* The terminal is resized.
Resize(height) ==
    /\ editor.up /\ height # editor.viewport
    /\ editor' = Scrolled(editor, height)
    /\ UNCHANGED <<disk, marks, cursor, vim, last, count, lost>>

\* flush_note: only what was changed, and nothing at all if it is blank.
Flushed(e) ==
    LET text == Saved(e.text) IN
    IF ~ e.dirty THEN disk
    ELSE [disk EXCEPT ![FileOf[e.branch]] =
            IF text = <<>> THEN NoFile
            ELSE [text |-> text, by |-> IF @.by = "none" THEN e.branch ELSE @.by]]

Writes(e) == {Flushed(e)} \cup (IF "full" \in Windows THEN {disk} ELSE {})

\* Prose goes if it is overwritten unseen, or dropped unwritten.
Losing(e, flushed) ==
    LET f == FileOf[e.branch] IN
    lost' = lost \cup IF /\ e.dirty => Prose(disk[f].text) = e.seen
                         /\ e.dirty => Prose(flushed[f].text) = Prose(e.text)
                      THEN {} ELSE {e.branch}

\* sync_selected_note_marker
Marked(now) == IF HasNote(now[FileOf[cursor]]) THEN marks \cup {cursor} ELSE marks \ {cursor}

\* Esc, once more in vim's terms.
Escape ==
    /\ editor.up
    /\ IF vim /\ ~ editor.normal
       THEN editor' = EnterNormal(editor) /\ Key("Esc") /\ UNCHANGED <<disk, marks, lost>>
       ELSE /\ disk' \in Writes(editor) /\ marks' = Marked(disk') /\ Losing(editor, disk')
            /\ editor' = Closed /\ last' = "Esc" /\ UNCHANGED count
    /\ UNCHANGED <<cursor, vim>>

\* Ctrl-e: what was typed is written first, and what $EDITOR left is read after.
OpenEditor(left) ==
    /\ editor.up
    /\ LET f == FileOf[editor.branch] IN
       \E flushed \in Writes(editor) :
        /\ Losing(editor, flushed)
        /\ disk' = [flushed EXCEPT ![f] = IF left = <<>> THEN @ ELSE [text |-> left, by |-> editor.branch]]
        /\ \E text \in {IF Readable(disk'[f]) /\ disk'[f].text # <<>> THEN disk'[f].text ELSE <<<<>>>>} :
            editor' = Scrolled(Opened(editor.branch, text, editor.normal), editor.viewport)
    /\ Key("Ctrl-e")
    /\ UNCHANGED <<marks, cursor, vim>>

\* The list is read anew; the cursor moves; another program writes a note.
Refresh ==
    /\ ~ editor.up
    /\ marks' = {b \in Branches : disk[FileOf[b]].by = b /\ HasNote(disk[FileOf[b]])}
    /\ UNCHANGED <<disk, cursor, vim, editor, last, count, lost>>

Select(b) ==
    /\ ~ editor.up \/ "selection" \in Windows
    /\ cursor # b /\ cursor' = b
    /\ UNCHANGED <<disk, marks, vim, editor, last, count, lost>>

WriteNote(b, text) ==
    /\ "notes" \in Windows /\ editor.up
    /\ disk' = [disk EXCEPT ![FileOf[b]] = [text |-> text, by |-> IF @.by = "none" THEN b ELSE @.by]]
    /\ disk' # disk
    /\ UNCHANGED <<marks, cursor, vim, editor, last, count, lost>>

NoteNext ==
    \/ OpenNote \/ Escape \/ Refresh
    \/ \E k \in Shared \cup EditKeys \cup Verbs \cup Typed : Press(k)
    \/ \E h \in Heights : Resize(h)
    \/ \E text \in Outside \cup {<<>>} : OpenEditor(text)
    \/ \E b \in Branches : Select(b) \/ \E text \in Outside : WriteNote(b, text)

NoteSpec == NoteInit /\ [][NoteNext]_nvars

-----------------------------------------------------------------------------
NoteTypeOK ==
    /\ editor = Closed \/ editor \in Editor
    /\ marks \subseteq Branches /\ cursor \in Branches /\ vim \in BOOLEAN

\* The caret is in the text, on a character in normal mode, and on the screen, whatever
\* the keys that brought it there (clamp_normal, clamp_scroll).
CaretIsInTheText ==
    editor.up =>
        /\ editor.text # <<>> /\ editor.line \in DOMAIN editor.text
        /\ editor.col <= IF editor.normal THEN Before(Width(editor)) ELSE Width(editor)
        /\ editor.line - 1 \in editor.scroll .. editor.scroll + editor.viewport - 1
        /\ editor.normal => vim
        /\ editor.pending # "none" => editor.normal /\ last = editor.pending

\* A note is edited under one name only, as long as there is one (prepare).
OneNameToAFile == editor.up => disk[FileOf[editor.branch]].by \in {"none", editor.branch}

\* The row of the branch that was edited says whether there is a note
\* (sync_selected_note_marker).
MarksAreTrue ==
    ~ editor.up /\ disk[FileOf[cursor]].by \in {"none", cursor}
        => (cursor \in marks <=> HasNote(disk[FileOf[cursor]]))

\* In normal mode prose goes with x, or with a line that was deleted by two strokes, one
\* after the other (handle_note_key).
Chars(text) ==
    Cardinality({p \in UNION {{<<l, i>> : i \in DOMAIN text[l]} : l \in DOMAIN text} :
                    text[p[1]][p[2]] # "."})
NothingGoesUnasked ==
    [][(editor.up /\ editor.normal /\ editor'.up
            /\ last' \notin {"Ctrl-e", "bullet", "checkbox"})
        => \/ Chars(editor'.text) >= Chars(editor.text)
           \/ last' \in {"x", "Delete"}
           \/ last' = "d" /\ last = "d"]_nvars

\* What is on the screen is on disk when the note is closed, and what is on disk is
\* replaced by those who have seen it; a note that was only read is not written
\* (flush_note, handle_note_key).
NoProseIsLost ==
    /\ lost = {}
    /\ (editor.up /\ ~ editor.dirty) => Prose(editor.text) = editor.seen

NoteHolds ==
    /\ [](NoteTypeOK /\ CaretIsInTheText /\ OneNameToAFile /\ MarksAreTrue /\ NoProseIsLost)
    /\ NothingGoesUnasked
=============================================================================
