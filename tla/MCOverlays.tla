------------------------------- MODULE MCOverlays -------------------------------
(* Small instances of the parts of Overlays. *)
EXTENDS Overlays

\* Names that differ in case alone, on a volume that folds case and on one that does not,
\* and one that no file may have.
MCFolded == [b \in Branches |-> IF b \in {"m", "M"} THEN "m" ELSE b]
MCFileOf == [b \in Branches |-> IF b \in {"m", "M"} THEN "m" ELSE IF b \in {"e", "E"} THEN "e" ELSE b]

\* A bullet, a checkbox, a marker that is indented, prose, and a blank note.
MCTexts ==
    {<<>>,
     <<<<"-", ".", "a">>, <<>>>>,
     <<<<"-", ".", "[", ".", "]", ".", "a", "-", "a">>, <<>>>>,
     <<<<".", "-", ".", "[", "x", "]">>>>,
     <<<<"a", "a", ".", "-", "a">>, <<>>, <<".", "a">>>>,
     <<<<".">>, <<>>>>}
    \cup IF "bytes" \in Windows THEN {<<<<"?">>>>} ELSE {}
MCOutside == {<<<<"x">>, <<>>>>}

\* Each multiplexer, with a kind of pane that it has and one that it has not, and none.
MCSettings ==
    {<<{}, "right">>, <<{"tmux"}, "left">>, <<{"tmux", "herdr"}, "workspace">>,
     <<{"zellij"}, "tab">>, <<{"zellij"}, "right">>,
     <<{"herdr"}, "right">>, <<{"herdr"}, "left">>, <<{"herdr"}, "workspace">>}

\* A merge and what it merged; files of each status, a binary one among them.
MCParents == <<<<2, 3>>, <<3>>, <<>>>>
File(status, binary) ==
    [status |-> status, binary |-> binary, ins |-> 2, del |-> 1,
     path |-> IF "names" \in Windows /\ status = "A" THEN "hex" ELSE "plain"]
MCDiff ==
    <<<<File("A", FALSE), File("M", FALSE)>>, <<File("R", FALSE), File("D", FALSE)>>,
      <<File("C", TRUE)>>>>
=============================================================================
