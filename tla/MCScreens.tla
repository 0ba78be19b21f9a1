------------------------------- MODULE MCScreens -------------------------------
(* Small instances of the parts of Screens. *)
EXTENDS Screens

\* Two repositories of a main worktree and another, whose name a query matches.
MCRepoOf == [t \in Trees |-> IF t <= 2 THEN 1 ELSE 2]
MCLetters == [t \in Trees |-> IF t \in {2, 4} THEN 1 ELSE 0]

\* Three verbs of the list, of which one answers to a former name and one has a chord of
\* two strokes, and two of a modal's context.
MCSlots == <<"panel", "panel_old", "top", "next", "prev">>
MCVerbOf ==
    [s \in {"panel", "panel_old", "top", "next", "prev"} |-> IF s = "panel_old" THEN "panel" ELSE s]
Key(k) == [key |-> k, shift |-> FALSE]
MCDefaults ==
    "panel" :> {<<Key("Tab")>>} @@ "top" :> {<<Key("b"), Key("b")>>}
        @@ "next" :> {<<Key("A")>>} @@ "prev" :> {<<Key("Tab")>>}
MCEvents == {[key |-> "a", shift |-> TRUE], Key("b"), Key("+")}
MCReserved == {Key("b"), Key("+")}

\* No file, one that says something of two slots, and two in error.
Absent == [there |-> FALSE, text |-> "ok", keys |-> <<>>, field |-> 0]
MCHands ==
    {Absent,
     [Absent EXCEPT !.there = TRUE,
                    !.keys = "panel_old" :> {<<Key("A")>>} @@ "next" :> {<<Key("Tab")>>}],
     [Absent EXCEPT !.there = TRUE, !.text = "wrong"],
     [Absent EXCEPT !.there = TRUE, !.text = "garbled"]}

\* Claude's slug is the same for the first worktree and for a place that is none.
MCSlug == [p \in {"a", "b", "elsewhere"} |-> IF p = "b" THEN "sb" ELSE "sa"]
Ran(kind, cwd, born, age, sound) ==
    [kind |-> kind, cwd |-> cwd, born |-> born, last |-> age, sound |-> sound]
Claude(cwd, age) == Ran("claude", cwd, 0, age, TRUE)
Home(s, t, database) == [files |-> "s" :> s @@ "t" :> t, database |-> database]
World(h, xs, ys, a, b) ==
    [home |-> h, stored |-> "x" :> xs @@ "y" :> ys, heads |-> "a" :> a @@ "b" :> b]

\* A session of each program, old and new, under pins by hand and on every kind of head.
MCWorlds ==
    {World(Home(Claude("a", 0), Claude("elsewhere", 1), TRUE), {}, {}, "x", "absent"),
     World(Home(Claude("b", 2), Claude("elsewhere", 0), FALSE), {"s"}, {}, "absent", "y"),
     World(Home(Ran("opencode", "a", 0, 0, FALSE), Ran("codex", "b", 2, 1, TRUE), FALSE),
           {}, {"bare"}, "x", "y"),
     World(Home(Ran("vibe", "a", 0, 0, TRUE), Ran("codex", "elsewhere", 3, 0, TRUE), TRUE),
           {"bare"}, {"t"}, "x", "detached")}
MCTouched == {Home(Claude("a", 0), [kind |-> "none"], TRUE)}

\* Patterns: the usual ones, a type that is frozen, one segment twice, and none but the
\* issue; with "base", a base that moves with a segment the branch froze.
Pattern(b, p, base) == [branch |-> b, path |-> p, base |-> base]
MCConfigs ==
    {Pattern(<<"type", "/", "issue", "-", "desc">>, <<"type", "-", "issue", "-", "desc">>, <<"repo">>),
     Pattern(<<"a", "/", "issue", "-", "desc">>, <<"type", "-", "desc">>, <<"repo">>),
     Pattern(<<"desc">>, <<"desc">>, <<"type">>),
     Pattern(<<"issue", "/", "a">>, <<"repo">>, <<"repo">>)}
    \cup IF "base" \notin Windows THEN {}
         ELSE {Pattern(<<"a", "/", "issue", "-", "desc">>, <<"issue", "-", "desc">>, <<"repo", "/", "type">>)}
MCOthers == {Pattern(<<"desc", "/", "type">>, <<"desc">>, <<"repo">>)}
Tokens == {"type", "issue", "desc", "repo", "-", "/", "a", "0"}
MCProbes == UNION {[1 .. n -> Tokens] : n \in 1 .. 4} \cup {<<"type", "/", "issue", "-", "desc">>}
MCSpecs ==
    {[type |-> t, issue |-> i, desc |-> d] :
        t \in {<<"a">>, <<"b">>}, i \in {<<"0">>, <<"1", "0">>},
        d \in {<<"a">>, <<"0">>, <<"a", "-", "0">>, <<"0", "-", "a">>}}
MCFree == {<<"a">>, <<"b", "/", "a">>, <<"a", "/", "1", "-", "b">>, <<"a", "/", "1", "-", "b", "-">>}
MCTitles == <<"1">> :> [type |-> 2, title |-> <<"a", "_", "b">>] @@ <<"1", "0">> :> [type |-> 0, title |-> <<"_">>]
MCTypes == <<<<"a">>, <<"b">>>>
MCRepo == <<"b", "0">>

\* The usual keys, or a chord of two other letters for a move and none for the layout of the side.
Rebound(of, verb, keys) == [of |-> of, verb |-> verb, keys |-> keys]
Chorded(action, chords) == [of |-> "list", verb |-> action, chords |-> chords]
MCGiven == {<<>>, <<Chorded("top", <<<<"z", "z">>, <<"g">>>>), Chorded("cycle_sidebar_layout", <<>>)>>}

\* Each verb that the screen names and some that it does not, on each kind of key; with a
\* window, what the screen then says of a key is not so.
Named ==
    {<<"create", {"submit", "cancel", "next_field", "toggle_mode", "prev_type"}>>,
     <<"confirm", {"confirm", "activate", "cancel", "cycle_method", "toggle_focus"}>>,
     <<"open_menu", {"issue", "pr", "close", "toggle"}>>,
     <<"choose_target", {"prev", "next", "issue", "pr", "accept", "cancel"}>>,
     <<"input_number", {"submit", "cancel"}>>, <<"palette", {"accept", "close", "prev"}>>,
     <<"report", {"close"}>>, <<"help", {"close", "scroll_up"}>>,
     <<"detail", {"attach", "detach", "attach_by_id", "open_pane", "close"}>>,
     <<"ci_checks", {"open", "filter", "refresh", "close"}>>,
     <<"rich_view", {"merge", "next_tab", "open", "refresh", "close", "top"}>>,
     <<"note", {"toggle_bullet", "toggle_checkbox", "open_editor", "close"}>>,
     <<"exec", {"accept", "cancel"}>>, <<"clean", {"confirm", "cancel"}>>,
     <<"config", {"activate", "next_tab", "toggle_layer", "close"}>>,
     <<"config_edit", {"submit", "cancel"}>>, <<"command_logs", {"copy", "close"}>>,
     <<"working_tree", {"close"}>>, <<"commits", {"load_more", "close"}>>}
Tried == {"a", "y", "G", "1", "_", "Enter", "Esc", "Tab", "Backspace", "Up", "Ctrl+x"}
Crossed == {Rebound("config_edit", "submit", <<"Esc">>), Rebound("config_edit", "cancel", <<"Enter">>)}
MCTrials ==
    (UNION {{Rebound(n[1], v, <<k>>) : v \in n[2], k \in Tried} : n \in Named}
        \ (IF "capture" \in Windows THEN {} ELSE Crossed))
    \cup {Chorded(a, <<<<k>>>>) : a \in {"fetch_github", "delete_branch", "create"},
                                          k \in IF "esc" \in Windows THEN Tried ELSE Tried \ {"Esc", "Enter"}}
    \cup (IF "chords" \in Windows THEN {Chorded("fetch_github", <<<<"g", "f">>>>)} ELSE {})
    \cup (IF "toggles" \in Windows
          THEN {Chorded("command_logs", <<<<"y">>>>), Chorded("working_tree", <<<<"Esc", "x">>>>),
                Rebound("config", "toggle_layer", <<"4">>)} ELSE {})
=============================================================================
