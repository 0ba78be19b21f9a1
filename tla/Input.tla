-------------------------------- MODULE Input --------------------------------
(***************************************************************************)
(* What a key or a click does (run_app and handle_mouse_event in           *)
(* src/src/tui/mod.rs): the bindings of the list and those of each modal   *)
(* (src/src/tui/keymap.rs, src/src/tui/modal_keymap.rs), the handlers of   *)
(* each view and the fields that take text in it, the places a click finds *)
(* (src/src/tui/mouse.rs), and what the screen says of the keys (HintContext *)
(* in src/src/tui/ui.rs).  What runs behind a view is in the other modules. *)
(***************************************************************************)
EXTENDS Integers, SequencesExt

CONSTANTS
    Given,          \* what a user's configuration rebinds, from the first to the last
    Trials          \* rebindings of which only what the screen says is looked at

VARIABLES
    bound,          \* App.keymap and App.modal_keymap
    desk,           \* the view, with what its keys read
    trying          \* only what the screen says is looked at

inputVars == <<bound, desk, trying>>

-----------------------------------------------------------------------------
(* Strokes, and the bindings there are (Keymap::defaults,                  *)
(* define_modal_actions).                                                  *)

Lower == {"a", "b", "c", "d", "e", "f", "g", "h", "i", "j", "k", "l", "m", "n", "o", "p", "q", "r",
          "s", "t", "u", "v", "w", "x", "y", "z"}
Upper == {"A", "B", "C", "D", "E", "F", "G", "H", "I", "J", "K", "L", "M", "N", "O", "P", "Q", "R",
          "S", "T", "U", "V", "W", "X", "Y", "Z"}
Digit == {"1", "2", "3", "4"}
Signs == {"?", ":", "/", ".", "_", "Space"}
CtrlLetters == {"Ctrl+c", "Ctrl+e", "Ctrl+n", "Ctrl+t", "Ctrl+u", "Ctrl+x"}
Char == Lower \cup Upper \cup Digit \cup Signs
Special == {"Esc", "Enter", "Tab", "BackTab", "Backspace", "Up", "Down", "Left", "Right", "Home", "End"}

\* KeyStroke::from_event: a terminal sends a capital as itself or as a small letter with Shift.
Event(s) == {[stroke |-> s, small |-> FALSE]} \cup IF s \in Upper THEN {[stroke |-> s, small |-> TRUE]} ELSE {}
Keyboard == UNION {Event(s) : s \in Char \cup CtrlLetters \cup Special}

Scrolls ==
    [scroll_down |-> <<"Down", "j">>, scroll_up |-> <<"Up", "k">>, scroll_top |-> <<"Home", "g">>,
     scroll_bottom |-> <<"End", "G">>]
Sideways == [scroll_right |-> <<"Right", "l">>, scroll_left |-> <<"Left", "h">>]
Halves == [half_down |-> <<"D">>, half_up |-> <<"U">>]
Selects == [select_next |-> <<"Down", "j">>, select_prev |-> <<"Up", "k">>]
Cycles == [next |-> <<"j", "Down">>, prev |-> <<"k", "Up">>]
Picks == Cycles @@ [accept |-> <<"Enter">>, cancel |-> <<"Esc">>]
Leave == <<"Esc", "q">>

\* Both halves of the table of define_modal_actions.
FirstModals ==
    [create |-> [cancel |-> <<"Esc">>, next_field |-> <<"Tab">>, prev_field |-> <<"BackTab">>,
                 submit |-> <<"Enter">>, prev_type |-> <<"Up", "Left", "h">>,
                 next_type |-> <<"Down", "Right", "l">>, toggle_mode |-> <<"Ctrl+t">>],
     confirm |-> [confirm |-> <<"y">>, activate |-> <<"Enter">>, cancel |-> <<"n", "Esc">>,
                  focus_confirm |-> <<"Left", "h">>, focus_cancel |-> <<"Right", "l">>,
                  toggle_focus |-> <<"Tab">>, cycle_method |-> <<"m">>],
     help |-> Scrolls @@ Sideways @@ [close |-> <<"Esc", "q", "?">>],
     detail |-> Selects @@ [close |-> Leave, attach |-> <<"a">>, detach |-> <<"d">>,
                            attach_by_id |-> <<"i">>, open_pane |-> <<"o">>],
     command_logs |-> Scrolls @@ Sideways @@ [close |-> Leave, copy |-> <<"y">>],
     working_tree |-> Scrolls @@ Halves @@ [close |-> Leave],
     commits |-> Scrolls @@ Halves @@ [close |-> <<"Esc", "q", "c">>, load_more |-> <<"m">>],
     config |-> Scrolls @@ Sideways @@ Selects
                @@ [close |-> Leave, next_tab |-> <<"Tab">>, prev_tab |-> <<"BackTab">>,
                    toggle_layer |-> <<"L">>, activate |-> <<"Space", "Enter">>]]
SecondModals ==
    [config_edit |-> [submit |-> <<"Enter">>, cancel |-> <<"Esc">>],
     report |-> [close |-> <<"Esc", "q", "Enter">>],
     open_menu |-> [close |-> Leave, toggle |-> <<"j", "k", "Down", "Up">>, accept |-> <<"Enter">>,
                    issue |-> <<"i">>, pr |-> <<"p">>],
     palette |-> [close |-> <<"Esc">>, accept |-> <<"Enter">>, prev |-> <<"Up">>, next |-> <<"Down", "Tab">>],
     choose_target |-> Picks @@ [issue |-> <<"i">>, pr |-> <<"p">>],
     input_number |-> [submit |-> <<"Enter">>, cancel |-> <<"Esc">>],
     exec |-> Picks,
     clean |-> [confirm |-> <<"y", "Enter">>, cancel |-> <<"n", "Esc">>] @@ Cycles,
     ci_checks |-> Selects @@ [close |-> Leave, open |-> <<"Enter">>, filter |-> <<"/">>, refresh |-> <<"f">>],
     rich_view |-> Selects @@ Sideways @@ Halves
                   @@ [close |-> Leave, open |-> <<"Enter">>, refresh |-> <<"f">>, next_tab |-> <<"Tab">>,
                       yank_url |-> <<"y">>, yank_body |-> <<"Y">>, merge |-> <<"m">>,
                       top |-> <<"g", "Home">>, bottom |-> <<"G", "End">>, ci_checks |-> <<"c">>],
     note |-> [close |-> <<"Esc">>, open_editor |-> <<"Ctrl+e">>, toggle_bullet |-> <<"Ctrl+u">>,
               toggle_checkbox |-> <<"Ctrl+t">>]]

Chord(s) == <<<<s>>>>

\* The bindings of the list.
ListKeys ==
    [down |-> <<<<"j">>, <<"Down">>>>, up |-> <<<<"k">>, <<"Up">>>>, top |-> <<<<"g", "g">>>>,
     bottom |-> <<<<"G">>, <<"End">>>>, wt_scroll_down |-> Chord("J"), wt_scroll_up |-> Chord("K"),
     toggle_sidebar |-> Chord("V"), toggle_sidebar_mode |-> Chord("S"), cycle_sidebar_layout |-> Chord("z"),
     toggle_sidebar_position |-> Chord("v"), focus_swap |-> Chord("Tab"), toggle_mouse |-> Chord("M"),
     focus_worktrees |-> Chord("1"), focus_status |-> Chord("2"), command_logs |-> Chord("3"),
     config_panel |-> Chord("4"), working_tree |-> Chord("W"), commits |-> Chord("c"),
     ci_checks |-> Chord("C"), rich_view |-> Chord("I"), exec_overlay |-> Chord("x"),
     agent_sessions |-> Chord("a"), clean_overlay |-> Chord("X"), filter |-> Chord("/"),
     toggle_select |-> Chord("Space"), collapse_group |-> Chord("Left"), expand_group |-> Chord("Right"),
     refresh |-> Chord("f"), sync |-> Chord("s"), create |-> Chord("n"),
     create_from_issue |-> Chord("Ctrl+n"), delete |-> Chord("d"), bootstrap |-> Chord("b"),
     delete_branch |-> Chord("D"), pull |-> Chord("p"), push |-> Chord("P"), edit_worktree |-> Chord("e"),
     edit_note |-> Chord("N"), exit_to_worktree |-> Chord("E"), lazygit_pty |-> Chord("l"),
     lazygit_fullscreen |-> Chord("L"), review_fullscreen |-> Chord("R"), review_pty |-> Chord("r"),
     merge_pr |-> Chord("m"), yank_path |-> Chord("Y"), yank_branch_name |-> Chord("y"),
     yank_worktree_name |-> Chord("w"),
     terminal_pty |-> Chord("o"), terminal_fullscreen |-> Chord("O"), browse_links |-> Chord("B"),
     open_docs |-> Chord("."), link |-> Chord("i"), fetch_github |-> Chord("F"),
     mux_pane |-> Chord("t"), macro_one |-> Chord("h"), macro_two |-> Chord("H"), help |-> Chord("?"),
     quit |-> Chord("q"), command_palette |-> Chord(":")]

\* KeyContext::reserved_typing_stroke: what goes into the text before a binding is looked up.
GoesIntoText(ctx, s) ==
    CASE ctx = "palette" -> s \in {"Backspace", "_"} \cup Lower \cup Digit
      [] ctx = "input_number" -> s \in {"Backspace"} \cup Digit
      [] ctx = "config_edit" -> s \in {"Backspace"} \cup Char
      [] ctx = "note" -> s \in {"Backspace", "Enter"} \cup Char
      [] OTHER -> FALSE

\* ModalAction::reserved_typing_stroke
NotBindable(ctx, verb, s) ==
    \/ GoesIntoText(ctx, s)
    \/ /\ ctx = "create" /\ verb \in {"submit", "cancel", "next_field", "prev_field", "toggle_mode"}
       /\ s \in {"Backspace"} \cup Char

Bare == [modal |-> FirstModals @@ SecondModals, list |-> ListKeys, own |-> {}]

\* Slip in ModalBound: no default gives way.
BoundBeside(b, ctx, verb, keys) ==
    [b EXCEPT !.modal[ctx][verb] = keys, !.own = @ \cup {<<ctx, verb>>}]

\* ModalKeymap::apply_override: a default gives way, another of the user's own does not.
ModalRefused(b, ctx, verb, keys) ==
    \E s \in ToSet(keys) :
        \/ NotBindable(ctx, verb, s)
        \/ \E v \in DOMAIN b.modal[ctx] \ {verb} : <<ctx, v>> \in b.own /\ s \in ToSet(b.modal[ctx][v])
ModalBound(b, ctx, verb, keys) ==
    LET kept(v) == IF <<ctx, v>> \in b.own THEN b.modal[ctx][v]
                   ELSE SelectSeq(b.modal[ctx][v], LAMBDA s : s \notin ToSet(keys))
    IN  [b EXCEPT !.modal[ctx] = [v \in DOMAIN @ |-> IF v = verb THEN keys ELSE kept(v)],
                  !.own = @ \cup {<<ctx, verb>>}]

\* Keymap::apply_override, and validate: no chord twice, none that another begins with.
ListBound(b, action, chords) ==
    LET kept(a) == IF <<"list", a>> \in b.own THEN b.list[a]
                   ELSE SelectSeq(b.list[a], LAMBDA c : c \notin ToSet(chords))
    IN  [b EXCEPT !.list = [a \in DOMAIN @ |-> IF a = action THEN chords ELSE kept(a)],
                  !.own = @ \cup {<<"list", action>>}]
Clash(b) ==
    LET all == UNION {{<<a, c>> : c \in ToSet(b.list[a])} : a \in DOMAIN b.list}
    IN  \E x, y \in all : x # y /\ (x[2] = y[2] \/ IsStrictPrefix(x[2], y[2]))

\* What a configuration binds, if it loads.
Bind(b, r) ==
    IF b = <<>> THEN b
    ELSE IF r.of = "list" THEN IF Clash(ListBound(b[1], r.verb, r.chords)) THEN <<>>
                               ELSE <<ListBound(b[1], r.verb, r.chords)>>
    ELSE IF ModalRefused(b[1], r.of, r.verb, r.keys) THEN <<>>
         ELSE <<ModalBound(b[1], r.of, r.verb, r.keys)>>
Loaded(rebindings) == FoldLeft(Bind, <<Bare>>, rebindings)

-----------------------------------------------------------------------------
(* What a key means where the user is.                                     *)

Is(what, name) == [is |-> what, of |-> name]
Nothing == Is("nothing", "")
Text(s) == Is("text", s)
Partway(chord) == [is |-> "begun", chord |-> chord]

\* resolve_modal
Verb(b, ctx, s) ==
    LET hits == {v \in DOMAIN b.modal[ctx] : s \in ToSet(b.modal[ctx][v])}
    IN  IF hits = {} THEN Nothing ELSE Is("verb", CHOOSE v \in hits : TRUE)

\* Keymap::lookup, of a chord that is complete or begun.
Lookup(b, chord) ==
    LET Hits(a) == chord \in ToSet(b.list[a])
        Begun(a) == \E c \in ToSet(b.list[a]) : IsStrictPrefix(chord, c)
    IN  IF \E a \in DOMAIN b.list : Hits(a) THEN Is("action", CHOOSE a \in DOMAIN b.list : Hits(a))
        ELSE IF \E a \in DOMAIN b.list : Begun(a) THEN Partway(chord) ELSE Nothing

\* dispatch_key: what breaks a chord is a key of its own.
Dispatched(b, pending, s) ==
    IF Lookup(b, Append(pending, s)) # Nothing THEN Lookup(b, Append(pending, s)) ELSE Lookup(b, <<s>>)

\* key_matches_action
OrAction(b, m, s, action) ==
    IF m # Nothing THEN m ELSE IF Lookup(b, <<s>>) = Is("action", action) THEN Is("action", action) ELSE Nothing

\* modal_toggle_stroke: the chord of the action that opened the view is looked at first.
Toggled(b, pending, s, action) ==
    LET Of(chord) == IF chord \in ToSet(b.list[action]) THEN Is("verb", "close")
                     ELSE IF \E c \in ToSet(b.list[action]) : IsStrictPrefix(chord, c) THEN Partway(chord)
                     ELSE Nothing
    IN  IF Of(Append(pending, s)) # Nothing THEN Of(Append(pending, s)) ELSE Of(<<s>>)
ToggledOrVerb(b, pending, s, action, ctx) ==
    IF Toggled(b, pending, s, action) # Nothing THEN Toggled(b, pending, s, action) ELSE Verb(b, ctx, s)

\* The list, and its filter.
ListKey(b, d, s) ==
    IF s \in {"Esc", "Enter"} THEN Is("fixed", s) ELSE Dispatched(b, d.pending, s)
FilterKey(s) ==
    IF s \in {"Esc", "Enter"} THEN Is("fixed", s)
    ELSE IF s \in {"Backspace"} \cup Char \cup CtrlLetters THEN Text(s) ELSE Nothing

\* A form takes no key while it is being sent, the confirmation while either of its mutations is.
Held(d) == d.at \in d.busy \/ (d.at = "confirm" /\ d.busy \cap {"delete", "merge"} # {})

\* handle_create_key
FormKey(b, d, s) ==
    LET onType == d.field = "type"
        typed == ~ onType /\ (s = "Backspace" \/ (s \in Char /\ (d.field # "issue" \/ s \in Digit)))
        verb == Verb(b, "create", s)
        unclaimed == verb = Nothing \/ (verb.of \in {"prev_type", "next_type"} /\ ~ onType)
    IN  IF Held(d) THEN Nothing
        ELSE IF typed THEN Text(s)
        ELSE IF ~ unclaimed THEN verb
        ELSE IF ~ onType /\ s \in Char \cup CtrlLetters /\ d.field # "issue" THEN Text(s) ELSE Nothing

\* handle_note_key: normal mode takes every letter, and what insert mode types.
NoteKey(b, d, s) ==
    IF d.at = "normal" /\ s \in {"Backspace", "Enter"} \cup Char THEN Is("vim", s)
    ELSE IF GoesIntoText("note", s) THEN Text(s) ELSE Verb(b, "note", s)

\* handle_link_prompt_key, at the number
NumberKey(b, s) == IF GoesIntoText("input_number", s) THEN Text(s)
                   ELSE OrAction(b, Verb(b, "input_number", s), s, "fetch_github")

\* handle_settings_edit_key
SettingKey(b, s) ==
    LET verb == Verb(b, "config_edit", s)
    IN  IF GoesIntoText("config_edit", s) \/ (verb = Nothing /\ s \in CtrlLetters) THEN Text(s) ELSE verb

\* handle_capture_key: Esc, Enter and Backspace are never bound.
CaptureKey(b, d, s) ==
    LET verb == Verb(b, "config_edit", s)
    IN  IF s = "Esc" \/ verb = Is("verb", "cancel") THEN Is("verb", "cancel")
        ELSE IF s = "Enter" \/ verb = Is("verb", "submit")
             THEN IF d.single THEN Nothing ELSE Is("verb", "submit")
        ELSE IF s = "Backspace" THEN IF d.single THEN Nothing ELSE Text(s)
        ELSE IF d.single THEN Is("captured", s) ELSE Text(s)

\* palette_input_key, and palette_unresolved_fallback for a small letter with Shift.
PaletteKey(b, e) ==
    IF GoesIntoText("palette", e.stroke) THEN Text(e.stroke)
    ELSE IF Verb(b, "palette", e.stroke) # Nothing THEN Verb(b, "palette", e.stroke)
    ELSE IF e.small THEN Text(e.stroke) ELSE Nothing

\* The prompts over the detail overlay.
PromptKey(s) ==
    IF s \in {"Esc", "Enter"} THEN Is("fixed", s)
    ELSE IF s \in {"Backspace"} \cup Char THEN Text(s) ELSE Nothing

\* The context of the views that only look a key up, and what is at work behind their keys.
ContextOf ==
    [help |-> "help", commits |-> "commits", report |-> "report", exec |-> "exec", clean |-> "clean",
     agents |-> "detail", checks |-> "ci_checks", rich |-> "rich_view"]

\* run_app: the key of an event, in the view that is up.
Meaning(b, d, e) ==
    LET s == e.stroke IN
    IF s = "Ctrl+c" THEN IF d.at = "pty" THEN Text(s) ELSE Is("action", "quit")
    ELSE IF d.quit THEN Nothing
    ELSE CASE d.at = "list" -> ListKey(b, d, s)
           [] d.at = "filter" -> FilterKey(s)
           [] d.at \in {"create", "edit"} -> FormKey(b, d, s)
           [] d.at = "confirm" -> IF Held(d) THEN Nothing
                                  ELSE OrAction(b, Verb(b, "confirm", s), s, "delete_branch")
           [] d.at = "open" -> OrAction(b, Verb(b, "open_menu", s), s, "fetch_github")
           [] d.at = "choose" -> OrAction(b, Verb(b, "choose_target", s), s, "fetch_github")
           [] d.at = "number" -> NumberKey(b, s)
           [] d.at = "logs" -> ToggledOrVerb(b, d.pending, s, "command_logs", "command_logs")
           [] d.at = "tree" -> ToggledOrVerb(b, d.pending, s, "working_tree", "working_tree")
           [] d.at = "settings" -> ToggledOrVerb(b, d.pending, s, "config_panel", "config")
           [] d.at = "setting" -> SettingKey(b, s)
           [] d.at = "capture" -> CaptureKey(b, d, s)
           [] d.at = "palette" -> PaletteKey(b, e)
           [] d.at \in {"agents prompt", "checks prompt"} -> PromptKey(s)
           [] d.at \in {"insert", "normal"} -> NoteKey(b, d, s)
           [] d.at = "pty" -> IF s = "Esc" \/ d.finished THEN Is("fixed", "Esc") ELSE Text(s)
           [] OTHER -> Verb(b, ContextOf[d.at], s)

-----------------------------------------------------------------------------
(* What it does to the view.                                               *)

\* A view that opens, as its enter_* or reset leaves it; the list is filtered or it is not.
Go(d, at) ==
    [d EXCEPT !.at = IF at = "list" /\ d.filtering THEN "filter" ELSE at, !.row = 1, !.aim = 0,
              !.mode = "structured", !.field = "issue", !.button = "cancel",
              !.single = FALSE, !.finished = FALSE, !.matched = TRUE]

\* restore_rich_view: a view that was opened from the rich view goes back to it.
Back(d) == IF d.rich THEN [Go(d, "rich") EXCEPT !.rich = FALSE] ELSE Go(d, "list")
Over(d, at) == [Go(d, at) EXCEPT !.rich = d.at = "rich"]

\* The actions that open a view; of these, some always do.
Opens ==
    [create |-> "create", create_from_issue |-> "create", delete |-> "confirm", edit_worktree |-> "edit",
     edit_note |-> "note", ci_checks |-> "checks", rich_view |-> "rich", merge_pr |-> "confirm",
     browse_links |-> "open", link |-> "choose", exec_overlay |-> "exec",
     clean_overlay |-> "clean", agent_sessions |-> "agents", command_palette |-> "palette",
     command_logs |-> "logs", config_panel |-> "settings", working_tree |-> "tree",
     commits |-> "commits", help |-> "help", filter |-> "filter", terminal_pty |-> "pty",
     lazygit_pty |-> "pty", review_pty |-> "pty"]
Opened(d, a) ==
    CASE a = "create_from_issue" -> [Go(d, "create") EXCEPT !.mode = "from issue"]
      [] a = "merge_pr" -> [Over(d, "confirm") EXCEPT !.kind = "merge"]
      [] a = "ci_checks" -> Over(d, "checks")
      [] a = "edit_note" -> Go(d, IF d.vim THEN "normal" ELSE "insert")
      [] a = "edit_worktree" -> [Go(d, "edit") EXCEPT !.field = "desc"]
      [] a = "filter" -> [Go(d, "filter") EXCEPT !.filtering = TRUE, !.pending = <<>>]
      [] OTHER -> Go(d, Opens[a])
Always ==
    {"create", "create_from_issue", "link", "command_palette", "command_logs", "config_panel",
     "working_tree", "commits", "help", "filter"}

\* Slip in NotInPicker: a picker runs every action.
NoneGated == {}

\* What run_action does not do in a picker.
NotInPicker ==
    {"create", "create_from_issue", "delete", "toggle_select", "bootstrap", "sync", "pull", "push",
     "edit_worktree", "edit_note", "ci_checks", "rich_view", "merge_pr", "mux_pane", "macro_one", "macro_two",
     "delete_branch", "browse_links", "link", "fetch_github", "review_fullscreen", "review_pty",
     "exec_overlay", "clean_overlay", "agent_sessions"}

\* One mutation at a time, and a merge.
Starts(d, kind) == IF d.busy \subseteq ({"merge"} \ {kind}) \/ (kind = "merge" /\ kind \notin d.busy)
                   THEN {[d EXCEPT !.busy = @ \cup {kind}]} ELSE {}

\* run_action
RunAction(d, a) ==
    IF d.picker /\ a \in NotInPicker THEN {d}
    ELSE IF a \in DOMAIN Opens
    THEN {Opened(d, a)} \cup (IF a = "edit_worktree"
                              THEN {[Go(d, "edit") EXCEPT !.mode = "freeform", !.field = "name"]} ELSE {})
                        \cup (IF a \in Always THEN {} ELSE {d})
    ELSE IF a \in {"sync", "pull", "push", "bootstrap"} THEN {d} \cup Starts(d, "sync")
    ELSE IF a = "quit" THEN {[d EXCEPT !.quit = TRUE]}
    ELSE IF a = "exit_to_worktree" THEN {d, [d EXCEPT !.quit = TRUE]}
    ELSE {d}

\* What leaves each view (close_verb); the prompts of the settings and of the detail
\* overlay have keys of their own.
CloseVerb ==
    [create |-> "cancel", edit |-> "cancel", confirm |-> "cancel", help |-> "close", logs |-> "close",
     tree |-> "close", commits |-> "close", settings |-> "close", setting |-> "close",
     capture |-> "close", report |-> "close", open |-> "close", palette |-> "close",
     choose |-> "cancel", number |-> "cancel", exec |-> "cancel", clean |-> "cancel", insert |-> "close",
     normal |-> "close", agents |-> "close", checks |-> "close", rich |-> "close"]
Closed(d) ==
    CASE d.at = "insert" /\ d.vim -> [d EXCEPT !.at = "normal"]
      [] d.at \in {"confirm", "checks", "agents", "rich"} ->
             Back(IF d.at = "confirm" THEN [d EXCEPT !.kind = "delete"] ELSE d)
      [] OTHER -> Go(d, "list")

\* The form: rotate, toggle_mode, and its submission from its last field, by the mode.
Fields == <<"type", "issue", "desc">>
Rotated(d, step) ==
    IF d.mode # "structured" THEN d
    ELSE LET at == CHOOSE i \in 1 .. 3 : Fields[i] = d.field
         IN  [d EXCEPT !.field = Fields[1 + ((at + 2 + step) % 3)]]
Submits(d) == d.field = ("structured" :> "desc" @@ "freeform" :> "name" @@ "from issue" :> "issue")[d.mode]
FormVerb(d, v) ==
    IF v = "next_field" THEN {Rotated(d, 1)}
    ELSE IF v = "prev_field" THEN {Rotated(d, -1)}
    ELSE IF v = "toggle_mode"
    THEN {IF d.mode = "structured" THEN [d EXCEPT !.mode = "freeform", !.field = "name"]
          ELSE IF d.mode = "freeform" THEN [d EXCEPT !.mode = "structured", !.field = "issue"] ELSE d}
    ELSE IF v # "submit" THEN {d}
    ELSE IF ~ Submits(d) THEN {Rotated(d, 1)}
    ELSE {d} \cup (IF d.mode # "from issue" THEN Starts(d, d.at) ELSE {})

\* confirm_fire, behind its countdown
Fires(d) == {d} \cup Starts(d, d.kind)
ConfirmVerb(d, v) ==
    IF v = "confirm" \/ (v = "activate" /\ d.button = "confirm") THEN Fires(d)
    ELSE IF v = "activate" THEN {Closed(d)}
    ELSE IF v = "focus_confirm" THEN {[d EXCEPT !.button = "confirm"]}
    ELSE IF v = "focus_cancel" THEN {[d EXCEPT !.button = "cancel"]}
    ELSE IF v = "toggle_focus"
    THEN {[d EXCEPT !.button = IF @ = "confirm" THEN "cancel" ELSE "confirm"]}
    ELSE {d}

\* The rest of the verbs: where each leaves the user.
Other(d, kinds) == {[d EXCEPT !.at = at] : at \in kinds}
SettingsVerb(d, v) ==
    IF v \in {"next_tab", "prev_tab"} THEN {[d EXCEPT !.tab = t, !.row = 1] : t \in {"fields", "keys", "all"}}
    ELSE IF v = "select_next" THEN {d, [d EXCEPT !.row = 2]}
    ELSE IF v = "select_prev" THEN {d, [d EXCEPT !.row = 1]}
    ELSE IF v # "activate" \/ d.tab = "all" THEN {d}
    ELSE IF d.tab = "keys" THEN {[d EXCEPT !.at = "capture", !.single = one, !.aim = d.row] : one \in BOOLEAN}
    ELSE {d, [d EXCEPT !.at = "setting", !.aim = d.row]}

PaletteVerb(d, v) ==
    IF v = "accept" /\ d.matched THEN UNION {RunAction(Go(d, "list"), a) : a \in DOMAIN ListKeys} ELSE {d}

RichVerb(d, v) ==
    IF v = "merge" THEN {d, Opened(d, "merge_pr")}
    ELSE IF v = "ci_checks" THEN {d, Opened(d, "ci_checks")} ELSE {d}

VerbDoes(d, v) ==
    IF d.at \in {"setting", "capture"} THEN {[d EXCEPT !.at = "settings"]}
    ELSE IF v = CloseVerb[d.at] THEN {Closed(d)}
    ELSE CASE d.at \in {"create", "edit"} -> FormVerb(d, v)
           [] d.at = "confirm" -> ConfirmVerb(d, v)
           [] d.at = "settings" -> SettingsVerb(d, v)
           [] d.at = "palette" -> PaletteVerb(d, v)
           [] d.at = "rich" -> RichVerb(d, v)
           [] d.at = "open" -> IF v = "toggle" THEN {d} ELSE {Go(d, "list")}
           [] d.at = "choose" -> IF v \in {"next", "prev"} THEN {d} ELSE Other(d, {"number"})
           [] d.at = "number" -> {d, Go(d, "list")}
           [] d.at = "exec" -> IF v = "accept" THEN {Go(d, "pty"), Go(d, "list")} ELSE {d}
           [] d.at = "clean" -> IF v = "confirm" THEN {d, Go(d, "list")} ELSE {d}
           [] d.at = "agents" -> IF v = "attach_by_id" THEN Other(d, {"agents prompt"}) ELSE {d}
           [] d.at = "checks" -> IF v = "filter" THEN Other(d, {"checks prompt"}) ELSE {d}
           [] OTHER -> {d}

\* The keys that are not bound: of the list, of its filter, of the prompts, of the terminal.
Leaves(d) == [d EXCEPT !.quit = TRUE]
Unfiltered(d) == Go([d EXCEPT !.filtering = FALSE, !.query = FALSE], "list")
FixedDoes(d, s) ==
    CASE d.at = "list" /\ s = "Esc" -> {IF d.query THEN Unfiltered(d) ELSE Leaves(d)}
      [] d.at = "list" -> IF d.picker THEN {d, Leaves(d)} ELSE {d}
      [] d.at = "filter" /\ s = "Esc" -> {IF d.picker THEN Leaves(d) ELSE Unfiltered(d)}
      [] d.at = "filter" -> {Go([d EXCEPT !.filtering = FALSE], "list")}
                            \cup (IF d.picker THEN {Leaves(d)} ELSE {})
      [] d.at = "pty" -> {Go(d, "list")}
      [] d.at = "agents prompt" -> {[d EXCEPT !.at = "agents"]} \cup (IF s = "Enter" THEN {d} ELSE {})
      [] d.at = "checks prompt" -> {[d EXCEPT !.at = "checks"]} \cup (IF s = "Enter" THEN {d} ELSE {})

TextDoes(d, s) ==
    CASE d.at = "filter" -> {[d EXCEPT !.query = q] : q \in IF s = "Backspace" THEN BOOLEAN ELSE {TRUE}}
      [] d.at = "palette" -> {[d EXCEPT !.matched = m] : m \in BOOLEAN}
      [] d.at = "normal" -> IF s \in {"i", "a", "o", "I", "A", "O"} THEN {d, [d EXCEPT !.at = "insert"]} ELSE {d}
      [] OTHER -> {d}

\* pending_chord: what is begun, until it is done or broken.
Chorded(d, m) ==
    IF d.at \notin {"list", "logs", "tree", "settings"} THEN d
    ELSE [d EXCEPT !.pending = IF m.is = "begun" THEN m.chord ELSE <<>>]

Does(desk0, m) ==
    LET d == Chorded(desk0, m) IN
    CASE m.is = "verb" -> VerbDoes(d, m.of)
      [] m.is = "action" -> IF d.at = "list" \/ m.of = "quit" THEN RunAction(d, m.of) ELSE {d}
      [] m.is = "fixed" -> FixedDoes(d, m.of)
      [] m.is \in {"text", "vim"} -> TextDoes(d, m.of)
      [] m.is = "captured" -> {[d EXCEPT !.at = "settings"]}
      [] OTHER -> {d}

Pressed(b, d, e) == Does(d, Meaning(b, d, e))

-----------------------------------------------------------------------------
(* What a click finds, and does.                                           *)

\* Slip in Busy: a form that is being sent is still pointed at.
NeverBusy(d) == FALSE

Zone(kind, what) == [kind |-> kind, what |-> what]
\* The view in which nothing can be clicked while its mutation is in flight.
Busy(d) == (IF d.at = "confirm" THEN d.kind ELSE d.at) \in d.busy

\* modal_is_typing
Typing(d) == d.at \in {"setting", "capture", "agents prompt", "checks prompt", "insert"}

\* What is clicked in a form, in the confirmation and in the settings; and what closes a view.
FormZones(d) == IF d.at \in {"create", "edit"} /\ d.mode = "structured" /\ ~ Busy(d)
                THEN {Zone("field", f) : f \in ToSet(Fields)} ELSE {}
ButtonZones(d) == IF d.at = "confirm" /\ ~ Busy(d)
                  THEN {Zone("button", what) : what \in {"confirm", "cancel"}} ELSE {}
SettingsZones(d) ==
    IF d.at \in {"settings", "setting", "capture"}
    THEN {Zone("tab", t) : t \in {"fields", "keys", "all"}}
         \cup {Zone("row", r) : r \in IF d.tab = "all" THEN {} ELSE {"1", "2"}} ELSE {}
CloseZone(d) == IF Typing(d) THEN {} ELSE {Zone("close", "")}

\* draw: of a modal only what is in it.
Zones(d) ==
    IF d.at \in {"list", "filter"}
    THEN {Zone("action", a) : a \in {"command_logs", "config_panel", "working_tree", "rich_view",
                                      "agent_sessions", "commits"}}
    ELSE IF d.at = "pty" THEN {}
    ELSE FormZones(d) \cup ButtonZones(d) \cup SettingsZones(d) \cup CloseZone(d)

\* The context of a view's verbs.
VerbContext ==
    [create |-> "create", edit |-> "create", confirm |-> "confirm", logs |-> "command_logs",
     tree |-> "working_tree", settings |-> "config", open |-> "open_menu", choose |-> "choose_target",
     number |-> "input_number", palette |-> "palette", insert |-> "note", normal |-> "note"] @@ ContextOf

\* handle_mouse_event: the stroke that a verb is bound to first, pressed.
AsKey(b, d, v) ==
    LET keys == b.modal[VerbContext[d.at]][v]
    IN  IF keys = <<>> THEN {d} ELSE Pressed(b, d, [stroke |-> keys[1], small |-> FALSE])

\* mouse_click, mouse_select; set_tab gives up an edit, and a row is not left for another.
Clicked(b, d, z) ==
    CASE z.kind = "action" -> RunAction(d, z.what)
      [] z.kind = "close" -> AsKey(b, d, CloseVerb[d.at])
      [] z.kind = "field" -> {[d EXCEPT !.field = z.what]}
      [] z.kind = "button" -> AsKey(b, [d EXCEPT !.button = z.what], "activate")
      [] z.kind = "tab" -> {IF z.what = d.tab THEN d
                            ELSE [d EXCEPT !.at = "settings", !.tab = z.what, !.row = 1]}
      [] z.kind = "row" -> {IF d.at # "settings" THEN d ELSE [d EXCEPT !.row = IF z.what = "1" THEN 1 ELSE 2]}


-----------------------------------------------------------------------------
(* What the screen says of the keys.                                       *)

\* The footers of the full-size views, that of the commits when there are more.
Footer(d) ==
    CASE d.at = "settings" -> {"next_tab", "toggle_layer", "close"}
                              \cup (IF d.tab = "all" THEN {} ELSE {"activate"})
      [] d.at = "setting" -> {"submit", "cancel"}
      [] d.at = "capture" -> {"cancel"} \cup (IF d.single THEN {} ELSE {"submit"})
      [] d.at = "logs" -> {"copy", "close"}
      [] d.at = "tree" -> {"close"}
      [] d.at = "commits" -> {"load_more", "close"}

\* HintContext::hint_specs: the verbs of a view.
Hints(d) ==
    CASE d.at \in {"create", "edit"} ->
             {"submit", "cancel"} \cup (IF d.mode = "from issue" THEN {} ELSE {"toggle_mode"})
             \cup (IF d.mode = "structured" THEN {"next_field"} ELSE {})
      [] d.at = "confirm" -> {"confirm", "activate", "cancel"}
                             \cup (IF d.kind = "merge" THEN {"cycle_method"} ELSE {})
      [] d.at = "open" -> {"issue", "pr", "close"}
      [] d.at = "choose" -> {"prev", "next", "issue", "pr", "accept", "cancel"}
      [] d.at = "number" -> {"submit", "cancel"}
      [] d.at \in {"palette", "exec"} -> {"accept", CloseVerb[d.at]}
      [] d.at \in {"report", "help"} -> {"close"}
      [] d.at = "agents" -> {"attach", "detach", "attach_by_id", "open_pane", "close"}
      [] d.at = "checks" -> {"open", "filter", "refresh", "close"}
      [] d.at = "rich" -> {"merge", "next_tab", "open", "refresh", "close"}
      [] d.at \in {"insert", "normal"} -> {"toggle_bullet", "toggle_checkbox", "open_editor", "close"}
      [] d.at = "clean" -> {"confirm", "cancel"}
      [] d.at \in {"settings", "setting", "capture", "logs", "tree", "commits"} -> Footer(d)
      [] OTHER -> {}

\* Those of the list, with the focus on the table or beside it, and of the list that others name.
TableHints ==
    {"create", "delete", "toggle_select", "bootstrap", "terminal_fullscreen", "lazygit_fullscreen",
     "commits", "ci_checks", "working_tree", "exec_overlay", "agent_sessions", "edit_note",
     "review_fullscreen", "yank_path", "filter", "focus_status", "command_logs", "config_panel", "help", "quit"}
BesideHints ==
    {"down", "wt_scroll_down", "working_tree", "fetch_github", "commits", "ci_checks",
     "toggle_sidebar_mode", "cycle_sidebar_layout", "focus_worktrees", "filter", "command_logs",
     "config_panel", "help", "quit"}
PickerHints == {"terminal_fullscreen", "lazygit_fullscreen", "yank_path", "filter", "help", "quit"}
ActionHints(d) ==
    CASE d.at = "list" -> IF d.picker THEN PickerHints ELSE TableHints \cup BesideHints
      [] d.at \in {"open", "choose", "number"} -> {"fetch_github"}
      [] d.at = "confirm" /\ d.kind = "delete" -> {"delete_branch"}
      [] OTHER -> {}

HintContext(d) == IF d.at \in {"setting", "capture"} THEN "config_edit" ELSE VerbContext[d.at]

\* Slip in Unreachable: every key of the list is named.
NeverUnreachable(b, d, chord) == FALSE

\* key_shadowed_by_modal, key_swallowed_by_typing
Unreachable(b, d, chord) ==
    /\ d.at # "list"
    /\ \/ \E v \in DOMAIN b.modal[HintContext(d)] : chord \in {<<s>> : s \in ToSet(b.modal[HintContext(d)][v])}
       \/ GoesIntoText(HintContext(d), chord[1])

\* HintContext::resolve_with_fields: the chord that is named first, and what it is said to do.
Says(b, d) ==
    {[chord |-> <<b.modal[HintContext(d)][v][1]>>, means |-> Is("verb", v)] :
        v \in {h \in Hints(d) : b.modal[HintContext(d)][h] # <<>>}}
    \cup {[chord |-> b.list[a][1], means |-> Is("action", a)] :
             a \in {h \in ActionHints(d) : b.list[h] # <<>> /\ ~ Unreachable(b, d, b.list[h][1])}}

\* The chord, typed stroke by stroke, in each way a terminal may send it.
Answers(b, d, chord, means) ==
    \A i \in 1 .. Len(chord) : \A e \in Event(chord[i]) :
        Meaning(b, [d EXCEPT !.pending = SubSeq(chord, 1, i - 1)], e)
            = IF i = Len(chord) THEN means ELSE Partway(SubSeq(chord, 1, i))

-----------------------------------------------------------------------------
\* What is at work behind the view lands: a mutation, or the issue that is looked up
\* (drain_task_results, apply_awaited_issue).
Done(d, kind) == [d EXCEPT !.busy = @ \ {kind}]
Landed(d, kind) ==
    {Done(d, kind)}
    \cup CASE kind = "create" -> {Go(Done(d, kind), "report"), [Done(d, kind) EXCEPT !.at = "create"]}
           [] kind = "sync" -> {Go(Done(d, kind), "report")}
           [] kind = "merge" -> {Back([Done(d, kind) EXCEPT !.kind = "delete"])}
           [] kind = "delete" -> {Go(Done(d, kind), "list"), [Done(d, kind) EXCEPT !.at = "confirm"]}
           [] OTHER -> {Go(Done(d, kind), "list")}

Desk ==
    [at |-> "list", pending |-> <<>>, picker |-> FALSE, vim |-> FALSE, quit |-> FALSE, busy |-> {},
     mode |-> "structured", field |-> "issue", kind |-> "delete", button |-> "cancel", rich |-> FALSE,
     tab |-> "fields", single |-> FALSE, finished |-> FALSE, query |-> FALSE, filtering |-> FALSE,
     matched |-> TRUE, row |-> 1, aim |-> 0]

\* The views in which what a rebinding is of can be seen.
Seen(of) ==
    {[Desk EXCEPT !.at = at, !.mode = mode, !.kind = kind, !.tab = tab] :
        at \in {x \in DOMAIN VerbContext \cup {"list", "setting", "capture"} :
                   of = IF x = "list" THEN "list" ELSE HintContext([Desk EXCEPT !.at = x])},
        mode \in {"structured"} \cup (IF of = "create" THEN {"freeform", "from issue"} ELSE {}),
        kind \in {"delete"} \cup (IF of = "confirm" THEN {"merge"} ELSE {}),
        tab \in {"fields"} \cup (IF of = "config" THEN {"keys", "all"} ELSE {})}

InputInit ==
    \/ /\ trying = FALSE
       /\ \E g \in Given : Loaded(g) # <<>> /\ bound = Loaded(g)[1]
       /\ \E picker, vim \in BOOLEAN : ~ (picker /\ vim) /\ desk = [Desk EXCEPT !.picker = picker, !.vim = vim]
    \/ /\ trying = TRUE
       /\ \E r \in Trials :
             /\ Loaded(<<r>>) # <<>> /\ bound = Loaded(<<r>>)[1]
             /\ desk \in IF r.of = "list" THEN Seen("list") \cup Seen("open_menu") \cup Seen("choose_target")
                                               \cup Seen("input_number") \cup Seen("confirm")
                         ELSE Seen(r.of)

InputRest == bound = "rest" /\ desk = "rest" /\ trying = FALSE

Press == \E d \in UNION {Pressed(bound, desk, e) : e \in Keyboard} : desk' = d
Click == \E d \in UNION {Clicked(bound, desk, z) : z \in Zones(desk)} : desk' = d
Land == \E kind \in desk.busy : desk' \in Landed(desk, kind)
LookedUp ==
    /\ desk.at = "create" /\ desk.mode = "from issue"
    /\ desk' = [desk EXCEPT !.mode = "structured", !.field = "issue"]
Ends ==
    /\ desk.at = "pty"
    /\ desk' \in {[desk EXCEPT !.finished = TRUE], Go(desk, "list")}

\* can_quit_now
Ended == desk.quit /\ desk.busy = {}

InputNext ==
    /\ ~ trying /\ ~ Ended /\ UNCHANGED <<bound, trying>>
    /\ Press \/ Click \/ Land \/ LookedUp \/ Ends

-----------------------------------------------------------------------------
(* Properties.                                                             *)

\* What the screen says a key does is what it does, whatever was rebound.
HintsWork ==
    (~ desk.quit /\ ~ Held(desk) /\ desk.pending = <<>>
        /\ desk.at \in DOMAIN VerbContext \cup {"list", "setting", "capture"})
    => \A h \in Says(bound, desk) : Answers(bound, desk, h.chord, h.means)

\* A report of a bootstrap has taken the place of a view that was opened from the rich
\* view, which nothing has come back to since.
Strayed(d) == d.at = "rich" /\ d.rich

\* The button that closes a view leaves it, and the Cancel button starts nothing.
ClicksWork ==
    ~ desk.quit /\ ~ Held(desk) =>
    \A z \in Zones(desk) :
        /\ (z.kind = "close" /\ bound.modal[VerbContext[desk.at]][CloseVerb[desk.at]] # <<>>)
           => Strayed(desk) \/ \A d \in Clicked(bound, desk, z) : d.at # desk.at
        /\ z = Zone("button", "cancel") => \A d \in Clicked(bound, desk, z) : d.busy = desk.busy

\* A form that is being sent is not changed under its worker.
FormsAreFrozen ==
    (IF desk.at = "confirm" THEN desk.kind ELSE desk.at) \in desk.busy =>
    \A d \in UNION {Pressed(bound, desk, e) : e \in Keyboard}
             \cup UNION {Clicked(bound, desk, z) : z \in Zones(desk)} :
        d = [desk EXCEPT !.quit = d.quit]

\* A picker changes nothing.
PickerPicks ==
    desk.picker =>
    /\ desk.busy = {}
    /\ desk.at \in {"list", "filter", "help", "logs", "tree", "commits", "settings", "setting", "capture",
                    "palette", "pty"}

\* A quit that waits for a mutation is not taken back, and no other begins.
QuitIsFinal ==
    desk.quit =>
    \A d \in UNION {Pressed(bound, desk, e) : e \in Keyboard}
             \cup UNION {Clicked(bound, desk, z) : z \in Zones(desk)} :
        d.quit /\ d.busy = desk.busy

\* What is being edited in the settings is the row that is selected.
EditIsOfItsRow ==
    desk.at \in {"setting", "capture"} => desk.aim = desk.row /\ (desk.at = "capture" <=> desk.tab = "keys")

InputInv ==
    /\ HintsWork
    /\ trying \/ (ClicksWork /\ FormsAreFrozen /\ PickerPicks /\ QuitIsFinal /\ EditIsOfItsRow)
=============================================================================
