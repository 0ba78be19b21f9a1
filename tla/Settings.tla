------------------------------- MODULE Settings -------------------------------
(***************************************************************************)
(* The configuration: a file of the user and one in each repository,       *)
(* merged and checked as they are loaded (src/src/config.rs), written by   *)
(* `gwm config` (src/src/config_cli.rs) and by the Settings panel of the   *)
(* TUI, whose Keys tab rebinds a verb to the keys that are pressed         *)
(* (src/src/tui/app.rs), and the two keymaps the bindings resolve to       *)
(* (src/src/tui/keymap.rs, src/src/tui/modal_keymap.rs).                   *)
(*                                                                         *)
(* A file is what it says of a few keys: `keys`, a verb's chords by slot   *)
(* (a verb's slot is its name, or a former name it still answers to),    *)
(* and `field`, any other setting.                                         *)
(***************************************************************************)
EXTENDS Naturals, Sequences, FiniteSets, TLC

LOCAL INSTANCE SequencesExt
LOCAL INSTANCE FiniteSetsExt

CONSTANTS
    Repos, Workspace,   \* of them the first is active at the start
    Slots,              \* the keys of [tui.keys], in the order of the table
    VerbOf,             \* the verb of a slot
    Modal, Reserved,    \* verbs of a modal's context, and strokes it types with
    Defaults,           \* verb -> its chords
    Events,             \* [key, shift]: what a keyboard sends
    Unreadable,         \* keys whose name does not parse
    Hands,              \* what a file may say as it is found or edited by hand
    Values,             \* of the field, 0 unset
    Windows,            \* of {"drift", "write"}
    MaxStrokes, MaxSaves, MaxEdits
                        \* bounds: of a captured chord, of all that is written, of which a
                        \* rebinding counts for two or more, and of what others do of it

VARIABLES
    files,      \* what is on disk
    gone,       \* repositories that do not open
    tui,        \* the App: the row it is on, the repository it has open, its panel
    cached,     \* the configuration of each repository, as loaded
    keymap,     \* the bindings in force
    saving,     \* a rebinding that is being saved
    saves, edits,
    last        \* history: what the panel did last

svars == <<files, gone, tui, cached, keymap, saving, saves, edits, last>>

Verbs == {VerbOf[s] : s \in DOMAIN VerbOf}
None == "none"
Error == <<>>
User == 0          \* the file of the user, beside those of the repositories

-----------------------------------------------------------------------------
\* KeyStroke: a shifted letter is its upper case.
Stroke(event) ==
    IF event.shift /\ event.key \in {"a", "b"}
    THEN [key |-> IF event.key = "a" THEN "A" ELSE "B", shift |-> FALSE]
    ELSE event

\* A stroke written to a file and read again.
Reread(stroke) == IF stroke.key \in Unreadable THEN Error ELSE Stroke(stroke)
Rereads(chord) == [k \in 1 .. Len(chord) |-> Reread(chord[k])]

Prefix(short, long) == Len(short) < Len(long) /\ short = SubSeq(long, 1, Len(short))

\* Keymap::validate
Clash(km, v, w) ==
    \E c \in km[v], d \in km[w] : (c = d /\ v # w) \/ Prefix(c, d) \/ Prefix(d, c)

Valid(km) ==
    /\ \A v \in Verbs \ Modal : <<>> \notin km[v]
    /\ \A v, w \in Verbs \ Modal : ~ Clash(km, v, w)

\* ModalKeymap::apply_override, of a verb that was given these chords.
ValidSingle(km, verb) ==
    /\ \A c \in km[verb] : Len(c) = 1 /\ c[1] \notin Reserved
    /\ \A v \in Modal \ {verb} : km[v] \cap km[verb] = {}

\* resolved_keymap, resolved_modal_keymap: the slots are applied one by one, the last of
\* a verb counts, and a default gives up the chords that were given to another.
Resolved(keys) ==
    LET given == {k \in DOMAIN Slots : Slots[k] \in DOMAIN keys}
        verb(k) == VerbOf[Slots[k]]
        chords == [k \in given |-> {Rereads(c) : c \in keys[Slots[k]]}]
        after(i) == [v \in Verbs |->
            LET mine == {k \in given : k <= i /\ verb(k) = v}
                same == {k \in given : k <= i /\ (verb(k) \in Modal <=> v \in Modal)}
            IN  IF mine # {} THEN chords[Max(mine)]
                ELSE Defaults[v] \ UNION {chords[k] : k \in same}]
        applies(k) ==
            /\ \A c \in chords[k] : Error \notin ToSet(c)
            /\ IF verb(k) \in Modal THEN ValidSingle(after(k), verb(k)) ELSE Valid(after(k))
    IN  IF \A k \in given : applies(k) THEN after(Len(Slots)) ELSE Error

-----------------------------------------------------------------------------
\* A file: `text` is "garbled" if it does not parse, "wrong" if something else is.
Empty == [there |-> FALSE, text |-> "ok", keys |-> <<>>, field |-> 0]

\* merge_toml, load_layered: a table is merged by keys, an array is replaced.
Merge(mine, user) ==
    [text |-> IF mine.text = "ok" THEN user.text ELSE mine.text,
     keys |-> mine.keys @@ user.keys,
     field |-> IF mine.field # 0 THEN mine.field ELSE user.field]

Merged(repo) == Merge(files[repo], files[User])

\* validated
Sound(config) == config.text = "ok" /\ Resolved(config.keys) # Error
Loads(repo) == Sound(Merged(repo))
AllLoad(all) == \A r \in Repos : Sound(Merge(all[r], all[User]))

\* write_and_validate: on the file alone; one that was in error may be put right by steps.
Write(file, new) ==
    IF file.text = "garbled" THEN [file |-> file, ok |-> FALSE]
    ELSE IF Sound(new) THEN [file |-> new, ok |-> TRUE]
    ELSE [file |-> IF file.there /\ ~ Sound(file) THEN new ELSE file, ok |-> FALSE]

WithKey(file, slot, chords) == [file EXCEPT !.there = TRUE, !.keys = (slot :> chords) @@ @]
WithField(file, value) == [file EXCEPT !.there = TRUE, !.field = value]
WithoutKey(file, slot) == [file EXCEPT !.keys = [s \in DOMAIN @ \ {slot} |-> @[s]]]

-----------------------------------------------------------------------------
First == CHOOSE r \in Repos : \A q \in Repos : r <= q

Files == Repos \cup {User}

\* Of the history, `sure`: what the caches still have of the files, if the TUI alone writes.
Kept == {"field", "keys"}
Idle == [did |-> "nothing", to |-> User, sure |-> Kept]
Did(what, to, sure) == [did |-> what, to |-> to, sure |-> sure]
NotSaving == [step |-> None]

SettingsInit ==
    /\ files \in [Files -> Hands]
    /\ \A r \in Repos : Loads(r)
    /\ gone = {}
    /\ tui = [row |-> First, active |-> First, stale |-> FALSE, view |-> "list", opened |-> First,
              layer |-> "project", capture |-> None, pending |-> <<>>]
    /\ cached = [r \in Repos |-> Merged(r)]
    /\ keymap = Resolved(Merged(First).keys)
    /\ saving = NotSaving /\ saves = 0 /\ edits = 0 /\ last = Idle

SettingsRest ==
    /\ files = [f \in Files |-> Empty] /\ gone = {}
    /\ tui = [row |-> First, active |-> First, stale |-> FALSE, view |-> "list", opened |-> First,
              layer |-> "project", capture |-> None, pending |-> <<>>]
    /\ cached = [r \in Repos |-> Merged(r)] /\ keymap = Resolved(Merged(First).keys)
    /\ saving = NotSaving /\ saves = 0 /\ edits = 0 /\ last = Idle

\* What is left of the bound, and what a rebinding takes of it.
Room(n) == saves + edits + n <= MaxSaves
Cost(chord) == IF Len(chord) < 2 THEN 2 ELSE Len(chord) + 1

Now == saving = NotSaving
Panel(next) ==
    /\ Now /\ tui' = next
    /\ UNCHANGED <<files, gone, cached, keymap, saving, saves, edits, last>>

\* The cursor goes to a row of another repository: sync_active_repo.  A listing that
\* lands can move it under the panel.
MoveTo(repo) ==
    /\ tui.view = "list" \/ "drift" \in Windows
    /\ Workspace /\ repo # tui.row
    /\ Panel([tui EXCEPT !.row = repo,
                !.active = IF repo \in gone THEN @ ELSE repo, !.stale = repo \in gone])

Enter == tui.view = "list" /\ 
         Panel([tui EXCEPT !.view = "panel", !.capture = None, !.opened = tui.row])
Leave ==
    /\ tui.view = "panel" /\ tui.capture = None /\ Now
    /\ tui' = [tui EXCEPT !.view = "list"] /\ last' = Did("nothing", User, last.sure)
    /\ UNCHANGED <<files, gone, cached, keymap, saving, saves, edits>>

ToggleLayer ==
    /\ tui.view = "panel" /\ tui.capture = None
    /\ Panel([tui EXCEPT !.layer = IF @ = "project" THEN "user" ELSE "project"])

BeginCapture(verb) ==
    /\ tui.view = "panel" /\ tui.capture = None /\ Room(Cost(<<>>))
    /\ Panel([tui EXCEPT !.capture = verb, !.pending = <<>>])

\* handle_capture_key
CancelCapture == tui.capture # None /\ Panel([tui EXCEPT !.capture = None, !.pending = <<>>])

PopCapture ==
    /\ tui.capture # None /\ tui.capture \notin Modal /\ tui.pending # <<>>
    /\ Panel([tui EXCEPT !.pending = SubSeq(@, 1, Len(@) - 1)])

PushCapture(event) ==
    /\ tui.capture # None /\ tui.capture \notin Modal /\ Len(tui.pending) < MaxStrokes
    /\ Room(Cost(Append(tui.pending, event)))
    /\ Panel([tui EXCEPT !.pending = Append(@, Stroke(event))])

-----------------------------------------------------------------------------
Target == IF tui.layer = "user" THEN User ELSE tui.active

Refused == tui.stale /\ tui.layer = "project"

Aliases(verb) == {s \in DOMAIN VerbOf : VerbOf[s] = verb} \ {verb}

\* set_active_config: what is loaded goes into the cache of the repository at hand.
Taken(config) == cached' = [cached EXCEPT ![tui.active] = config]

\* commit_key_capture, up to the file: the chord that was captured, or none.
Commit(pending) ==
    /\ Now /\ tui.capture # None
    /\ tui' = [tui EXCEPT !.capture = None, !.pending = <<>>]
    /\ saving' = IF Refused THEN NotSaving
                 ELSE [step |-> "write", to |-> Target, verb |-> tui.capture,
                       chord |-> pending, prior |-> files[Target],
                       loaded |-> Loads(tui.active)]
    /\ UNCHANGED <<files, gone, cached, keymap, edits, last>>
    /\ saves' = saves + Cost(pending)

SubmitCapture == tui.capture \notin Modal /\ Commit(tui.pending)
PressSingle(event) == tui.capture \in Modal /\ Commit(<<Stroke(event)>>)

Chosen == IF saving.chord = <<>> THEN {} ELSE {saving.chord}

\* set_array_at: a refusal puts back what was there.
SaveWrite ==
    /\ saving.step = "write"
    /\ LET w == Write(files[saving.to], WithKey(files[saving.to], saving.verb, Chosen))
       IN  /\ files' = [files EXCEPT ![saving.to] = IF w.ok THEN w.file ELSE saving.prior]
           /\ saving' = IF w.ok THEN [saving EXCEPT !.step = "reload"] ELSE NotSaving
           /\ last' = IF w.ok THEN last ELSE Did("rejected", saving.to, last.sure)
    /\ UNCHANGED <<gone, tui, cached, keymap, saves, edits>>

Unaliased(file, verb) ==
    LET slots == Aliases(verb) \cap DOMAIN file.keys
        without == [file EXCEPT !.keys = [s \in DOMAIN @ \ slots |-> @[s]]]
    IN  Write(file, without).file

\* Slip in Restored: what was written stays.
NotRestored(now, prior) == now

Restored(now, prior) == prior

\* unset_at of the former name, then the reload, whose failure takes it all back.
SaveReload ==
    /\ saving.step = "reload"
    /\ LET f == Unaliased(files[saving.to], saving.verb)
           all == [files EXCEPT ![saving.to] = f]
           config == Merge(all[tui.active], all[User])
       IN  IF Sound(config)
           THEN /\ files' = all
                /\ Taken(config) /\ keymap' = Resolved(config.keys)
                /\ last' = Did("rebound", saving.to,
                        IF ~ AllLoad(all) THEN {} ELSE IF saving.to = User THEN last.sure \ {"keys"} ELSE last.sure)
           ELSE /\ files' = [files EXCEPT ![saving.to] = Restored(f, saving.prior)]
                /\ last' = Did("rejected", saving.to, last.sure)
                /\ UNCHANGED <<cached, keymap>>
    /\ saving' = NotSaving
    /\ UNCHANGED <<gone, tui, saves, edits>>

\* Slip in Reloaded: only the repository at hand is loaded again.
ReloadedHere(all) == [cached EXCEPT ![tui.active] = Merge(all[tui.active], all[User])]

\* reload_workspace_repo_configs, for a setting of the user's.
Reloaded(all) ==
    [r \in Repos |->
        LET config == Merge(all[r], all[User]) IN
        IF r = tui.active \/ (tui.layer = "user" /\ Sound(config)) THEN config ELSE cached[r]]

\* apply_setting; commit_settings_edit: a write or a load that fails is the end of it, and
\* what was written stays.
ApplySetting(value) ==
    /\ Now /\ tui.view = "panel" /\ tui.capture = None /\ ~ Refused
    /\ LET w == Write(files[Target], WithField(files[Target], value))
           all == [files EXCEPT ![Target] = w.file]
           done == w.ok /\ Sound(Merge(all[tui.active], all[User]))
       IN  /\ files' = all
           /\ cached' = IF done THEN Reloaded(all) ELSE cached
           /\ last' = Did(IF w.ok THEN "set" ELSE "rejected", Target,
                IF ~ AllLoad(all) THEN {} ELSE IF done /\ Target = User THEN Kept
                ELSE IF done \/ all = files THEN last.sure ELSE {})
    /\ Room(1) /\ saves' = saves + 1
    /\ UNCHANGED <<gone, tui, keymap, saving, edits>>

-----------------------------------------------------------------------------
\* The others: an editor, `gwm config set` and `unset`, a repository that is moved away.
Other ==
    /\ edits < MaxEdits /\ Room(1) /\ edits' = edits + 1
    /\ tui.capture = None       \* or else as if just before: a capture reads no file
    /\ Now \/ "write" \in Windows
    /\ UNCHANGED <<tui, cached, keymap, saving, saves, last>>

HandEdit(f, hand) == Other /\ hand # files[f] /\ files' = [files EXCEPT ![f] = hand] /\ UNCHANGED gone

\* A scalar: a chord is not one.
ConfigSet(repo, value) ==
    /\ Other /\ value # files[repo].field /\ UNCHANGED gone
    /\ files' = [files EXCEPT ![repo] = Write(@, WithField(@, value)).file]

ConfigUnset(repo, slot) ==
    /\ Other /\ slot \in DOMAIN files[repo].keys /\ UNCHANGED gone
    /\ files' = [files EXCEPT ![repo] = Write(@, WithoutKey(@, slot)).file]

Vanish(repo) == Other /\ repo \notin gone /\ gone' = gone \cup {repo} /\ UNCHANGED files

SettingsNext ==
    \/ \E r \in Repos : MoveTo(r) \/ Vanish(r)
    \/ Enter \/ Leave \/ ToggleLayer \/ CancelCapture \/ PopCapture
    \/ \E v \in Verbs : BeginCapture(v)
    \/ \E e \in Events : PushCapture(e) \/ PressSingle(e)
    \/ SubmitCapture \/ SaveWrite \/ SaveReload
    \/ \E n \in Values : ApplySetting(n)
    \/ \E f \in Files, hand \in Hands : HandEdit(f, hand)
    \/ \E r \in Repos, s \in DOMAIN VerbOf :
        ConfigUnset(r, s) \/ \E n \in Values : ConfigSet(r, n)

SettingsSpec == SettingsInit /\ [][SettingsNext]_svars

-----------------------------------------------------------------------------
\* dispatch_key: strokes one by one; what is pending is dropped if nothing goes on from it.
Lookup(strokes) ==
    LET exact == {v \in Verbs \ Modal : strokes \in keymap[v]} IN
    IF exact # {} THEN CHOOSE v \in exact : TRUE
    ELSE IF \E v \in Verbs \ Modal : \E c \in keymap[v] : Prefix(strokes, c)
    THEN "pending" ELSE None

Fires(chord) ==
    LET press(was, stroke) ==
            LET long == Append(was.pending, stroke)
                strokes == IF Lookup(long) = None THEN <<stroke>> ELSE long
                found == Lookup(strokes)
            IN  [pending |-> IF found = "pending" THEN strokes ELSE <<>>,
                 fired |-> IF found \in {"pending", None} THEN was.fired ELSE Append(was.fired, found)]
    IN  FoldLeft(press, [pending |-> <<>>, fired |-> <<>>], chord).fired

\* Every chord that is bound fires its verb, once, and nothing on the way; a stroke of
\* a modal means one verb there, and none of those it types with (validate, dispatch_key).
BindingsAreLive ==
    /\ \A v \in Verbs \ Modal : \A c \in keymap[v] : Fires(c) = <<v>>
    /\ \A v \in Modal : \A c \in keymap[v] :
        /\ c[1] \notin Reserved
        /\ \A w \in Modal \ {v} : c \notin keymap[w]

\* A setting is written to the repository the panel was opened on; and every repository has
\* in the cache what its files say, as long as the TUI alone writes them, each of them loads
\* after every save and no setting was written that was reported as failed: one of the user's
\* that is done makes up for what came before (apply_setting, reload_workspace_repo_configs).
\* The keys of the user are loaded for the repository at hand alone (commit_key_capture).
SettingsAreInForce ==
    /\ last.to \in Repos => last.to = tui.opened
    /\ edits = 0 /\ Now => \A r \in Repos : \A what \in last.sure : cached[r][what] = Merged(r)[what]

\* A rebinding leaves the configuration of the repository at hand as loadable as it was, and
\* is in force unless another layer, or a former name, binds the verb too; a rejected one
\* leaves the file as it was (commit_key_capture).
RebindingIsSafe ==
    [][saving # NotSaving /\ saving' = NotSaving =>
        /\ saving.loaded => Loads(tui.active)'
        /\ last'.did = "rejected" => files'[saving.to] = saving.prior
        /\ last'.did = "rebound" =>
            LET over == files'[IF saving.to = User THEN tui.active ELSE User]
                slots == {s \in DOMAIN VerbOf : VerbOf[s] = saving.verb}
                former == Aliases(saving.verb) \cap DOMAIN files'[saving.to].keys
            IN  former = {} /\ slots \cap DOMAIN over.keys = {} =>
                    keymap'[saving.verb] = {Rereads(c) : c \in Chosen}]_svars

SettingsHold == [](BindingsAreLive /\ SettingsAreInForce) /\ RebindingIsSafe

\* What the code's comments say of every repository, and a workspace of two shows otherwise.
\* A rebinding never leaves a configuration broken on disk: what loaded loads still
\* (commit_key_capture reloads the active repository alone).
NoConfigIsBroken ==
    [][saving.step = "reload" /\ last'.did = "rebound" =>
        LET before == [files EXCEPT ![saving.to] = saving.prior]
        IN  \A r \in Repos : Sound(Merge(before[r], before[User])) => Loads(r)']_svars

\* A setting of the user's is in force in every repository once it is written (apply_setting
\* returns before it reloads the others if the active one does not load).
UserSettingsReachAll ==
    edits = 0 /\ last.did = "set" /\ last.to = User =>
        \A r \in Repos : Loads(r) => cached[r].field = Merged(r).field
=============================================================================
