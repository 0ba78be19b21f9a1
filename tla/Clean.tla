---------------------------------- MODULE Clean ----------------------------------
(***************************************************************************)
(* Reclaiming build directories: `gwm clean`, over the worktrees of one    *)
(* repository or of a workspace, and the clean overlay of the TUI with its *)
(* profiles and its countdown (src/src/clean.rs, src/src/cli.rs,           *)
(* src/src/tui/state/clean_overlay.rs, src/src/tui/app.rs).                *)
(*                                                                         *)
(* A directory is "junk" when git ignores it and tracks nothing in it, and *)
(* "kept" otherwise; builds and `git add -f` change it meanwhile.          *)
(***************************************************************************)
EXTENDS Naturals, FiniteSets

CONSTANTS
    Dirs,           \* directories, of all worktrees
    Profiles,       \* "default" and others
    DirsOf,         \* [Profiles -> SUBSET Dirs]
    Broken,         \* profiles whose entries do not resolve
    Windows,        \* of {"removal"}: a directory changes between its scan and its removal
    MaxTouch        \* bound: changes by others

VARIABLES
    dir,        \* what each directory is
    cli,        \* gwm clean: [at, profile, yes, scanned, found]
    overlay,    \* the overlay: [open, profile, shown, armed]
    removing,   \* what the overlay or the command is removing, and for whom
    armedOn,    \* history: the profile the countdown was armed on
    touched

clvars == <<dir, cli, overlay, removing, armedOn, touched>>

Kinds == {"absent", "empty", "junk", "kept", "link"}

CleanTypeOK ==
    /\ dir \in [Dirs -> Kinds]
    /\ cli \in [at : {"asked", "scanning", "report", "done", "failed"}, profile : Profiles,
                yes : BOOLEAN, scanned : SUBSET Dirs, found : SUBSET Dirs]
    /\ overlay \in [open : BOOLEAN, profile : Profiles, shown : SUBSET Dirs,
                    junk : BOOLEAN, armed : BOOLEAN]
    /\ removing \in [by : {"none", "cli", "tui"}, dirs : SUBSET Dirs]
    /\ armedOn \in Profiles
    /\ touched \in 0 .. MaxTouch

NoReclaim == [by |-> "none", dirs |-> {}]

CleanInit ==
    /\ dir \in [Dirs -> Kinds]
    /\ cli \in [at : {"asked"}, profile : Profiles, yes : BOOLEAN, scanned : {{}}, found : {{}}]
    /\ overlay = [open |-> FALSE, profile |-> "default", shown |-> {}, junk |-> FALSE,
                  armed |-> FALSE]
    /\ removing = NoReclaim
    /\ armedOn = "default"
    /\ touched = 0

\* Nothing is going on here.
CleanRest ==
    /\ dir = [d \in Dirs |-> "absent"]
    /\ cli = [at |-> "done", profile |-> "default", yes |-> FALSE, scanned |-> {}, found |-> {}]
    /\ overlay = [open |-> FALSE, profile |-> "default", shown |-> {}, junk |-> FALSE,
                  armed |-> FALSE]
    /\ removing = NoReclaim /\ armedOn = "default" /\ touched = 0

\* scan_worktree_safe: a real directory that is ignored and holds nothing tracked.
Deletable(d) == dir[d] \in {"empty", "junk"}
Scan(dirs) == {d \in dirs : Deletable(d)}
Worth(dirs) == \E d \in dirs : dir[d] = "junk"

-----------------------------------------------------------------------------
\* gwm clean: every profile is resolved and every directory scanned, and only then
\* a report is made or, asked for by --yes, what was found is removed.
Ask ==
    /\ cli.at = "asked"
    /\ cli' = [cli EXCEPT !.at = IF cli.profile \in Broken THEN "failed" ELSE "scanning"]
    /\ UNCHANGED <<dir, overlay, removing, armedOn, touched>>

ScanNext(d) ==
    /\ cli.at = "scanning" /\ d \in DirsOf[cli.profile] \ cli.scanned
    /\ cli' = [cli EXCEPT !.scanned = @ \cup {d}, !.found = @ \cup Scan({d})]
    /\ UNCHANGED <<dir, overlay, removing, armedOn, touched>>

Report ==
    /\ cli.at = "scanning" /\ cli.scanned = DirsOf[cli.profile]
    /\ removing = NoReclaim
    /\ \/ /\ cli.yes /\ cli.found # {}
          /\ removing' = [by |-> "cli", dirs |-> cli.found]
          /\ cli' = [cli EXCEPT !.at = "report"]
       \/ /\ ~ cli.yes \/ \A d \in cli.found : dir[d] # "junk"     \* or no bytes in it
          /\ cli' = [cli EXCEPT !.at = "done"]
          /\ UNCHANGED removing
    /\ UNCHANGED <<dir, overlay, armedOn, touched>>

\* delete_reclaim: one after the other; gone already is fine, a build that goes on
\* writing is tried again three times.
Remove(d) ==
    /\ d \in removing.dirs
    /\ dir' = [dir EXCEPT ![d] = "absent"]
    /\ removing' = [removing EXCEPT !.dirs = @ \ {d}]
    /\ UNCHANGED <<cli, overlay, armedOn, touched>>

\* An error ends it for the directories of that worktree, and not for the others'.
GiveUp(dirs) ==
    /\ dirs # {} /\ dirs \subseteq removing.dirs
    /\ removing' = [removing EXCEPT !.dirs = @ \ dirs]
    /\ UNCHANGED <<dir, cli, overlay, armedOn, touched>>

StopRemoving ==
    /\ removing # NoReclaim /\ removing.dirs = {}
    /\ removing' = NoReclaim
    /\ IF removing.by = "cli"
       THEN /\ \E at \in {"done", "failed"} : cli' = [cli EXCEPT !.at = at]
            /\ UNCHANGED overlay
       ELSE overlay' = [overlay EXCEPT !.open = FALSE, !.armed = FALSE] /\ UNCHANGED cli
    /\ UNCHANGED <<dir, armedOn, touched>>

-----------------------------------------------------------------------------
\* Slip in Scanned: a scan leaves the countdown armed.
ScannedArmed(profile, was) ==
    IF profile \in Broken THEN [was EXCEPT !.profile = profile]
    ELSE [was EXCEPT !.profile = profile, !.shown = Scan(DirsOf[profile]),
                     !.junk = Worth(Scan(DirsOf[profile]))]

\* The overlay.  Opening it scans; a profile that does not resolve keeps it shut.
Scanned(profile, was) ==
    IF profile \in Broken THEN [was EXCEPT !.profile = profile]
    ELSE [was EXCEPT !.profile = profile, !.shown = Scan(DirsOf[profile]),
                     !.junk = Worth(Scan(DirsOf[profile])), !.armed = FALSE]

OpenOverlay ==
    /\ ~ overlay.open /\ removing = NoReclaim /\ "default" \notin Broken
    /\ overlay' = [Scanned("default", overlay) EXCEPT !.open = TRUE, !.armed = FALSE]
    /\ UNCHANGED <<dir, cli, removing, armedOn, touched>>

\* Another profile, by a key or by a click: scanned again, and disarmed unless it
\* does not resolve.
Choose(profile) ==
    /\ overlay.open /\ removing = NoReclaim /\ profile # overlay.profile
    /\ overlay' = Scanned(profile, overlay)
    /\ UNCHANGED <<dir, cli, removing, armedOn, touched>>

\* Slip in Fires: what was scanned before is removed.
FiresOnShown ==
    /\ removing' = [by |-> "tui", dirs |-> overlay.shown]
    /\ overlay' = [overlay EXCEPT !.armed = FALSE]

\* What is removed is scanned anew, for the profile and the worktree at hand.
Fires ==
    LET found == Scan(DirsOf[overlay.profile]) IN
    IF overlay.profile \in Broken \/ found = {}
    THEN /\ overlay' = [overlay EXCEPT !.open = FALSE, !.armed = FALSE]
         /\ UNCHANGED removing
    ELSE /\ removing' = [by |-> "tui", dirs |-> found]
         /\ overlay' = [overlay EXCEPT !.armed = FALSE]

\* y: nothing to reclaim, or arms the countdown, or disarms it; without a countdown
\* it fires at once.
Press ==
    /\ overlay.open /\ removing = NoReclaim /\ overlay.junk
    /\ \/ /\ overlay' = [overlay EXCEPT !.armed = ~ @]
          /\ armedOn' = IF overlay.armed THEN armedOn ELSE overlay.profile
          /\ UNCHANGED removing
       \/ ~ overlay.armed /\ armedOn' = overlay.profile /\ Fires
    /\ UNCHANGED <<dir, cli, touched>>

Elapse ==
    /\ overlay.open /\ removing = NoReclaim /\ overlay.armed
    /\ Fires
    /\ UNCHANGED <<dir, cli, armedOn, touched>>

CloseOverlay ==
    /\ overlay.open /\ removing = NoReclaim
    /\ overlay' = [overlay EXCEPT !.open = FALSE, !.armed = FALSE]
    /\ UNCHANGED <<dir, cli, removing, armedOn, touched>>

-----------------------------------------------------------------------------
\* The others: a build, git add -f, rm, ln -s.
Touch(d, kind) ==
    /\ touched < MaxTouch /\ dir[d] # kind
    /\ (cli.at = "scanning" /\ d \in cli.scanned) \/ d \in removing.dirs =>
           "removal" \in Windows \/ kind # "kept"
    /\ dir' = [dir EXCEPT ![d] = kind]
    /\ touched' = touched + 1
    /\ UNCHANGED <<cli, overlay, removing, armedOn>>

CleanNext ==
    \/ Ask \/ Report \/ StopRemoving
    \/ OpenOverlay \/ Press \/ Elapse \/ CloseOverlay
    \/ \E p \in Profiles : Choose(p)
    \/ \E ds \in SUBSET Dirs : GiveUp(ds)
    \/ \E d \in Dirs : ScanNext(d) \/ Remove(d) \/ \E k \in Kinds : Touch(d, k)

CleanSpec == CleanInit /\ [][CleanNext]_clvars

-----------------------------------------------------------------------------
\* Only what git ignores and tracks nothing in is ever removed, however old the
\* report or the countdown (scan_worktree_safe, clean_overlay_delete), and nothing
\* without --yes.
OnlyJunkGoes ==
    [][\A d \in Dirs : dir[d] # "absent" /\ dir'[d] = "absent" /\ touched' = touched
          => dir[d] # "kept" /\ (removing.by = "cli" => cli.yes)]_clvars

\* The overlay removes the directories of the profile its countdown was armed on.
RemovesTheArmedProfile ==
    removing.by = "tui" => removing.dirs \subseteq DirsOf[armedOn]
=============================================================================
