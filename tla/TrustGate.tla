------------------------------- MODULE TrustGate -------------------------------
(***************************************************************************)
(* Who may run what .gwm.toml asks for: the gate in front of `gwm create`, *)
(* `gwm review`, `gwm bootstrap` and the TUI's create and bootstrap, the   *)
(* ledger of trusted configurations behind it, and the hook phases and the *)
(* bootstrap that run once it lets through (src/src/trust.rs,              *)
(* src/src/cli.rs, src/src/lifecycle.rs, src/src/tui/app.rs).              *)
(*                                                                         *)
(* The configuration that will be run is loaded first; the gate reads the  *)
(* file again and rules on that.  A configuration is known by what it asks *)
(* to run.  Others edit the file and use `gwm trust` between any two       *)
(* steps; `Windows` names the gaps in which they are let in.               *)
(***************************************************************************)
EXTENDS Naturals

CONSTANTS
    Callers,        \* processes
    Configs,        \* contents of .gwm.toml
    Surface,        \* those that ask for anything to be copied or run
    Hooked,         \* those with [hooks.*]
    NoConfig,       \* no file, or no entry
    Windows,        \* of {"edit", "ledger"}
    MaxEdits       \* bound: edits, grants and revocations by others

VARIABLES
    file,       \* .gwm.toml on disk
    ledger,     \* the trust ledger: one configuration per origin
    approved,   \* history: what a user approved and has not taken back
    call,       \* the processes
    edits

vars == <<file, ledger, approved, call, edits>>

Origins == {"ours", "theirs"}
Files == Configs \cup {NoConfig}

Kinds == {"create", "review", "bootstrap", "tui"}
Steps == {"idle", "loaded", "prompting", "pre_create", "adding",
          "pre_bootstrap", "bootstrap", "post_bootstrap", "post_create", "done"}

Call == [pc : Steps, kind : Kinds,
         mode : {"prompt", "allow", "deny"},
         boots : BOOLEAN,           \* not --no-bootstrap; --bootstrap of a review
         cfg : Files,               \* as loaded: what will be run
         ruled : Files,             \* as read again by the gate
         snapshot : [Origins -> Files],     \* the ledger as the gate loaded it
         sound : BOOLEAN,           \* history: the gate let it through, rightly
         ran : SUBSET Files]        \* history: what it copied or ran

TypeOK ==
    /\ file \in Files
    /\ ledger \in [Origins -> Files]
    /\ approved \subseteq Origins \X Configs
    /\ call \in [Callers -> Call]
    /\ edits \in 0 .. MaxEdits

Idle == [pc |-> "idle", kind |-> "create", mode |-> "prompt", boots |-> FALSE,
         cfg |-> NoConfig, ruled |-> NoConfig, snapshot |-> [o \in Origins |-> NoConfig],
         sound |-> FALSE, ran |-> {}]

Init ==
    /\ file \in Files
    /\ ledger \in {l \in [Origins -> Files] : l["theirs"] = NoConfig}
    /\ approved = {a \in Origins \X Configs : ledger[a[1]] = a[2]}
    /\ call = [p \in Callers |-> Idle]
    /\ edits = 0

\* Nothing is going on here.
Rest ==
    /\ file = NoConfig /\ ledger = [o \in Origins |-> NoConfig] /\ approved = {}
    /\ call = [p \in Callers |-> Idle] /\ edits = 0

To(p, step) == call' = [call EXCEPT ![p].pc = step]

-----------------------------------------------------------------------------
\* repo_context loads the configuration; the TUI loaded it when it started.
Start(p) ==
    /\ call[p].pc = "idle"
    /\ \E kind \in Kinds, mode \in {"prompt", "allow", "deny"}, boots \in BOOLEAN :
        /\ kind \in {"tui", "bootstrap"} => boots
        /\ call' = [call EXCEPT ![p] = [Idle EXCEPT
               !.pc = "loaded", !.kind = kind, !.mode = mode, !.boots = boots, !.cfg = file]]
    /\ UNCHANGED <<file, ledger, approved, edits>>

\* Slip in AsksGate: a gate that asks only when there is a bootstrap.
AsksForBootstrap(c) == c.boots

\* Whether the call asks the gate at all.
AsksGate(c) == c.boots \/ (c.kind = "create" /\ c.cfg \in Hooked)

\* evaluate_bytes, in its order.
Verdict(mode, bytes, known) ==
    IF bytes = NoConfig THEN "proceed"
    ELSE IF mode = "deny" THEN "refuse"
    ELSE IF bytes \notin Surface \/ mode = "allow" \/ known["ours"] = bytes THEN "proceed"
    ELSE "prompt"

RightlyRuled(mode, bytes) ==
    bytes \notin Surface \/ mode = "allow" \/ <<"ours", bytes>> \in approved

FirstPhase(c) == CASE c.kind = "create" -> "pre_create"
                   [] c.kind = "review" -> IF c.boots THEN "pre_create" ELSE "adding"
                   [] c.kind = "bootstrap" -> "pre_bootstrap"
                   [] c.kind = "tui" -> "adding"

\* The file is read again, and ruled on as it is now.  A TUI has no prompt: there
\* the question is a refusal.
Gate(p) ==
    LET c == call[p]
        verdict == Verdict(c.mode, file, ledger)
        read == [c EXCEPT !.ruled = file, !.snapshot = ledger]
    IN
    /\ c.pc = "loaded"
    /\ \/ ~ AsksGate(c) /\ To(p, FirstPhase(c))
       \/ /\ AsksGate(c) /\ verdict = "proceed"
          /\ call' = [call EXCEPT ![p] = [read EXCEPT
                 !.sound = RightlyRuled(c.mode, file), !.pc = FirstPhase(c)]]
       \/ /\ AsksGate(c) /\ verdict = "prompt" /\ c.kind # "tui"
          /\ call' = [call EXCEPT ![p] = [read EXCEPT !.pc = "prompting"]]
       \/ /\ AsksGate(c)
          /\ verdict = "refuse" \/ (verdict = "prompt" /\ c.kind = "tui")
          /\ To(p, "done")
    /\ UNCHANGED <<file, ledger, approved, edits>>

\* The user reads the file and types yes, and the ledger the gate loaded is saved
\* with the entry, the only one of its origin; any other answer is a refusal.
Recorded(c) == [c.snapshot EXCEPT !["ours"] = c.ruled]

Answer(p) ==
    LET c == call[p] IN
    /\ c.pc = "prompting"
    /\ \/ /\ ledger' = Recorded(c)
          /\ approved' = {a \in approved : a[1] # "ours"} \cup {<<"ours", c.ruled>>}
          /\ call' = [call EXCEPT ![p].sound = TRUE, ![p].pc = FirstPhase(c)]
       \/ To(p, "done") /\ UNCHANGED <<ledger, approved>>
    /\ UNCHANGED <<file, edits>>

-----------------------------------------------------------------------------
\* run_phase: skipped or with nothing to do, done, or aborted by one of its steps.
Phase(p, this, steps, then) ==
    LET c == call[p] IN
    /\ c.pc = this
    /\ \/ To(p, then)
       \/ /\ c.cfg \in steps
          /\ \E pc \in {then, "done"} :
                call' = [call EXCEPT ![p].ran = @ \cup {c.cfg}, ![p].pc = pc]
    /\ UNCHANGED <<file, ledger, approved, edits>>

PreCreate(p) == Phase(p, "pre_create", Hooked, "adding")
PreBootstrap(p) == Phase(p, "pre_bootstrap", Hooked, "bootstrap")
PostBootstrap(p) ==
    Phase(p, "post_bootstrap", Hooked, IF call[p].kind = "bootstrap" THEN "done" ELSE "post_create")

\* The last phase takes [[bootstrap.command]] along when there was a bootstrap.
PostCreate(p) == Phase(p, "post_create", IF call[p].boots THEN Surface ELSE Hooked, "done")

\* The worktree is made, or is not.
Add(p) ==
    LET c == call[p] IN
    /\ c.pc = "adding"
    /\ \/ To(p, "done")
       \/ To(p, CASE c.kind = "tui" -> "bootstrap"
                  [] c.kind # "tui" /\ c.boots -> "pre_bootstrap"
                  [] c.kind # "tui" /\ ~ c.boots ->
                        IF c.kind = "review" THEN "done" ELSE "post_create")
    /\ UNCHANGED <<file, ledger, approved, edits>>

\* Copies and checks, and in the TUI the commands; a failure is a line of a report.
Bootstrap(p) ==
    LET c == call[p] IN
    /\ c.pc = "bootstrap"
    /\ call' = [call EXCEPT ![p].ran = @ \cup ({c.cfg} \cap Surface),
                            ![p].pc = IF c.kind = "tui" THEN "done" ELSE "post_bootstrap"]
    /\ UNCHANGED <<file, ledger, approved, edits>>

-----------------------------------------------------------------------------
\* The others.
InWindow(window, step) == window \in Windows \/ \A p \in Callers : call[p].pc # step

Others == edits < MaxEdits /\ edits' = edits + 1 /\ UNCHANGED call

\* Somebody edits .gwm.toml, or pulls another one.
Edit(f) ==
    /\ Others /\ InWindow("edit", "loaded")
    /\ f # file /\ file' = f
    /\ UNCHANGED <<ledger, approved>>

\* gwm trust add and gwm trust revoke, in this clone or in another.
TrustAdd(o, c) ==
    /\ Others /\ InWindow("ledger", "prompting")
    /\ o = "ours" => c = file
    /\ ledger' = [ledger EXCEPT ![o] = c]
    /\ approved' = {a \in approved : a[1] # o} \cup {<<o, c>>}
    /\ UNCHANGED file

TrustRevoke(o) ==
    /\ Others /\ InWindow("ledger", "prompting")
    /\ ledger[o] # NoConfig
    /\ ledger' = [ledger EXCEPT ![o] = NoConfig]
    /\ approved' = {a \in approved : a[1] # o}
    /\ UNCHANGED file

Next ==
    \/ \E p \in Callers :
        \/ Start(p) \/ Gate(p) \/ Answer(p) \/ Add(p)
        \/ PreCreate(p) \/ PreBootstrap(p) \/ Bootstrap(p) \/ PostBootstrap(p) \/ PostCreate(p)
    \/ \E f \in Files : Edit(f)
    \/ \E o \in Origins, c \in Configs : TrustAdd(o, c)
    \/ \E o \in Origins : TrustRevoke(o)

Spec == Init /\ [][Next]_vars

-----------------------------------------------------------------------------
\* What a configuration asks for is copied or run only when the gate ruled on that
\* very configuration, and rightly: the user waived the gate, or approved it for
\* this origin and has not taken that back (trust_or_prompt before every phase).
RunsOnlyApproved ==
    \A p \in Callers : \A c \in call[p].ran : call[p].sound /\ call[p].ruled = c

\* What the ledger holds somebody approved for that origin, and has not revoked
\* (record, revoke, save).
LedgerIsTheUsers ==
    \A o \in Origins : ledger[o] # NoConfig => <<o, ledger[o]>> \in approved

GateHolds == RunsOnlyApproved /\ LedgerIsTheUsers
=============================================================================
