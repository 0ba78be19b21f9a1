----------------------------- MODULE CommandsProofs -----------------------------
(***************************************************************************)
(* What the commands promise, for every value of the constants: the        *)
(* invariants and the action properties of Commands, each as long as the   *)
(* windows it names are shut (Windows, where others act between a check    *)
(* and its use).  One part per handler; the theorems are at the end.       *)
(***************************************************************************)
EXTENDS Commands, FiniteSetTheorems, TLAPS

\* A process runs one command: the handlers that are not chosen do nothing.
LEMMA OneCommand ==
  ASSUME [CommandNext]_allvars
  PROVE  /\ command' = command
         /\ command # "trust" => UNCHANGED trustVars
         /\ command # "create" => UNCHANGED createVars
         /\ command # "bootstrap" => UNCHANGED bootVars
         /\ command # "clean" => UNCHANGED cleanVars
         /\ command # "sync" => UNCHANGED syncVars
         /\ command # "rename" => UNCHANGED renameVars
         /\ command # "house" => UNCHANGED houseVars
BY DEF CommandNext, OnlyIn, allvars

\* A step of a command is a step of its handler, or none of its variables move.
LEMMA TrustAlone ==
  ASSUME [CommandNext]_allvars, command = "trust"
  PROVE  [Gate!Next]_trustVars /\ command' = command
BY DEF CommandNext, OnlyIn, allvars, trustVars

-----------------------------------------------------------------------------
(* The trust gate.  Between the gate and the first thing that runs there are
   steps that say nothing of the ledger; a call remembers what was ruled.  *)

Passed == {"pre_create", "adding", "pre_bootstrap", "bootstrap", "post_bootstrap", "post_create"}

\* What a call will run is what was, or will be, ruled on.
RuledOn(c) == Gate!AsksGate(c) => c.sound /\ c.ruled = c.cfg

\* Which calls come by the phases that run something.
OnItsWay(c) ==
  /\ c.kind \in {"tui", "bootstrap"} => c.boots
  /\ c.pc \in {"pre_bootstrap", "bootstrap", "post_bootstrap"} => c.boots
  /\ c.pc \in {"pre_create", "post_create"} => c.boots \/ c.kind = "create"

GateCall(p) ==
  LET c == call[p] IN
  /\ c.pc = "loaded" => c.cfg = file
  /\ c.pc = "prompting" => c.ruled = c.cfg /\ c.cfg # NoConfig /\ c.snapshot["theirs"] = ledger["theirs"]
  /\ c.pc \in {"loaded", "prompting"} => c.ran = {}
  /\ c.pc \in Passed => RuledOn(c)
  /\ OnItsWay(c)

\* Inductive, while nobody comes between the load and the gate, or between the
\* question and the answer.
GateIInv ==
  /\ Gate!TypeOK /\ Gate!GateHolds
  /\ \A p \in Callers : GateCall(p)

LEMMA GateInit == Gate!Init => GateIInv
<1>. SUFFICES ASSUME Gate!Init PROVE GateIInv
  OBVIOUS
<1>. USE DEF Gate!Init, Gate!Origins, Gate!Files
<1>1. Gate!Idle \in Gate!Call
  BY DEF Gate!Idle, Gate!Call, Gate!Kinds, Gate!Steps
<1>2. Gate!TypeOK
  BY <1>1, BoundsAssumption DEF Gate!TypeOK
<1>3. Gate!GateHolds
  BY GateAssumption DEF Gate!GateHolds, Gate!RunsOnlyApproved, Gate!LedgerIsTheUsers, Gate!Idle
<1>4. \A p \in Callers : GateCall(p)
  BY DEF GateCall, Gate!Idle, OnItsWay, Passed
<1>. QED BY <1>2, <1>3, <1>4 DEF GateIInv

\* A step of one call leaves the others alone.
LEMMA GateOthers ==
  ASSUME GateIInv, NEW p \in Callers, NEW q \in Callers, q # p,
         NEW c, call' = [call EXCEPT ![p] = c],
         UNCHANGED file, ledger'["theirs"] = ledger["theirs"]
  PROVE  GateCall(q)'
BY DEF GateIInv, Gate!TypeOK, GateCall, OnItsWay, RuledOn, Gate!AsksGate

\* Nor does it touch the ledger, and what it makes of itself holds.
LEMMA GateKeeps ==
  ASSUME GateIInv, NEW p \in Callers, NEW c \in Gate!Call,
         call' = [call EXCEPT ![p] = c], UNCHANGED <<file, ledger, approved, edits>>,
         \A d \in c.ran : c.sound /\ c.ruled = d, GateCall(p)'
  PROVE  GateIInv'
<1>1. Gate!TypeOK'
  BY DEF GateIInv, Gate!TypeOK
<1>2. Gate!GateHolds'
  BY DEF GateIInv, Gate!TypeOK, Gate!GateHolds, Gate!RunsOnlyApproved, Gate!LedgerIsTheUsers
<1>3. ASSUME NEW q \in Callers PROVE GateCall(q)'
  BY GateOthers
<1>. QED BY <1>1, <1>2, <1>3 DEF GateIInv

LEMMA GateStarts == ASSUME GateIInv, NEW p \in Callers, Gate!Start(p) PROVE GateIInv'
<1>1. PICK kind \in Gate!Kinds, mode \in {"prompt", "allow", "deny"}, boots \in BOOLEAN :
        /\ kind \in {"tui", "bootstrap"} => boots
        /\ call' = [call EXCEPT ![p] = [Gate!Idle EXCEPT
               !.pc = "loaded", !.kind = kind, !.mode = mode, !.boots = boots, !.cfg = file]]
  BY DEF Gate!Start
<1>. DEFINE c == [Gate!Idle EXCEPT
               !.pc = "loaded", !.kind = kind, !.mode = mode, !.boots = boots, !.cfg = file]
<1>2. c \in Gate!Call
  BY DEF Gate!Idle, Gate!Call, Gate!Steps, Gate!Kinds, Gate!Files, Gate!Origins, GateIInv, Gate!TypeOK
<1>3. c.ran = {} /\ c.pc = "loaded" /\ c.cfg = file /\ c.kind = kind /\ c.boots = boots
  BY DEF Gate!Idle
<1>4. UNCHANGED <<file, ledger, approved, edits>>
  BY DEF Gate!Start
<1>5. call'[p] = c
  BY <1>1 DEF GateIInv, Gate!TypeOK
<1>6. GateCall(p)'
  BY <1>1, <1>3, <1>4, <1>5 DEF GateCall, OnItsWay, Passed
<1>. QED BY <1>1, <1>2, <1>3, <1>4, <1>6, GateKeeps
\* A call is what it was but for where it is: the gate's early ways out, and
\* the worktree that is made or is not.
LEMMA GateMoves ==
  ASSUME GateIInv, NEW p \in Callers, NEW nextPc \in Gate!Steps, Gate!To(p, nextPc),
         UNCHANGED <<file, ledger, approved, edits>>,
         nextPc \notin {"loaded", "prompting"},
         nextPc \in Passed => RuledOn(call[p]), OnItsWay([call[p] EXCEPT !.pc = nextPc])
  PROVE  GateIInv'
<1>. DEFINE c == [call[p] EXCEPT !.pc = nextPc]
<1>1. c \in Gate!Call /\ call' = [call EXCEPT ![p] = c] /\ call'[p] = c
  BY DEF Gate!To, Gate!Call, GateIInv, Gate!TypeOK
<1>2. /\ c.pc = nextPc /\ c.kind = call[p].kind /\ c.boots = call[p].boots /\ c.cfg = call[p].cfg
      /\ c.ran = call[p].ran /\ c.sound = call[p].sound /\ c.ruled = call[p].ruled
  BY DEF GateIInv, Gate!TypeOK, Gate!Call
<1>3. \A d \in c.ran : c.sound /\ c.ruled = d
  BY <1>2 DEF GateIInv, Gate!GateHolds, Gate!RunsOnlyApproved
<1>4. GateCall(p)'
  BY <1>1, <1>2 DEF GateCall, RuledOn, Gate!AsksGate, Passed
<1>. QED BY <1>1, <1>3, <1>4, GateKeeps

LEMMA FirstIsPassed ==
  ASSUME NEW c \in Gate!Call, OnItsWay(c)
  PROVE  /\ Gate!FirstPhase(c) \in Passed
         /\ Gate!FirstPhase(c) \in {"pre_bootstrap", "bootstrap", "post_bootstrap"} => c.boots
         /\ Gate!FirstPhase(c) \in {"pre_create", "post_create"} => c.boots \/ c.kind = "create"
<1>1. CASE c.kind = "create"
  BY <1>1 DEF Gate!FirstPhase, Passed
<1>2. CASE c.kind = "review"
  BY <1>2 DEF Gate!FirstPhase, Passed
<1>3. CASE c.kind = "bootstrap"
  BY <1>3 DEF Gate!FirstPhase, Passed, OnItsWay
<1>4. CASE c.kind = "tui"
  BY <1>4 DEF Gate!FirstPhase, Passed
<1>. QED BY <1>1, <1>2, <1>3, <1>4 DEF Gate!Call, Gate!Kinds

\* The gate rules on the file as it is, which is what was loaded; what it lets
\* through without a question the ledger names, and so the user approved it.
LEMMA GateRules == ASSUME GateIInv, NEW p \in Callers, Gate!Gate(p) PROVE GateIInv'
<1>. DEFINE c == call[p]
            verdict == Gate!Verdict(c.mode, file, ledger)
            looked == [c EXCEPT !.ruled = file, !.snapshot = ledger]
            first == Gate!FirstPhase(c)
<1>1. /\ c \in Gate!Call /\ c.pc = "loaded" /\ c.cfg = file /\ c.ran = {} /\ OnItsWay(c)
      /\ file \in Gate!Files /\ ledger \in [Gate!Origins -> Gate!Files]
      /\ UNCHANGED <<file, ledger, approved, edits>>
  BY DEF Gate!Gate, GateIInv, Gate!TypeOK, GateCall
<1>2. /\ first \in Passed
      /\ first \in {"pre_bootstrap", "bootstrap", "post_bootstrap"} => c.boots
      /\ first \in {"pre_create", "post_create"} => c.boots \/ c.kind = "create"
  BY <1>1, FirstIsPassed DEF Gate!Call, Gate!Kinds
<1>3. Passed \subseteq Gate!Steps /\ {"loaded", "prompting"} \cap Passed = {} /\ "done" \in Gate!Steps \ Passed
      /\ "prompting" \in Gate!Steps
  BY DEF Passed, Gate!Steps
<1>4. CASE ~ Gate!AsksGate(c) /\ Gate!To(p, first)
  <2>1. OnItsWay([c EXCEPT !.pc = first])
    BY <1>1, <1>2 DEF OnItsWay, Gate!Call
  <2>. QED BY <1>1, <1>2, <1>3, <1>4, <2>1, GateMoves DEF RuledOn
<1>5. CASE Gate!To(p, "done")
  <2>1. OnItsWay([c EXCEPT !.pc = "done"])
    BY <1>1 DEF OnItsWay, Gate!Call
  <2>. QED BY <1>1, <1>3, <1>5, <2>1, GateMoves
<1>6. CASE /\ verdict = "proceed"
           /\ call' = [call EXCEPT ![p] = [looked EXCEPT !.sound = Gate!RightlyRuled(c.mode, file), !.pc = first]]
  <2>. DEFINE d == [looked EXCEPT !.sound = Gate!RightlyRuled(c.mode, file), !.pc = first]
  <2>1. Gate!RightlyRuled(c.mode, file)
    <3>1. CASE file \notin Surface \/ c.mode = "allow"
      BY <3>1 DEF Gate!RightlyRuled
    <3>2. CASE file \in Surface /\ c.mode # "allow"
      <4>1. file # NoConfig
        BY <3>2, GateAssumption
      <4>2. ledger["ours"] = file
        BY <1>6, <3>2, <4>1 DEF Gate!Verdict
      <4>3. <<"ours", file>> \in approved
        BY <4>1, <4>2 DEF GateIInv, Gate!GateHolds, Gate!LedgerIsTheUsers, Gate!Origins
      <4>. QED BY <4>3 DEF Gate!RightlyRuled
    <3>. QED BY <3>1, <3>2
  <2>2. d = [looked EXCEPT !.sound = TRUE, !.pc = first]
    BY <2>1 DEF Gate!RightlyRuled
  <2>3. d \in Gate!Call
    BY <1>1, <1>2, <1>3, <2>2 DEF Gate!Call
  <2>4. /\ d.pc = first /\ d.kind = c.kind /\ d.boots = c.boots /\ d.cfg = c.cfg /\ d.ran = {}
        /\ d.sound = TRUE /\ d.ruled = file
    BY <1>1, <2>2 DEF Gate!Call
  <2>5. call'[p] = d
    BY <1>6 DEF GateIInv, Gate!TypeOK
  <2>6. GateCall(p)'
    BY <1>1, <1>2, <1>3, <2>4, <2>5 DEF GateCall, OnItsWay, RuledOn
  <2>. QED BY <1>1, <1>6, <2>3, <2>4, <2>6, GateKeeps
<1>7. CASE verdict = "prompt" /\ call' = [call EXCEPT ![p] = [looked EXCEPT !.pc = "prompting"]]
  <2>. DEFINE d == [looked EXCEPT !.pc = "prompting"]
  <2>1. d \in Gate!Call
    BY <1>1, <1>3 DEF Gate!Call
  <2>2. /\ d.pc = "prompting" /\ d.kind = c.kind /\ d.boots = c.boots /\ d.cfg = c.cfg /\ d.ran = {}
        /\ d.ruled = file /\ d.snapshot = ledger
    BY <1>1 DEF Gate!Call
  <2>5. file # NoConfig
    BY <1>7 DEF Gate!Verdict
  <2>3. call'[p] = d
    BY <1>7 DEF GateIInv, Gate!TypeOK
  <2>4. GateCall(p)'
    BY <1>1, <1>3, <2>2, <2>3, <2>5 DEF GateCall, OnItsWay
  <2>. QED BY <1>1, <1>7, <2>1, <2>2, <2>4, GateKeeps
<1>. QED BY <1>4, <1>5, <1>6, <1>7 DEF Gate!Gate

\* What is recorded is what was asked about; the other origin keeps its entry.
LEMMA GateAnswers == ASSUME GateIInv, NEW p \in Callers, Gate!Answer(p) PROVE GateIInv'
<1>. DEFINE c == call[p]
            first == Gate!FirstPhase(c)
<1>1. /\ c \in Gate!Call /\ c.pc = "prompting" /\ c.ruled = c.cfg /\ c.cfg # NoConfig /\ c.ran = {} /\ OnItsWay(c)
      /\ c.snapshot["theirs"] = ledger["theirs"]
      /\ UNCHANGED <<file, edits>>
  BY DEF Gate!Answer, GateIInv, Gate!TypeOK, GateCall
<1>2. /\ first \in Passed
      /\ first \in {"pre_bootstrap", "bootstrap", "post_bootstrap"} => c.boots
      /\ first \in {"pre_create", "post_create"} => c.boots \/ c.kind = "create"
  BY <1>1, FirstIsPassed DEF Gate!Call, Gate!Kinds
<1>3. Passed \subseteq Gate!Steps /\ {"loaded", "prompting"} \cap Passed = {} /\ "done" \in Gate!Steps \ Passed
  BY DEF Passed, Gate!Steps
<1>4. CASE Gate!To(p, "done") /\ UNCHANGED <<ledger, approved>>
  <2>1. OnItsWay([c EXCEPT !.pc = "done"])
    BY <1>1 DEF OnItsWay, Gate!Call
  <2>. QED BY <1>1, <1>3, <1>4, <2>1, GateMoves
<1>5. CASE /\ ledger' = Gate!Recorded(c)
           /\ approved' = {a \in approved : a[1] # "ours"} \cup {<<"ours", c.ruled>>}
           /\ call' = [call EXCEPT ![p].sound = TRUE, ![p].pc = first]
  <2>. DEFINE d == [c EXCEPT !.sound = TRUE, !.pc = first]
  <2>1. d \in Gate!Call /\ call' = [call EXCEPT ![p] = d] /\ call'[p] = d
    BY <1>1, <1>2, <1>3, <1>5 DEF Gate!Call, GateIInv, Gate!TypeOK
  <2>2. /\ d.pc = first /\ d.kind = c.kind /\ d.boots = c.boots /\ d.cfg = c.cfg /\ d.ran = {}
        /\ d.sound = TRUE /\ d.ruled = c.cfg
    BY <1>1 DEF Gate!Call
  <2>3. /\ ledger' \in [Gate!Origins -> Gate!Files]
        /\ ledger'["ours"] = c.ruled /\ ledger'["theirs"] = ledger["theirs"]
    BY <1>1, <1>5 DEF Gate!Recorded, Gate!Call, Gate!Origins
  <2>4. \A q \in Callers : GateCall(q)'
    <3>1. GateCall(p)'
      BY <1>1, <1>2, <1>3, <2>1, <2>2 DEF GateCall, OnItsWay, RuledOn
    <3>. QED BY <1>1, <2>1, <2>3, <3>1, GateOthers
  <2>5. Gate!LedgerIsTheUsers'
    BY <1>5, <2>3 DEF GateIInv, Gate!GateHolds, Gate!LedgerIsTheUsers, Gate!Origins
  <2>6. Gate!RunsOnlyApproved'
    BY <2>1, <2>2 DEF GateIInv, Gate!TypeOK, Gate!GateHolds, Gate!RunsOnlyApproved
  <2>7. approved' \subseteq Gate!Origins \X Configs
    <3>1. c.ruled \in Configs
      BY <1>1 DEF Gate!Call, Gate!Files
    <3>. QED BY <1>5, <3>1 DEF GateIInv, Gate!TypeOK, Gate!Origins
  <2>. QED BY <1>1, <2>1, <2>3, <2>4, <2>5, <2>6, <2>7 DEF GateIInv, Gate!TypeOK, Gate!GateHolds
<1>. QED BY <1>4, <1>5 DEF Gate!Answer
\* A phase runs what the call loaded, or nothing.
LEMMA GateRuns ==
  ASSUME GateIInv, NEW p \in Callers, call[p].pc \in Passed, RuledOn(call[p]),
         NEW nextPc \in Gate!Steps, nextPc \notin {"loaded", "prompting"},
         OnItsWay([call[p] EXCEPT !.pc = nextPc]),
         NEW runs \in SUBSET {call[p].cfg}, runs # {} => Gate!AsksGate(call[p]),
         call' = [call EXCEPT ![p].ran = @ \cup runs, ![p].pc = nextPc],
         UNCHANGED <<file, ledger, approved, edits>>
  PROVE  GateIInv'
<1>. DEFINE c == [call[p] EXCEPT !.ran = @ \cup runs, !.pc = nextPc]
<1>1. call[p] \in Gate!Call
  BY DEF GateIInv, Gate!TypeOK
<1>2. c \in Gate!Call /\ call' = [call EXCEPT ![p] = c]
  BY <1>1 DEF Gate!Call, GateIInv, Gate!TypeOK
<1>3. /\ c.pc = nextPc /\ c.kind = call[p].kind /\ c.boots = call[p].boots /\ c.cfg = call[p].cfg
      /\ c.ran = call[p].ran \cup runs /\ c.sound = call[p].sound /\ c.ruled = call[p].ruled
  BY <1>1 DEF Gate!Call
<1>4. call'[p] = c
  BY <1>2 DEF GateIInv, Gate!TypeOK
<1>5. \A d \in c.ran : c.sound /\ c.ruled = d
  BY <1>3 DEF GateIInv, Gate!GateHolds, Gate!RunsOnlyApproved, RuledOn
<1>6. OnItsWay(c)
  BY <1>1, <1>3 DEF OnItsWay, Gate!Call
<1>7. RuledOn(c)
  BY <1>3 DEF RuledOn, Gate!AsksGate
<1>8. GateCall(p)'
  BY <1>3, <1>4, <1>6, <1>7 DEF GateCall
<1>. QED BY <1>2, <1>5, <1>8, GateKeeps

LEMMA GatePhases ==
  ASSUME GateIInv, NEW p \in Callers,
         Gate!PreCreate(p) \/ Gate!PreBootstrap(p) \/ Gate!PostBootstrap(p) \/ Gate!PostCreate(p)
  PROVE  GateIInv'
<1>1. call[p] \in Gate!Call /\ GateCall(p) /\ OnItsWay(call[p])
  BY DEF GateIInv, Gate!TypeOK, GateCall
<1>2. ASSUME NEW this \in Passed, NEW steps, NEW then \in Gate!Steps, then \notin {"loaded", "prompting"},
             Gate!Phase(p, this, steps, then),
             OnItsWay([call[p] EXCEPT !.pc = then]),
             call[p].pc = this /\ call[p].cfg \in steps => Gate!AsksGate(call[p])
      PROVE  GateIInv'
  <2>1. /\ call[p].pc = this /\ RuledOn(call[p])
        /\ UNCHANGED <<file, ledger, approved, edits>>
    BY <1>1, <1>2 DEF Gate!Phase, GateCall
  <2>2. "done" \in Gate!Steps /\ OnItsWay([call[p] EXCEPT !.pc = "done"])
    BY <1>1 DEF Gate!Steps, OnItsWay, Gate!Call
  <2>3. CASE Gate!To(p, then)
    BY <1>2, <2>1, <2>3, GateMoves
  <2>4. ASSUME NEW end \in {then, "done"}, call[p].cfg \in steps,
               call' = [call EXCEPT ![p].ran = @ \cup {call[p].cfg}, ![p].pc = end]
        PROVE  GateIInv'
    <3>1. end \in Gate!Steps /\ end \notin {"loaded", "prompting"} /\ OnItsWay([call[p] EXCEPT !.pc = end])
      BY <1>2, <2>2
    <3>. DEFINE runs == {call[p].cfg}
    <3>2. call' = [call EXCEPT ![p].ran = @ \cup runs, ![p].pc = end]
      BY <2>4
    <3>. HIDE DEF runs
    <3>3. runs \in SUBSET {call[p].cfg} /\ Gate!AsksGate(call[p])
      BY <1>2, <2>1, <2>4 DEF runs
    <3>. QED BY <1>2, <2>1, <3>1, <3>2, <3>3, GateRuns
  <2>. QED BY <1>2, <2>3, <2>4 DEF Gate!Phase
<1>3. CASE Gate!PreCreate(p)
  <2>1. "pre_create" \in Passed /\ "adding" \in Gate!Steps /\ OnItsWay([call[p] EXCEPT !.pc = "adding"])
    BY <1>1 DEF Passed, Gate!Steps, OnItsWay, Gate!Call
  <2>2. call[p].pc = "pre_create" /\ call[p].cfg \in Hooked => Gate!AsksGate(call[p])
    BY <1>1 DEF OnItsWay, Gate!AsksGate
  <2>. QED BY <1>2, <1>3, <2>1, <2>2 DEF Gate!PreCreate
<1>4. CASE Gate!PreBootstrap(p)
  <2>1. "pre_bootstrap" \in Passed /\ "bootstrap" \in Gate!Steps /\ call[p].pc = "pre_bootstrap"
    BY <1>4 DEF Passed, Gate!Steps, Gate!PreBootstrap, Gate!Phase
  <2>2. OnItsWay([call[p] EXCEPT !.pc = "bootstrap"]) /\ Gate!AsksGate(call[p])
    BY <1>1, <2>1 DEF OnItsWay, Gate!Call, Gate!AsksGate
  <2>. QED BY <1>2, <1>4, <2>1, <2>2 DEF Gate!PreBootstrap
<1>5. CASE Gate!PostBootstrap(p)
  <2>1. "post_bootstrap" \in Passed /\ call[p].pc = "post_bootstrap"
    BY <1>5 DEF Passed, Gate!PostBootstrap, Gate!Phase
  <2>. DEFINE then == IF call[p].kind = "bootstrap" THEN "done" ELSE "post_create"
  <2>2. then \in Gate!Steps /\ then \notin {"loaded", "prompting"}
    BY DEF Gate!Steps
  <2>3. OnItsWay([call[p] EXCEPT !.pc = then]) /\ Gate!AsksGate(call[p])
    BY <1>1, <2>1 DEF OnItsWay, Gate!Call, Gate!AsksGate
  <2>4. Gate!Phase(p, "post_bootstrap", Hooked, then)
    BY <1>5 DEF Gate!PostBootstrap
  <2>. HIDE DEF then
  <2>. QED BY <1>2, <2>1, <2>2, <2>3, <2>4
<1>6. CASE Gate!PostCreate(p)
  <2>1. "post_create" \in Passed /\ "done" \in Gate!Steps /\ call[p].pc = "post_create"
    BY <1>6 DEF Passed, Gate!Steps, Gate!PostCreate, Gate!Phase
  <2>. DEFINE steps == IF call[p].boots THEN Surface ELSE Hooked
  <2>2. OnItsWay([call[p] EXCEPT !.pc = "done"])
    BY <1>1 DEF OnItsWay, Gate!Call
  <2>3. call[p].cfg \in steps => Gate!AsksGate(call[p])
    BY <1>1, <2>1 DEF OnItsWay, Gate!AsksGate
  <2>4. Gate!Phase(p, "post_create", steps, "done")
    BY <1>6 DEF Gate!PostCreate
  <2>. HIDE DEF steps
  <2>. QED BY <1>2, <2>1, <2>2, <2>3, <2>4
<1>. QED BY <1>3, <1>4, <1>5, <1>6

LEMMA GateAddsAndBoots ==
  ASSUME GateIInv, NEW p \in Callers, Gate!Add(p) \/ Gate!Bootstrap(p)
  PROVE  GateIInv'
<1>1. call[p] \in Gate!Call /\ GateCall(p) /\ OnItsWay(call[p])
  BY DEF GateIInv, Gate!TypeOK, GateCall
<1>2. RuledOn(call[p]) /\ UNCHANGED <<file, ledger, approved, edits>> /\ call[p].pc \in Passed
  BY <1>1 DEF Gate!Add, Gate!Bootstrap, GateCall, Passed
<1>3. CASE Gate!Add(p)
  <2>. DEFINE c == call[p]
             then == CASE c.kind = "tui" -> "bootstrap"
                       [] c.kind # "tui" /\ c.boots -> "pre_bootstrap"
                       [] c.kind # "tui" /\ ~ c.boots ->
                             IF c.kind = "review" THEN "done" ELSE "post_create"
  <2>1. Gate!To(p, "done") \/ Gate!To(p, then)
    BY <1>3 DEF Gate!Add
  <2>2. OnItsWay([c EXCEPT !.pc = "done"]) /\ "done" \in Gate!Steps
    BY <1>1 DEF OnItsWay, Gate!Call, Gate!Steps
  <2>3. then \in {"bootstrap", "pre_bootstrap", "done", "post_create"} /\ OnItsWay([c EXCEPT !.pc = then])
    <3>1. CASE c.kind = "tui"
      <4>1. then = "bootstrap"
        BY <3>1
      <4>. QED BY <1>1, <3>1, <4>1 DEF OnItsWay, Gate!Call
    <3>2. CASE c.kind # "tui" /\ c.boots
      <4>1. then = "pre_bootstrap"
        BY <3>2
      <4>. QED BY <1>1, <3>2, <4>1 DEF OnItsWay, Gate!Call
    <3>3. CASE c.kind # "tui" /\ ~ c.boots
      <4>1. then = IF c.kind = "review" THEN "done" ELSE "post_create"
        BY <3>3
      <4>2. c.kind \in {"create", "review"}
        BY <1>1, <3>3 DEF OnItsWay, Gate!Call, Gate!Kinds
      <4>. HIDE DEF then
      <4>. QED BY <1>1, <3>3, <4>1, <4>2 DEF OnItsWay, Gate!Call
    <3>. QED BY <1>1, <3>1, <3>2, <3>3 DEF Gate!Call
  <2>. HIDE DEF then
  <2>4. then \in Gate!Steps
    BY <2>3 DEF Gate!Steps
  <2>. QED BY <1>2, <2>1, <2>2, <2>3, <2>4, GateMoves
<1>4. CASE Gate!Bootstrap(p)
  <2>. DEFINE runs == {call[p].cfg} \cap Surface
             then == IF call[p].kind = "tui" THEN "done" ELSE "post_bootstrap"
  <2>1. call[p].pc = "bootstrap" /\ call' = [call EXCEPT ![p].ran = @ \cup runs, ![p].pc = then]
    BY <1>4 DEF Gate!Bootstrap
  <2>2. then \in Gate!Steps /\ then \notin {"loaded", "prompting"} /\ OnItsWay([call[p] EXCEPT !.pc = then])
    BY <1>1, <2>1 DEF OnItsWay, Gate!Call, Gate!Steps
  <2>3. runs \in SUBSET {call[p].cfg} /\ Gate!AsksGate(call[p])
    BY <1>1, <2>1 DEF OnItsWay, Gate!AsksGate
  <2>. HIDE DEF runs, then
  <2>. QED BY <1>2, <2>1, <2>2, <2>3, GateRuns
<1>. QED BY <1>3, <1>4

\* Others edit while nothing waits to be ruled on, and use the ledger while nobody
\* is asked.
LEMMA GateOthersAct ==
  ASSUME GateIInv, "edit" \notin Windows, "ledger" \notin Windows,
         \/ \E f \in Gate!Files : Gate!Edit(f)
         \/ \E o \in Gate!Origins, c \in Configs : Gate!TrustAdd(o, c)
         \/ \E o \in Gate!Origins : Gate!TrustRevoke(o)
  PROVE  GateIInv'
<1>1. UNCHANGED call /\ edits' \in 0 .. MaxEdits
  BY BoundsAssumption DEF GateIInv, Gate!TypeOK, Gate!Edit, Gate!TrustAdd, Gate!TrustRevoke, Gate!Others
<1>2. Gate!RunsOnlyApproved'
  BY <1>1 DEF GateIInv, Gate!GateHolds, Gate!RunsOnlyApproved
<1>3. ASSUME NEW f \in Gate!Files, Gate!Edit(f) PROVE GateIInv'
  <2>1. \A p \in Callers : call[p].pc # "loaded"
    BY <1>3 DEF Gate!Edit, Gate!InWindow
  <2>2. \A p \in Callers : GateCall(p)'
    BY <1>1, <1>3, <2>1 DEF Gate!Edit, GateIInv, GateCall, RuledOn
  <2>. QED BY <1>1, <1>2, <1>3, <2>2
           DEF Gate!Edit, GateIInv, Gate!TypeOK, Gate!GateHolds, Gate!LedgerIsTheUsers
<1>4. ASSUME NEW o \in Gate!Origins, NEW c \in Configs, Gate!TrustAdd(o, c) PROVE GateIInv'
  <2>1. \A p \in Callers : call[p].pc # "prompting"
    BY <1>4 DEF Gate!TrustAdd, Gate!InWindow
  <2>2. \A p \in Callers : GateCall(p)'
    BY <1>1, <1>4, <2>1 DEF Gate!TrustAdd, GateIInv, GateCall, RuledOn
  <2>3. /\ ledger' = [ledger EXCEPT ![o] = c] /\ UNCHANGED file
        /\ approved' = {a \in approved : a[1] # o} \cup {<<o, c>>}
    BY <1>4 DEF Gate!TrustAdd
  <2>4. Gate!LedgerIsTheUsers'
    BY <2>3 DEF GateIInv, Gate!TypeOK, Gate!GateHolds, Gate!LedgerIsTheUsers
  <2>5. Gate!TypeOK'
    BY <1>1, <2>3 DEF GateIInv, Gate!TypeOK, Gate!Files
  <2>. QED BY <1>2, <2>2, <2>4, <2>5 DEF GateIInv, Gate!GateHolds
<1>5. ASSUME NEW o \in Gate!Origins, Gate!TrustRevoke(o) PROVE GateIInv'
  <2>1. \A p \in Callers : call[p].pc # "prompting"
    BY <1>5 DEF Gate!TrustRevoke, Gate!InWindow
  <2>2. \A p \in Callers : GateCall(p)'
    BY <1>1, <1>5, <2>1 DEF Gate!TrustRevoke, GateIInv, GateCall, RuledOn
  <2>3. /\ ledger' = [ledger EXCEPT ![o] = NoConfig] /\ UNCHANGED file
        /\ approved' = {a \in approved : a[1] # o}
    BY <1>5 DEF Gate!TrustRevoke
  <2>4. Gate!LedgerIsTheUsers'
    BY <2>3 DEF GateIInv, Gate!TypeOK, Gate!GateHolds, Gate!LedgerIsTheUsers
  <2>5. Gate!TypeOK'
    BY <1>1, <2>3 DEF GateIInv, Gate!TypeOK, Gate!Files
  <2>. QED BY <1>2, <2>2, <2>4, <2>5 DEF GateIInv, Gate!GateHolds
<1>. QED BY <1>3, <1>4, <1>5

LEMMA GateStep ==
  ASSUME "edit" \notin Windows, "ledger" \notin Windows, GateIInv, [Gate!Next]_trustVars
  PROVE  GateIInv'
<1>1. CASE UNCHANGED trustVars
  BY <1>1 DEF trustVars, GateIInv, Gate!TypeOK, Gate!GateHolds, Gate!RunsOnlyApproved,
              Gate!LedgerIsTheUsers, GateCall, RuledOn
<1>2. CASE Gate!Next
  BY <1>2, GateStarts, GateRules, GateAnswers, GatePhases, GateAddsAndBoots, GateOthersAct
     DEF Gate!Next
<1>. QED BY <1>1, <1>2

LEMMA BootstrapAlone ==
  ASSUME [CommandNext]_allvars, command = "bootstrap"
  PROVE  [Boot!BootNext]_bootVars /\ command' = command
BY DEF CommandNext, OnlyIn, allvars, bootVars

-----------------------------------------------------------------------------
(* The bootstrap.  What a guard said of a source is still so when the source is
   read, and a directory that was looked at is still the same.             *)

Unguarded(c) == ~ Boot!Denies(c.guards)

\* Inductive, while nobody comes between a guard and the copy, or between the
\* look at the directory and the write.
BootIInv ==
  /\ Boot!BootTypeOK /\ Boot!GuardedStaysOut
  /\ phase # "done" => at <= Len(copies)
  /\ phase \notin {"links", "check", "done"} => parent = "inside"
  /\ phase = "copy" /\ source[Boot!This.from] = "secret" => Unguarded(Boot!This)
  /\ phase = "write" /\ read = "secret" => Unguarded(Boot!This)

LEMMA BootInit == Boot!BootInit => BootIInv
<1>. SUFFICES ASSUME Boot!BootInit PROVE BootIInv
  OBVIOUS
<1>. USE DEF Boot!BootInit
<1>1. PICK n \in 1 .. MaxCopies : copies \in [1 .. n -> Copies]
  OBVIOUS
<1>2. n \in Nat
  OBVIOUS
<1>3. copies \in Seq(Copies) /\ Len(copies) = n
  BY <1>1, <1>2
<1>4. at \in 1 .. Len(copies) + 1 /\ at <= Len(copies)
  BY <1>2, <1>3
<1>5. writes \in 0 .. MaxWrites
  BY BoundsAssumption
<1>6. Boot!BootTypeOK
  BY <1>3, <1>4, <1>5 DEF Boot!BootTypeOK, Boot!Steps, Boot!Contents
<1>7. Boot!GuardedStaysOut
  BY DEF Boot!GuardedStaysOut
<1>. QED BY <1>4, <1>6, <1>7 DEF BootIInv

\* No secret comes in.
LEMMA StaysOut ==
  ASSUME Boot!GuardedStaysOut, UNCHANGED <<copies, outside>>,
         \A t \in Targets : there'[t] = "secret" => there[t] = "secret"
  PROVE  Boot!GuardedStaysOut'
<1>1. ASSUME NEW t \in Targets, there'[t] = "secret"
      PROVE  \E i \in 1 .. Len(copies) : copies[i].to = t /\ Unguarded(copies[i])
  BY <1>1 DEF Boot!GuardedStaysOut, Unguarded
<1>2. copies' = copies /\ outside' = {}
  BY DEF Boot!GuardedStaysOut
<1>. QED BY <1>1, <1>2 DEF Boot!GuardedStaysOut, Unguarded

\* The copy under way, as long as there is one.
LEMMA ThisIsACopy ==
  ASSUME BootIInv, phase \notin {"links", "done"}
  PROVE  /\ at \in 1 .. Len(copies) /\ Len(copies) \in Nat
         /\ Boot!This \in Copies /\ Boot!This.from \in Targets /\ Boot!This.to \in Targets
         /\ at = Len(copies) \/ at + 1 \in 1 .. Len(copies)
<1>1. at \in 1 .. Len(copies) /\ Len(copies) \in Nat
  BY DEF BootIInv, Boot!BootTypeOK
<1>2. Boot!This \in Copies
  BY <1>1 DEF BootIInv, Boot!BootTypeOK, Boot!This
<1>. QED BY <1>1, <1>2, CopiesAssumption

\* The line of the report, and the next copy.
LEMMA NextCopyHolds ==
  ASSUME BootIInv, phase \notin {"links", "done"}, Boot!NextCopy,
         Boot!GuardedStaysOut', UNCHANGED writes,
         source' \in [Targets -> Boot!Sources],
         there' \in [Targets -> Boot!Contents \cup {"none", "link", "theirs"}],
         outside' \subseteq Targets, parent' \in {"inside", "outside"}
  PROVE  BootIInv'
<1>1. at' = at + 1 /\ read' = "none" /\ copies' = copies /\ phase' \in {"done", "check"}
      /\ (at # Len(copies) => phase' = "check") /\ (at = Len(copies) => phase' = "done")
  BY DEF Boot!NextCopy
<1>2. at' \in 1 .. Len(copies) + 1 /\ (phase' # "done" => at' <= Len(copies))
  BY <1>1, ThisIsACopy
<1>3. Boot!BootTypeOK'
  BY <1>1, <1>2 DEF BootIInv, Boot!BootTypeOK, Boot!Steps
<1>. QED BY <1>1, <1>2, <1>3 DEF BootIInv

LEMMA UntrippedIsUnguarded ==
  ASSUME NEW c \in Copies, ~ Boot!Trips(c.guards, "secret")
  PROVE  Unguarded(c)
<1>1. Len(c.guards) \in Nat
  BY CopiesAssumption
<1>2. SUFFICES ASSUME NEW i \in 1 .. Len(c.guards), c.guards[i] = "known",
                      \A j \in 1 .. i - 1 : c.guards[j] # "undefined"
               PROVE  FALSE
  BY DEF Unguarded, Boot!Denies
<1>3. \A k \in 1 .. i : c.guards[k] # "undefined"
  BY <1>1, <1>2
<1>. QED BY <1>2, <1>3 DEF Boot!Trips

LEMMA BootReads ==
  ASSUME BootIInv, \/ Boot!CheckTarget \/ Boot!CheckSource \/ Boot!CheckGuards
                   \/ Boot!SeedExample \/ Boot!ReadSource
  PROVE  BootIInv'
<1>1. /\ phase \notin {"links", "done"} /\ phase \in Boot!Steps
      /\ UNCHANGED <<source, there, outside, parent, writes>>
      /\ source \in [Targets -> Boot!Sources]
  BY DEF Boot!CheckTarget, Boot!CheckSource, Boot!CheckGuards, Boot!SeedExample, Boot!ReadSource, Boot!Steps,
         BootIInv, Boot!BootTypeOK
<1>2. CASE Boot!NextCopy
  <2>1. Boot!GuardedStaysOut'
    BY <1>1, <1>2 DEF BootIInv, Boot!GuardedStaysOut, Boot!NextCopy
  <2>. QED BY <1>1, <1>2, <2>1, NextCopyHolds DEF BootIInv, Boot!BootTypeOK
<1>3. ASSUME UNCHANGED <<copies, at>>, phase' \in Boot!Steps \ {"links", "done"},
             read' \in Boot!Contents \cup {"none"}, phase' # "check" => parent = "inside",
             phase' = "copy" /\ source[Boot!This.from] = "secret" => Unguarded(Boot!This),
             phase' = "write" /\ read' = "secret" => Unguarded(Boot!This)
      PROVE  BootIInv'
  <2>1. Boot!This' = Boot!This
    BY <1>3 DEF Boot!This
  <2>2. Boot!GuardedStaysOut'
    BY <1>1, <1>3 DEF BootIInv, Boot!GuardedStaysOut
  <2>3. Boot!BootTypeOK'
    BY <1>1, <1>3 DEF BootIInv, Boot!BootTypeOK
  <2>4. at' <= Len(copies')
    BY <1>1, <1>3, ThisIsACopy
  <2>. QED BY <1>1, <1>3, <2>1, <2>2, <2>3, <2>4 DEF BootIInv
<1>4. read \in Boot!Contents \cup {"none"} /\ (phase # "check" => parent = "inside")
      /\ Boot!This \in Copies /\ Boot!This.from \in Targets
  BY <1>1, ThisIsACopy DEF BootIInv, Boot!BootTypeOK
<1>. USE DEF Boot!Steps, Boot!Contents
<1>5. CASE Boot!CheckTarget
  BY <1>2, <1>3, <1>4, <1>5 DEF Boot!CheckTarget, Boot!Go, BootIInv, Boot!BootTypeOK
<1>6. CASE Boot!CheckSource
  BY <1>2, <1>3, <1>4, <1>6 DEF Boot!CheckSource, Boot!Go
<1>7. CASE Boot!CheckGuards
  BY <1>2, <1>3, <1>4, <1>7, UntrippedIsUnguarded DEF Boot!CheckGuards, Boot!Go
<1>8. CASE Boot!SeedExample
  BY <1>2, <1>3, <1>4, <1>8 DEF Boot!SeedExample
<1>9. CASE Boot!ReadSource
  <2>1. CASE source[Boot!This.from] = "none"
    BY <1>2, <1>9, <2>1 DEF Boot!ReadSource
  <2>2. CASE source[Boot!This.from] # "none"
    <3>1. phase = "copy" /\ phase' = "write" /\ read' = source[Boot!This.from] /\ UNCHANGED <<copies, at>>
      BY <1>9, <2>2 DEF Boot!ReadSource
    <3>2. source[Boot!This.from] \in {"clean", "secret", "opaque"}
      BY <1>1, <1>4, <2>2 DEF Boot!Sources
    <3>3. read' = "secret" => Unguarded(Boot!This)
      BY <3>1 DEF BootIInv
    <3>. QED BY <1>3, <1>4, <3>1, <3>2, <3>3
  <2>. QED BY <2>1, <2>2
<1>. QED BY <1>5, <1>6, <1>7, <1>8, <1>9

LEMMA BootWrites == ASSUME BootIInv, Boot!Write PROVE BootIInv'
<1>1. phase = "write" /\ parent = "inside" /\ Boot!NextCopy /\ UNCHANGED <<source, parent, writes, outside>>
      /\ there' = IF Boot!Creates(Boot!This.to) THEN [there EXCEPT ![Boot!This.to] = read] ELSE there
  BY DEF BootIInv, Boot!Write
<1>2. /\ Boot!This.to \in Targets /\ at \in 1 .. Len(copies) /\ copies' = copies
  BY <1>1, ThisIsACopy DEF Boot!NextCopy
<1>3. there' \in [Targets -> Boot!Contents \cup {"none", "link", "theirs"}]
  BY <1>1, <1>2 DEF BootIInv, Boot!BootTypeOK
<1>4. ASSUME NEW t \in Targets, there'[t] = "secret"
      PROVE  \E i \in 1 .. Len(copies) : copies[i].to = t /\ Unguarded(copies[i])
  <2>1. CASE there[t] = "secret"
    BY <2>1 DEF BootIInv, Boot!GuardedStaysOut, Unguarded
  <2>2. CASE there[t] # "secret"
    <3>1. t = Boot!This.to /\ read = "secret"
      BY <1>1, <1>2, <1>4, <2>2 DEF BootIInv, Boot!BootTypeOK
    <3>. QED BY <1>1, <1>2, <3>1 DEF BootIInv, Boot!This
  <2>. QED BY <2>1, <2>2
<1>5. Boot!GuardedStaysOut'
  BY <1>1, <1>2, <1>4 DEF BootIInv, Boot!GuardedStaysOut, Unguarded
<1>. QED BY <1>1, <1>3, <1>5, NextCopyHolds DEF BootIInv, Boot!BootTypeOK

LEMMA BootOthers ==
  ASSUME BootIInv, "source" \notin Windows, "parent" \notin Windows,
         \/ \E t \in Targets : Boot!Appears(t) \/ Boot!EditSource(t)
         \/ Boot!Redirect
  PROVE  BootIInv'
<1>1. /\ UNCHANGED <<copies, at, phase, read, outside>> /\ writes' \in 0 .. MaxWrites
      /\ Boot!This' = Boot!This
  BY BoundsAssumption DEF Boot!Appears, Boot!EditSource, Boot!Redirect, Boot!OthersWrite, Boot!boot,
                          BootIInv, Boot!BootTypeOK, Boot!This
<1>2. ASSUME NEW t \in Targets, Boot!Appears(t) PROVE BootIInv'
  <2>1. /\ UNCHANGED <<source, parent>>
        /\ there' \in [Targets -> Boot!Contents \cup {"none", "link", "theirs"}]
        /\ \A u \in Targets : there'[u] = "secret" => there[u] = "secret"
    BY <1>2 DEF Boot!Appears, BootIInv, Boot!BootTypeOK
  <2>2. Boot!GuardedStaysOut'
    BY <1>1, <2>1, StaysOut DEF BootIInv
  <2>3. Boot!BootTypeOK'
    BY <1>1, <2>1 DEF BootIInv, Boot!BootTypeOK
  <2>. QED BY <1>1, <2>1, <2>2, <2>3 DEF BootIInv
<1>3. ASSUME NEW t \in Targets, Boot!EditSource(t) PROVE BootIInv'
  <2>1. /\ UNCHANGED <<there, parent>> /\ phase # "copy"
        /\ source' \in [Targets -> Boot!Sources]
    BY <1>3 DEF Boot!EditSource, BootIInv, Boot!BootTypeOK
  <2>2. Boot!GuardedStaysOut'
    BY <1>1, <2>1, StaysOut DEF BootIInv
  <2>3. Boot!BootTypeOK'
    BY <1>1, <2>1 DEF BootIInv, Boot!BootTypeOK
  <2>. QED BY <1>1, <2>1, <2>2, <2>3 DEF BootIInv
<1>4. CASE Boot!Redirect
  <2>1. /\ UNCHANGED <<there, source>> /\ phase \in {"links", "check", "done"}
        /\ parent' = "outside"
    BY <1>4 DEF Boot!Redirect
  <2>2. Boot!GuardedStaysOut'
    BY <1>1, <2>1, StaysOut DEF BootIInv
  <2>3. Boot!BootTypeOK'
    BY <1>1, <2>1 DEF BootIInv, Boot!BootTypeOK
  <2>. QED BY <1>1, <2>1, <2>2, <2>3 DEF BootIInv
<1>. QED BY <1>2, <1>3, <1>4

LEMMA BootStep ==
  ASSUME "source" \notin Windows, "parent" \notin Windows, BootIInv, [Boot!BootNext]_bootVars
  PROVE  BootIInv'
<1>1. CASE UNCHANGED bootVars
  <2>1. UNCHANGED <<source, there, outside, parent, copies, at, phase, read, writes>>
    BY <1>1 DEF bootVars
  <2>2. Boot!GuardedStaysOut'
    BY <2>1, StaysOut DEF BootIInv
  <2>3. Boot!BootTypeOK'
    BY <2>1 DEF BootIInv, Boot!BootTypeOK
  <2>4. Boot!This' = Boot!This
    BY <2>1 DEF Boot!This
  <2>. QED BY <2>1, <2>2, <2>3, <2>4 DEF BootIInv
<1>2. ASSUME NEW links \in SUBSET Targets, Boot!RemoveLinks(links) PROVE BootIInv'
  <2>1. /\ phase' = "check" /\ UNCHANGED <<copies, at, read, source, outside, parent, writes>>
        /\ there' \in [Targets -> Boot!Contents \cup {"none", "link", "theirs"}]
        /\ \A u \in Targets : there'[u] = "secret" => there[u] = "secret"
    BY <1>2 DEF Boot!RemoveLinks, Boot!Go, BootIInv, Boot!BootTypeOK
  <2>2. at <= Len(copies)
    BY <1>2 DEF BootIInv, Boot!RemoveLinks
  <2>3. Boot!GuardedStaysOut'
    BY <2>1, StaysOut DEF BootIInv
  <2>4. Boot!BootTypeOK'
    BY <2>1 DEF BootIInv, Boot!BootTypeOK, Boot!Steps
  <2>. QED BY <2>1, <2>2, <2>3, <2>4 DEF BootIInv
<1>. QED BY <1>1, <1>2, BootReads, BootWrites, BootOthers DEF Boot!BootNext

Stays ==
  \A t \in Targets : there[t] # "none" =>
     there'[t] \in {there[t]} \cup (IF phase = "links" /\ there[t] = "link" THEN {"none"} ELSE {})

LEMMA BootStays ==
  ASSUME DOMAIN there = Targets, [Boot!BootNext]_bootVars
  PROVE  Stays /\ DOMAIN there' = Targets
<1>1. CASE UNCHANGED there
  BY <1>1 DEF Stays
<1>2. ASSUME NEW links \in SUBSET Targets, Boot!RemoveLinks(links) PROVE Stays /\ DOMAIN there' = Targets
  BY <1>2 DEF Boot!RemoveLinks, Stays
<1>3. CASE Boot!Write
  <2>1. CASE there' = [there EXCEPT ![Boot!This.to] = read] /\ there[Boot!This.to] = "none"
    BY <2>1 DEF Stays
  <2>. QED BY <1>1, <1>3, <2>1 DEF Boot!Write, Boot!Creates
<1>4. ASSUME NEW t \in Targets, Boot!Appears(t) PROVE Stays /\ DOMAIN there' = Targets
  BY <1>4 DEF Boot!Appears, Stays
<1>. QED BY <1>1, <1>2, <1>3, <1>4 DEF Boot!BootNext, bootVars, Boot!CheckTarget, Boot!CheckSource,
            Boot!CheckGuards, Boot!SeedExample, Boot!ReadSource, Boot!EditSource, Boot!Redirect

LEMMA CreateAlone ==
  ASSUME [CommandNext]_allvars, command = "create"
  PROVE  [Create!Next]_createVars /\ command' = command
BY DEF CommandNext, OnlyIn, allvars, createVars

-----------------------------------------------------------------------------
(* Creating: first that no checkout is stranded.                           *)

Own(n) == head[n] \in {n, "none"}

\* A branch that is being deleted is checked out nowhere, and stays so while nobody
\* checks it out between the question and the deletion.
CreateIInv ==
  /\ Create!TypeOK /\ Create!NoCheckoutIsStranded
  /\ \A n \in NewNames : Own(n)
  /\ \A p \in Creators : job[p].pc = "deleting" => ~ Create!CheckedOut(job[p].name)

LEMMA NamesAreNames ==
  /\ "main" \notin NewNames /\ "base" \notin NewNames /\ "none" \notin NewNames
  /\ NoTip \notin Nat
BY CreateAssumption

LEMMA CreateInit == Create!Init => CreateIInv
<1>. SUFFICES ASSUME Create!Init PROVE CreateIInv
  OBVIOUS
<1>. USE NamesAreNames DEF Create!Init, Create!Checkouts
<1>1. \A n \in NewNames : Create!Idle(n) \in Create!Job /\ Create!Idle(n).pc = "idle"
  BY DEF Create!Idle, Create!Job, Create!Steps
<1>2. job \in [Creators -> Create!Job] /\ \A p \in Creators : job[p].pc = "idle"
  BY <1>1
<1>3. Create!TypeOK
  BY <1>2 DEF Create!TypeOK, Create!Tips
<1>4. Create!NoCheckoutIsStranded
  BY DEF Create!NoCheckoutIsStranded
<1>. QED BY <1>2, <1>3, <1>4 DEF CreateIInv, Own

Creates(p) ==
  \/ Create!Start(p) \/ Create!Ask(p) \/ Create!FetchFails(p) \/ Create!FetchHead(p)
  \/ Create!Refuse(p) \/ Create!FindBranch(p) \/ Create!MakeBranch(p) \/ Create!Attach(p)
  \/ Create!AttachFails(p) \/ Create!Unwind(p) \/ Create!DeleteBranch(p) \/ Create!Unstamp(p)
  \/ Create!DropFetched(p)

LEMMA JobTo ==
  ASSUME job \in [Creators -> Create!Job], NEW p \in Creators, NEW s \in Create!Steps, Create!To(p, s)
  PROVE  /\ job' \in [Creators -> Create!Job] /\ \A q \in Creators : q # p => job'[q] = job[q]
         /\ job'[p] = [job[p] EXCEPT !.pc = s]
         /\ job'[p].name = job[p].name /\ job'[p].pc = s
<1>. DEFINE j == [job[p] EXCEPT !.pc = s]
<1>1. job[p] \in Create!Job
  OBVIOUS
<1>2. j \in Create!Job
  BY <1>1 DEF Create!Job
<1>3. job' = [job EXCEPT ![p] = j]
  BY DEF Create!To
<1>. QED BY <1>1, <1>2, <1>3 DEF Create!Job

LEMMA JobEnds ==
  ASSUME job \in [Creators -> Create!Job], NEW p \in Creators,
         NEW r \in {"none", "created", "refused", "exists", "failed"}, Create!Ends(p, r)
  PROVE  /\ job' \in [Creators -> Create!Job] /\ \A q \in Creators : q # p => job'[q] = job[q]
         /\ job'[p] = [job[p] EXCEPT !.pc = "done", !.result = r]
         /\ job'[p].name = job[p].name /\ job'[p].pc = "done"
<1>. DEFINE j == [job[p] EXCEPT !.pc = "done", !.result = r]
<1>1. job[p] \in Create!Job
  OBVIOUS
<1>2. j \in Create!Job
  BY <1>1 DEF Create!Job, Create!Steps
<1>3. job' = [job EXCEPT ![p] = j]
  BY DEF Create!Ends
<1>. QED BY <1>1, <1>2, <1>3 DEF Create!Job

LEMMA JobBecomes ==
  ASSUME job \in [Creators -> Create!Job], NEW p \in Creators, NEW j \in Create!Job,
         job' = [job EXCEPT ![p] = j]
  PROVE  /\ job' \in [Creators -> Create!Job] /\ \A q \in Creators : q # p => job'[q] = job[q]
         /\ job'[p] = j
OBVIOUS

\* What a step of a process does to the processes.
LEMMA JobMoves ==
  ASSUME Create!TypeOK, NEW p \in Creators, Creates(p)
  PROVE  /\ job' \in [Creators -> Create!Job] /\ \A q \in Creators : q # p => job'[q] = job[q]
         /\ job'[p].name = job[p].name
         /\ job'[p].pc = "deleting" => /\ job[p].pc = "unwinding" /\ UNCHANGED Create!refs
                                       /\ ~ Create!CheckedOut(job[p].name)
<1>. USE DEF Create!Steps
<1>1. job \in [Creators -> Create!Job] /\ job[p] \in Create!Job /\ base \in Nat /\ commits \in Nat
  BY DEF Create!TypeOK
<1>2. ASSUME NEW s \in Create!Steps \ {"deleting"}, Create!To(p, s)
      PROVE  /\ job' \in [Creators -> Create!Job] /\ \A q \in Creators : q # p => job'[q] = job[q]
             /\ job'[p].name = job[p].name /\ job'[p].pc # "deleting"
  BY Zenon, <1>1, <1>2, JobTo
<1>3. ASSUME NEW r \in {"none", "created", "refused", "exists", "failed"}, Create!Ends(p, r)
      PROVE  /\ job' \in [Creators -> Create!Job] /\ \A q \in Creators : q # p => job'[q] = job[q]
             /\ job'[p].name = job[p].name /\ job'[p].pc # "deleting"
  BY Zenon, <1>1, <1>3, JobEnds
<1>4. CASE Create!Start(p)
  <2>1. PICK call_ \in {"create", "review", "tui"}, reuses \in BOOLEAN :
          job' = [job EXCEPT ![p].call = call_, ![p].reuses = reuses,
                              ![p].pc = IF call_ = "review" THEN "fetching" ELSE "asked"]
    BY Zenon, <1>4 DEF Create!Start
  <2>. DEFINE j == [job[p] EXCEPT !.call = call_, !.reuses = reuses,
                                  !.pc = IF call_ = "review" THEN "fetching" ELSE "asked"]
  <2>2. j \in Create!Job
    BY <1>1 DEF Create!Job
  <2>3. job' = [job EXCEPT ![p] = j]
    BY <2>1
  <2>. QED BY <1>1, <2>2, <2>3 DEF Create!Job
<1>5. CASE Create!FetchHead(p)
  <2>1. PICK c \in Nat : c = commits + 1
    BY <1>1
  <2>. DEFINE j == [job[p] EXCEPT !.made = TRUE, !.at = c, !.pc = "adding"]
  <2>2. j \in Create!Job
    BY <1>1, <2>1 DEF Create!Job
  <2>3. job' = [job EXCEPT ![p] = j]
    BY <1>5, <2>1 DEF Create!FetchHead
  <2>. QED BY <1>1, <2>2, <2>3 DEF Create!Job
<1>6. CASE Create!MakeBranch(p)
  <2>. DEFINE j == [job[p] EXCEPT !.made = TRUE, !.at = base, !.pc = "attaching"]
  <2>2. j \in Create!Job
    BY <1>1 DEF Create!Job
  <2>3. job' = [job EXCEPT ![p] = j]
    BY <1>6 DEF Create!MakeBranch
  <2>. QED BY <1>1, <2>2, <2>3 DEF Create!Job
<1>7. CASE Create!FindBranch(p)
  <2>. DEFINE j == [job[p] EXCEPT !.found = TRUE, !.pc = "attaching"]
  <2>2. j \in Create!Job
    BY <1>1 DEF Create!Job
  <2>3. job' = [job EXCEPT ![p] = j]
    BY <1>7 DEF Create!FindBranch
  <2>. QED BY <1>1, <2>2, <2>3 DEF Create!Job
<1>8. CASE Create!Unwind(p)
  <2>1. CASE Create!To(p, "deleting")
    <3>1. job[p].pc = "unwinding" /\ UNCHANGED Create!refs /\ ~ Create!CheckedOut(job[p].name)
      <4>1. CASE job[p].made /\ ~ Create!CheckedOut(job[p].name)
        BY <1>8, <4>1 DEF Create!Unwind
      <4>2. CASE ~ (job[p].made /\ ~ Create!CheckedOut(job[p].name))
        <5>1. Create!Ends(p, "failed")
          BY <1>8, <4>2 DEF Create!Unwind
        <5>. QED BY Zenon, <1>1, <2>1, <5>1, JobTo, JobEnds
      <4>. QED BY <4>1, <4>2
    <3>. QED BY <1>1, <2>1, <3>1, JobTo
  <2>. QED BY <1>3, <1>8, <2>1 DEF Create!Unwind
<1>9. CASE Create!Ask(p)
  BY <1>2, <1>3, <1>9 DEF Create!Ask
<1>10. CASE Create!FetchFails(p) \/ Create!Refuse(p)
  BY <1>2, <1>3, <1>10 DEF Create!FetchFails, Create!Refuse
<1>11. CASE Create!Attach(p) \/ Create!AttachFails(p)
  BY <1>2, <1>3, <1>11 DEF Create!Attach, Create!AttachFails, Create!AfterFailure
<1>12. CASE Create!DeleteBranch(p) \/ Create!Unstamp(p) \/ Create!DropFetched(p)
  BY <1>2, <1>3, <1>12 DEF Create!DeleteBranch, Create!Unstamp, Create!DropFetched
<1>. QED BY <1>4, <1>5, <1>6, <1>7, <1>8, <1>9, <1>10, <1>11, <1>12 DEF Creates

\* What is newly deleted is checked out nowhere.
DeletesFree ==
  \A q \in Creators : /\ job'[q].name = job[q].name
                      /\ job'[q].pc = "deleting" => \/ job[q].pc = "deleting"
                                                    \/ ~ Create!CheckedOut(job[q].name)

LEMMA MovesDeleteFree ==
  ASSUME Create!TypeOK, NEW p \in Creators, Creates(p)
  PROVE  DeletesFree
BY JobMoves DEF DeletesFree

LEMMA HeadsStay ==
  ASSUME CreateIInv, Create!TypeOK', UNCHANGED head, DeletesFree,
         \A n \in NewNames : Create!CheckedOut(n) /\ tip[n] # NoTip => tip'[n] # NoTip
  PROVE  CreateIInv'
<1>1. Create!NoCheckoutIsStranded'
  BY DEF CreateIInv, Create!NoCheckoutIsStranded, Create!CheckedOut, Create!Exists
<1>2. \A n \in NewNames : Own(n)'
  BY DEF CreateIInv, Own
<1>3. ASSUME NEW q \in Creators, job'[q].pc = "deleting"
      PROVE  \A d \in Create!Checkouts : head'[d] # job'[q].name
  BY <1>3 DEF CreateIInv, DeletesFree, Create!CheckedOut
<1>. QED BY <1>1, <1>2, <1>3 DEF CreateIInv, Create!CheckedOut

LEMMA HeadMoves ==
  ASSUME CreateIInv, Create!TypeOK', UNCHANGED tip, DeletesFree,
         NEW n \in NewNames, NEW c \in {"main", n}, head' = [head EXCEPT ![c] = n],
         tip[n] # NoTip,
         \A q \in Creators : job'[q].pc = "deleting" => job[q].pc = "deleting" /\ job[q].name # n
  PROVE  CreateIInv'
<1>1. head \in [Create!Checkouts -> NewNames \cup {"base", "none"}] /\ c \in Create!Checkouts
  BY DEF CreateIInv, Create!TypeOK, Create!Checkouts
<1>2. \A d \in Create!Checkouts : head'[d] = IF d = c THEN n ELSE head[d]
  BY <1>1
<1>3. Create!NoCheckoutIsStranded'
  BY <1>2 DEF CreateIInv, Create!NoCheckoutIsStranded, Create!Exists
<1>4. \A m \in NewNames : Own(m)'
  BY <1>1, <1>2, NamesAreNames DEF CreateIInv, Own, Create!Checkouts
<1>5. ASSUME NEW q \in Creators, job'[q].pc = "deleting"
      PROVE  \A d \in Create!Checkouts : head'[d] # job'[q].name
  BY <1>2, <1>5 DEF CreateIInv, DeletesFree, Create!CheckedOut
<1>. QED BY <1>3, <1>4, <1>5 DEF CreateIInv, Create!CheckedOut

LEMMA CreatorKeeps ==
  ASSUME "checkout" \notin Windows, CreateIInv, NEW p \in Creators, Creates(p)
  PROVE  CreateIInv'
<1>1. /\ Create!TypeOK /\ DeletesFree /\ job' \in [Creators -> Create!Job]
      /\ job[p] \in Create!Job /\ job[p].name \in NewNames
  BY JobMoves, MovesDeleteFree DEF CreateIInv, Create!TypeOK, Create!Job
<1>2. CASE UNCHANGED <<Create!refs, commits, others>>
  <2>1. UNCHANGED <<tip, base, head, disk, stamped, commits, others>>
    BY <1>2 DEF Create!refs
  <2>2. Create!TypeOK'
    BY <1>1, <2>1 DEF Create!TypeOK
  <2>. QED BY <1>1, <2>1, <2>2, HeadsStay
<1>3. CASE Create!FetchHead(p) \/ Create!MakeBranch(p)
  <2>1. PICK k \in Nat : tip' = [tip EXCEPT ![job[p].name] = k] /\ UNCHANGED <<base, head, disk, others>>
                         /\ commits' \in Nat /\ stamped' \subseteq NewNames
    <3>1. CASE Create!FetchHead(p)
      <4>1. PICK k \in Nat : k = commits + 1
        BY <1>1 DEF Create!TypeOK
      <4>. QED BY <1>1, <3>1, <4>1 DEF Create!FetchHead, Create!TypeOK
    <3>2. CASE Create!MakeBranch(p)
      BY <1>1, <3>2 DEF Create!MakeBranch, Create!TypeOK
    <3>. QED BY <1>3, <3>1, <3>2
  <2>2. Create!TypeOK'
    BY <1>1, <2>1 DEF Create!TypeOK, Create!Tips
  <2>3. \A n \in NewNames : tip[n] # NoTip => tip'[n] # NoTip
    BY <1>1, <2>1, NamesAreNames DEF Create!TypeOK
  <2>. QED BY <1>1, <2>1, <2>2, <2>3, HeadsStay
<1>4. CASE Create!Attach(p) \/ Create!AttachFails(p)
  <2>. DEFINE n == job[p].name
  <2>1. CASE UNCHANGED <<head, disk>>
    BY <1>2, <1>4, <2>1 DEF Create!Attach, Create!AttachFails, Create!refs
  <2>2. CASE ~ UNCHANGED <<head, disk>>
    <3>1. /\ head' = [head EXCEPT ![n] = n] /\ disk' \in {disk, disk \cup {n}}
          /\ UNCHANGED <<tip, base, stamped, commits, others>>
          /\ tip[n] # NoTip /\ \A q \in Creators : job[q].pc = "deleting" => job[q].name # n
      BY <1>4, <2>2 DEF Create!Attach, Create!AttachFails, Create!Exists, Create!NotWhileDeleting
    <3>2. Create!TypeOK'
      <4>1. head' \in [Create!Checkouts -> NewNames \cup {"base", "none"}]
        BY <1>1, <3>1 DEF Create!TypeOK
      <4>2. disk' \subseteq NewNames
        BY <1>1, <3>1 DEF Create!TypeOK
      <4>. QED BY <1>1, <3>1, <4>1, <4>2 DEF Create!TypeOK
    <3>3. \A q \in Creators : job'[q].pc = "deleting" => job[q].pc = "deleting"
      <4>1. job[p].pc = "attaching"
        BY <1>4 DEF Create!Attach, Create!AttachFails
      <4>. QED BY <1>1, <4>1, JobMoves
    <3>. QED BY <1>1, <3>1, <3>2, <3>3, HeadMoves
  <2>. QED BY <2>1, <2>2
<1>5. CASE Create!DeleteBranch(p) \/ Create!DropFetched(p)
  <2>. DEFINE n == job[p].name
  <2>1. /\ UNCHANGED <<base, head, disk, commits, others>>
        /\ stamped' \subseteq NewNames
        /\ tip' = tip \/ (tip' = [tip EXCEPT ![n] = NoTip] /\ ~ Create!CheckedOut(n))
    BY <1>1, <1>5 DEF Create!DeleteBranch, Create!DropFetched, Create!TypeOK, CreateIInv
  <2>2. Create!TypeOK'
    BY <1>1, <2>1 DEF Create!TypeOK, Create!Tips
  <2>3. \A m \in NewNames : Create!CheckedOut(m) /\ tip[m] # NoTip => tip'[m] # NoTip
    BY <1>1, <2>1 DEF Create!TypeOK
  <2>. QED BY <1>1, <2>1, <2>2, <2>3, HeadsStay
<1>6. CASE Create!Unstamp(p)
  <2>1. UNCHANGED <<tip, base, head, disk, commits, others>> /\ stamped' \subseteq NewNames
    BY <1>1, <1>6 DEF Create!Unstamp, Create!TypeOK
  <2>2. Create!TypeOK'
    BY <1>1, <2>1 DEF Create!TypeOK
  <2>. QED BY <1>1, <2>1, <2>2, HeadsStay
<1>. QED BY Zenon, <1>2, <1>3, <1>4, <1>5, <1>6 DEF Creates, Create!Start, Create!Ask, Create!FetchFails,
                Create!Refuse, Create!FindBranch, Create!Unwind
LEMMA OthersKeep ==
  ASSUME "checkout" \notin Windows, CreateIInv,
         \/ \E c \in Create!Checkouts : Create!Commit(c)
         \/ \E n \in NewNames : Create!Switch(n) \/ Create!Move(n) \/ Create!Delete(n)
  PROVE  CreateIInv'
<1>1. /\ Create!TypeOK /\ job' = job /\ others' = others + 1 /\ others' \in Nat /\ commits + 1 \in Nat
      /\ DeletesFree
  BY DEF CreateIInv, Create!TypeOK, Create!Commit, Create!Switch, Create!Move, Create!Delete,
         Create!Others, DeletesFree
<1>2. ASSUME NEW c \in Create!Checkouts, Create!Commit(c) PROVE CreateIInv'
  <2>. DEFINE b == head[c]
  <2>1. b \in NewNames \cup {"base", "none"} /\ b # "none"
    BY <1>1, <1>2 DEF Create!Commit, Create!TypeOK
  <2>2. PICK k \in Nat : k = commits + 1
    BY <1>1
  <2>3. /\ UNCHANGED <<head, disk, stamped>> /\ commits' = k /\ base' \in {k, base}
        /\ tip' = IF b = "base" THEN tip ELSE [tip EXCEPT ![b] = k]
    BY <1>2, <2>2 DEF Create!Commit
  <2>4. Create!TypeOK'
    <3>1. tip' \in [NewNames -> Create!Tips]
      BY <1>1, <2>1, <2>3 DEF Create!TypeOK, Create!Tips
    <3>. QED BY <1>1, <2>3, <3>1 DEF Create!TypeOK
  <2>5. \A n \in NewNames : tip[n] # NoTip => tip'[n] # NoTip
    BY <1>1, <2>1, <2>3, NamesAreNames DEF Create!TypeOK
  <2>. QED BY <1>1, <2>3, <2>4, <2>5, HeadsStay
<1>3. ASSUME NEW n \in NewNames, Create!Switch(n) PROVE CreateIInv'
  <2>1. /\ head' = [head EXCEPT !["main"] = n] /\ UNCHANGED <<tip, disk, stamped, commits>>
        /\ tip[n] # NoTip /\ base' = tip[n]
        /\ \A q \in Creators : job[q].pc = "deleting" => job[q].name # n
    BY <1>3 DEF Create!Switch, Create!Exists, Create!NotWhileDeleting
  <2>2. Create!TypeOK'
    <3>1. head' \in [Create!Checkouts -> NewNames \cup {"base", "none"}]
      BY <1>1, <2>1 DEF Create!TypeOK
    <3>2. base' \in Nat
      BY <1>1, <2>1 DEF Create!TypeOK, Create!Tips
    <3>. QED BY <1>1, <2>1, <3>1, <3>2 DEF Create!TypeOK
  <2>. QED BY <1>1, <2>1, <2>2, HeadMoves
<1>4. ASSUME NEW n \in NewNames, Create!Move(n) \/ Create!Delete(n) PROVE CreateIInv'
  <2>1. PICK k \in Nat \cup {NoTip} :
          /\ tip' = [tip EXCEPT ![n] = k] /\ UNCHANGED <<base, head, disk>>
          /\ commits' \in Nat /\ stamped' \subseteq NewNames
    <3>1. CASE Create!Move(n)
      <4>1. PICK k \in Nat : k = commits + 1
        BY <1>1
      <4>. QED BY <1>1, <3>1, <4>1 DEF Create!Move, Create!TypeOK
    <3>2. CASE Create!Delete(n)
      BY <1>1, <3>2 DEF Create!Delete, Create!TypeOK
    <3>. QED BY <1>4, <3>1, <3>2
  <2>2. ~ Create!CheckedOut(n)
    BY <1>4 DEF Create!Move, Create!Delete, Create!Free
  <2>3. Create!TypeOK'
    <3>1. tip' \in [NewNames -> Create!Tips]
      BY <1>1, <2>1 DEF Create!TypeOK, Create!Tips
    <3>. QED BY <1>1, <2>1, <3>1 DEF Create!TypeOK
  <2>4. \A m \in NewNames : Create!CheckedOut(m) /\ tip[m] # NoTip => tip'[m] # NoTip
    BY <1>1, <2>1, <2>2 DEF Create!TypeOK
  <2>. QED BY <1>1, <2>1, <2>3, <2>4, HeadsStay
<1>. QED BY <1>2, <1>3, <1>4

LEMMA CreateStep ==
  ASSUME "checkout" \notin Windows, CreateIInv, [Create!Next]_createVars
  PROVE  CreateIInv'
<1>1. CASE UNCHANGED createVars
  <2>1. UNCHANGED <<tip, base, head, disk, stamped, job, commits, others>>
    BY <1>1 DEF createVars
  <2>2. Create!TypeOK' /\ DeletesFree
    BY <2>1 DEF CreateIInv, Create!TypeOK, DeletesFree
  <2>. QED BY <2>1, <2>2, HeadsStay
<1>. QED BY <1>1, CreatorKeeps, OthersKeep DEF Create!Next, Creates
-----------------------------------------------------------------------------
(* And that a rollback takes only what its call made.                      *)

\* A review that has fetched its branch, and has not attached it.
Held(j) == j.call = "review" /\ j.pc \in {"adding", "attaching", "dropping"}

JobSound(j) ==
  /\ j.pc \in {"idle", "asked", "fetching"} => ~ j.made
  /\ j.pc \in {"idle", "asked", "fetching", "adding"} => ~ j.found
  /\ j.pc = "adding" => (j.made <=> j.call = "review")
  /\ j.pc = "asked" => j.call # "review"
  /\ j.pc \in {"fetching", "dropping"} => j.call = "review"
  /\ j.pc = "deleting" => j.made
  /\ Held(j) => j.made
  /\ j.made /\ j.found => j.call = "review"

\* What a review has fetched is where it was put, or the worktree of its name has it
\* checked out; and no other call made a branch of that name where it is.
RollIInv ==
  /\ CreateIInv
  /\ base <= commits /\ \A n \in NewNames : tip[n] # NoTip => tip[n] <= commits
  /\ \A p \in Creators : JobSound(job[p]) /\ (job[p].made => job[p].at <= commits)
  /\ \A p \in Creators :
        Held(job[p]) => tip[job[p].name] = job[p].at \/ head[job[p].name] = job[p].name
  /\ \A p, q \in Creators :
        p # q /\ Held(job[p]) /\ job[q].name = job[p].name /\ job[q].made => job[q].at # job[p].at

LEMMA RollInit == Create!Init => RollIInv
<1>. SUFFICES ASSUME Create!Init PROVE RollIInv
  OBVIOUS
<1>1. \A n \in NewNames : LET j == Create!Idle(n) IN JobSound(j) /\ ~ j.made /\ ~ Held(j)
  BY DEF Create!Idle, JobSound, Held
<1>2. \A p \in Creators : JobSound(job[p]) /\ ~ job[p].made /\ ~ Held(job[p])
  BY <1>1 DEF Create!Init
<1>3. base <= commits /\ \A n \in NewNames : tip[n] # NoTip => tip[n] <= commits
  BY DEF Create!Init
<1>. QED BY <1>2, <1>3, CreateInit DEF RollIInv

\* A branch that is held exists.
LEMMA HeldExists ==
  ASSUME RollIInv, NEW p \in Creators, Held(job[p])
  PROVE  Create!Exists(job[p].name)
<1>1. job[p] \in Create!Job /\ job[p].name \in NewNames /\ job[p].at \in Nat
  BY DEF RollIInv, CreateIInv, Create!TypeOK, Create!Job
<1>2. CASE tip[job[p].name] = job[p].at
  BY <1>1, <1>2, NamesAreNames DEF Create!Exists
<1>3. CASE head[job[p].name] = job[p].name
  BY <1>1, <1>3 DEF RollIInv, CreateIInv, Create!NoCheckoutIsStranded, Create!Checkouts
<1>. QED BY <1>2, <1>3 DEF RollIInv

LEMMA MadeStays ==
  ASSUME Create!TypeOK, NEW p \in Creators, Creates(p), JobSound(job[p]),
         ~ Create!FetchHead(p), ~ Create!MakeBranch(p)
  PROVE  /\ job'[p].made = job[p].made /\ job'[p].at = job[p].at
         /\ JobSound(job'[p]) /\ (Held(job'[p]) => Held(job[p]))
<1>1. job \in [Creators -> Create!Job] /\ job[p] \in Create!Job
  BY DEF Create!TypeOK
<1>2. ASSUME NEW r \in {"none", "created", "refused", "exists", "failed"}, Create!Ends(p, r)
      PROVE  /\ job'[p].made = job[p].made /\ job'[p].at = job[p].at
             /\ JobSound(job'[p]) /\ ~ Held(job'[p])
  <2>1. job'[p] = [job[p] EXCEPT !.pc = "done", !.result = r]
    BY Zenon, <1>1, <1>2, JobEnds
  <2>. QED BY <1>1, <2>1 DEF JobSound, Held, Create!Job
<1>3. ASSUME NEW s \in Create!Steps, Create!To(p, s),
             s \in {"adding", "dropping", "unwinding", "deleting", "unstamping"},
             s = "adding" => job[p].pc = "asked",
             s = "dropping" => Held(job[p]),
             s = "unwinding" => job[p].call # "review",
             s = "deleting" => job[p].made
      PROVE  /\ job'[p].made = job[p].made /\ job'[p].at = job[p].at
             /\ JobSound(job'[p]) /\ (Held(job'[p]) => Held(job[p]))
  <2>1. job'[p] = [job[p] EXCEPT !.pc = s]
    BY <1>1, <1>3, JobTo
  <2>. QED BY <1>1, <1>3, <2>1 DEF JobSound, Held, Create!Job
<1>4. CASE Create!Start(p)
  <2>1. PICK call_ \in {"create", "review", "tui"}, reuses \in BOOLEAN :
          job' = [job EXCEPT ![p].call = call_, ![p].reuses = reuses,
                              ![p].pc = IF call_ = "review" THEN "fetching" ELSE "asked"]
    BY Zenon, <1>4 DEF Create!Start
  <2>. DEFINE j == [job[p] EXCEPT !.call = call_, !.reuses = reuses,
                                  !.pc = IF call_ = "review" THEN "fetching" ELSE "asked"]
  <2>2. job' = [job EXCEPT ![p] = j]
    BY <2>1
  <2>3. job'[p] = j
    BY <1>1, <2>2
  <2>4. job[p].pc = "idle"
    BY <1>4 DEF Create!Start
  <2>. QED BY <1>1, <2>3, <2>4 DEF Create!Job, JobSound, Held
<1>5. CASE Create!FindBranch(p)
  <2>. DEFINE j == [job[p] EXCEPT !.found = TRUE, !.pc = "attaching"]
  <2>1. job' = [job EXCEPT ![p] = j] /\ job[p].pc = "adding"
    BY <1>5 DEF Create!FindBranch
  <2>2. job'[p] = j
    BY <1>1, <2>1
  <2>. QED BY <1>1, <2>1, <2>2 DEF Create!Job, JobSound, Held
<1>. USE DEF Create!Steps
<1>6. CASE Create!Ask(p) \/ Create!FetchFails(p)
  BY <1>2, <1>3, <1>6 DEF Create!Ask, Create!FetchFails
<1>7. CASE Create!Refuse(p)
  BY <1>2, <1>3, <1>7 DEF Create!Refuse, Held
<1>8. CASE Create!Attach(p) \/ Create!AttachFails(p)
  BY <1>2, <1>3, <1>8 DEF Create!Attach, Create!AttachFails, Create!AfterFailure, Held
<1>9. CASE Create!Unwind(p)
  BY <1>2, <1>3, <1>9 DEF Create!Unwind
<1>10. CASE Create!DeleteBranch(p) \/ Create!Unstamp(p) \/ Create!DropFetched(p)
  BY <1>2, <1>3, <1>10 DEF Create!DeleteBranch, Create!Unstamp, Create!DropFetched
<1>. QED BY <1>4, <1>5, <1>6, <1>7, <1>8, <1>9, <1>10 DEF Creates
\* No process makes a branch, or comes to hold one.
JobsKeep ==
  \A q \in Creators : /\ job'[q].name = job[q].name
                      /\ job'[q].made = job[q].made /\ job'[q].at = job[q].at
                      /\ JobSound(job'[q]) /\ (Held(job'[q]) => Held(job[q]))

LEMMA RollKeeps ==
  ASSUME RollIInv, CreateIInv', JobsKeep, commits <= commits', base' <= commits',
         \A n \in NewNames : tip'[n] # NoTip => tip'[n] <= commits',
         \A q \in Creators : Held(job'[q]) =>
            LET n == job[q].name
            IN  \/ tip'[n] = tip[n] /\ (head[n] = n => head'[n] = n)
                \/ head'[n] = n
  PROVE  RollIInv'
<1>1. ASSUME NEW q \in Creators
      PROVE  /\ JobSound(job'[q]) /\ (job'[q].made => job'[q].at <= commits')
             /\ Held(job'[q]) => tip'[job'[q].name] = job'[q].at \/ head'[job'[q].name] = job'[q].name
  <2>1. job[q].at \in Nat /\ commits \in Nat /\ commits' \in Nat
    BY DEF RollIInv, CreateIInv, Create!TypeOK, Create!Job
  <2>2. job'[q].made => job'[q].at <= commits'
    BY <2>1 DEF RollIInv, JobsKeep
  <2>. QED BY <2>2 DEF RollIInv, JobsKeep
<1>2. \A p, q \in Creators :
        p # q /\ Held(job'[p]) /\ job'[q].name = job'[p].name /\ job'[q].made => job'[q].at # job'[p].at
  BY DEF RollIInv, JobsKeep
<1>. QED BY <1>1, <1>2 DEF RollIInv

\* A new branch: nobody holds one of its name.
LEMMA RollMakes ==
  ASSUME RollIInv, CreateIInv', NEW p \in Creators, NEW n \in NewNames, n = job[p].name,
         ~ Create!Exists(n), NEW k \in Nat, tip' = [tip EXCEPT ![n] = k], UNCHANGED <<base, head>>,
         commits <= commits', k <= commits',
         \A q \in Creators : q # p => job'[q] = job[q],
         job'[p].name = n, JobSound(job'[p]), job'[p].at = k,
         Held(job'[p]) => k = commits + 1
  PROVE  RollIInv'
<1>1. /\ commits \in Nat /\ commits' \in Nat /\ base \in Nat /\ tip \in [NewNames -> Nat \cup {NoTip}]
      /\ \A q \in Creators : job[q].at \in Nat
  BY DEF RollIInv, CreateIInv, Create!TypeOK, Create!Job, Create!Tips
<1>2. \A q \in Creators : Held(job[q]) => job[q].name # n
  BY HeldExists
<1>3. \A m \in NewNames : tip'[m] # NoTip => tip'[m] <= commits'
  BY <1>1 DEF RollIInv
<1>4. ASSUME NEW q \in Creators
      PROVE  /\ JobSound(job'[q]) /\ (job'[q].made => job'[q].at <= commits')
             /\ Held(job'[q]) => tip'[job'[q].name] = job'[q].at \/ head'[job'[q].name] = job'[q].name
  <2>1. CASE q = p
    BY <1>1, <2>1
  <2>2. CASE q # p
    <3>1. job'[q] = job[q]
      BY <2>2
    <3>2. job[q].made => job[q].at <= commits'
      BY <1>1 DEF RollIInv
    <3>. QED BY <1>1, <1>2, <3>1, <3>2 DEF RollIInv
  <2>. QED BY <2>1, <2>2
<1>5. ASSUME NEW q \in Creators, NEW r \in Creators, q # r, Held(job'[q]),
             job'[r].name = job'[q].name, job'[r].made
      PROVE  job'[r].at # job'[q].at
  <2>1. CASE q # p /\ r # p
    BY <1>5, <2>1 DEF RollIInv
  <2>2. CASE q = p
    BY <1>1, <1>5, <2>2 DEF RollIInv
  <2>3. CASE r = p
    BY <1>2, <1>5, <2>3
  <2>. QED BY <2>1, <2>2, <2>3
<1>6. base' <= commits'
  BY <1>1 DEF RollIInv
<1>. QED BY <1>3, <1>4, <1>5, <1>6 DEF RollIInv

LEMMA RollCreators ==
  ASSUME "checkout" \notin Windows, RollIInv, NEW p \in Creators, Creates(p)
  PROVE  RollIInv'
<1>1. /\ CreateIInv /\ CreateIInv' /\ Create!TypeOK /\ JobSound(job[p])
      /\ base \in Nat /\ commits \in Nat /\ tip \in [NewNames -> Nat \cup {NoTip}]
      /\ head \in [Create!Checkouts -> NewNames \cup {"base", "none"}]
      /\ job \in [Creators -> Create!Job] /\ job[p] \in Create!Job /\ job[p].name \in NewNames
      /\ \A q \in Creators : job[q].name \in NewNames /\ job[q].name \in Create!Checkouts
  BY CreatorKeeps DEF RollIInv, CreateIInv, Create!TypeOK, Create!Job, Create!Tips, Create!Checkouts
<1>2. \A q \in Creators : q # p => job'[q] = job[q]
  BY <1>1, JobMoves
<1>3. CASE Create!FetchHead(p)
  <2>1. PICK k \in Nat : k = commits + 1
    BY <1>1
  <2>. DEFINE j == [job[p] EXCEPT !.made = TRUE, !.at = k, !.pc = "adding"]
  <2>2. /\ job' = [job EXCEPT ![p] = j] /\ job[p].pc = "fetching" /\ UNCHANGED <<base, head>>
        /\ tip' = [tip EXCEPT ![job[p].name] = k] /\ commits' = k /\ ~ Create!Exists(job[p].name)
    BY <1>3, <2>1 DEF Create!FetchHead
  <2>3. job'[p] = j
    BY <1>1, <2>2
  <2>4. job'[p].name = job[p].name /\ job'[p].at = k /\ JobSound(job'[p])
    BY <1>1, <2>2, <2>3 DEF Create!Job, JobSound, Held
  <2>5. commits <= commits' /\ k <= commits'
    BY <1>1, <2>1, <2>2
  <2>. QED BY <1>1, <1>2, <2>1, <2>2, <2>4, <2>5, RollMakes
<1>4. CASE Create!MakeBranch(p)
  <2>. DEFINE j == [job[p] EXCEPT !.made = TRUE, !.at = base, !.pc = "attaching"]
  <2>1. /\ job' = [job EXCEPT ![p] = j] /\ job[p].pc = "adding" /\ UNCHANGED <<base, head, commits>>
        /\ tip' = [tip EXCEPT ![job[p].name] = base] /\ ~ Create!Exists(job[p].name)
    BY <1>4 DEF Create!MakeBranch
  <2>2. job'[p] = j
    BY <1>1, <2>1
  <2>3. job[p].call # "review"
    BY <2>1, HeldExists DEF Held
  <2>4. job'[p].name = job[p].name /\ job'[p].at = base /\ JobSound(job'[p]) /\ ~ Held(job'[p])
    BY <1>1, <2>1, <2>2, <2>3 DEF Create!Job, JobSound, Held
  <2>5. commits <= commits' /\ base <= commits'
    BY <1>1, <2>1 DEF RollIInv
  <2>. QED BY <1>1, <1>2, <2>1, <2>4, <2>5, RollMakes
<1>5. CASE ~ Create!FetchHead(p) /\ ~ Create!MakeBranch(p)
  <2>1. JobsKeep
    <3>1. /\ job'[p].made = job[p].made /\ job'[p].at = job[p].at
          /\ JobSound(job'[p]) /\ (Held(job'[p]) => Held(job[p]))
          /\ job'[p].name = job[p].name
      BY <1>1, <1>5, MadeStays, JobMoves
    <3>. QED BY <1>2, <3>1 DEF JobsKeep, RollIInv
  <2>2. /\ commits' = commits /\ base' = base
        /\ UNCHANGED tip \/ Create!DeleteBranch(p) \/ Create!DropFetched(p)
        /\ UNCHANGED head \/ (UNCHANGED tip /\ head' = [head EXCEPT ![job[p].name] = job[p].name])
    BY Zenon, <1>5 DEF Creates, Create!Start, Create!Ask, Create!FetchFails, Create!Refuse, Create!FindBranch,
            Create!Attach, Create!AttachFails, Create!Unwind, Create!Unstamp, Create!DeleteBranch,
            Create!DropFetched, Create!refs
  <2>3. CASE UNCHANGED tip
    <3>1. \A n \in NewNames : head[n] = n => head'[n] = n
      BY <1>1, <2>2 DEF Create!Checkouts
    <3>2. commits <= commits' /\ base' <= commits' /\ \A n \in NewNames : tip'[n] # NoTip => tip'[n] <= commits'
      BY <1>1, <2>2, <2>3 DEF RollIInv
    <3>3. \A q \in Creators : tip'[job[q].name] = tip[job[q].name]
      BY <2>3
    <3>. QED BY <1>1, <2>1, <3>1, <3>2, <3>3, RollKeeps
  <2>4. CASE (Create!DeleteBranch(p) \/ Create!DropFetched(p)) /\ ~ UNCHANGED tip
    <3>. DEFINE n == job[p].name
    <3>1. /\ tip' = [tip EXCEPT ![n] = NoTip] /\ UNCHANGED head /\ ~ Create!CheckedOut(n)
          /\ (job[p].made /\ tip[n] = job[p].at) \/ Held(job[p])
          /\ ~ Held(job'[p])
      <4>1. CASE Create!DeleteBranch(p)
        BY <1>1, <2>1, <2>4, <4>1 DEF Create!DeleteBranch, Create!StillOurs, CreateIInv, JobSound, JobsKeep, Held
      <4>2. CASE Create!DropFetched(p)
        <5>1. job'[p].pc = "done"
          BY Zenon, <1>1, <4>2, JobEnds DEF Create!DropFetched
        <5>. QED BY <1>1, <2>4, <4>2, <5>1 DEF Create!DropFetched, JobSound, Held
      <4>. QED BY <2>4, <4>1, <4>2
    <3>2. head[n] # n
      BY <1>1, <3>1 DEF Create!CheckedOut, Create!Checkouts
    <3>3. job[p].made /\ tip[n] = job[p].at
      BY <1>1, <3>1, <3>2 DEF RollIInv, JobSound
    <3>4. \A q \in Creators : Held(job'[q]) => job[q].name # n
      BY <1>1, <1>2, <3>1, <3>2, <3>3 DEF RollIInv
    <3>5. \A q \in Creators : Held(job'[q]) => tip'[job[q].name] = tip[job[q].name]
      BY <1>1, <3>1, <3>4
    <3>6. commits <= commits' /\ base' <= commits' /\ \A m \in NewNames : tip'[m] # NoTip => tip'[m] <= commits'
      BY <1>1, <2>2, <3>1 DEF RollIInv
    <3>. QED BY <1>1, <2>1, <3>1, <3>5, <3>6, RollKeeps
  <2>. QED BY <2>2, <2>3, <2>4
<1>. QED BY <1>3, <1>4, <1>5
LEMMA RollOthers ==
  ASSUME "checkout" \notin Windows, "move" \notin Windows, RollIInv,
         \/ \E c \in Create!Checkouts : Create!Commit(c)
         \/ \E n \in NewNames : Create!Switch(n) \/ Create!Move(n) \/ Create!Delete(n)
  PROVE  RollIInv'
<1>1. /\ CreateIInv /\ CreateIInv' /\ job' = job /\ JobsKeep
      /\ base \in Nat /\ commits \in Nat /\ tip \in [NewNames -> Nat \cup {NoTip}]
      /\ head \in [Create!Checkouts -> NewNames \cup {"base", "none"}]
      /\ \A q \in Creators : job[q].name \in NewNames /\ job[q].name \in Create!Checkouts
  BY OthersKeep DEF RollIInv, CreateIInv, Create!TypeOK, Create!Job, Create!Tips, Create!Checkouts,
         Create!Commit, Create!Switch, Create!Move, Create!Delete, Create!Others, JobsKeep
<1>2. \A q \in Creators : Held(job[q]) => Create!Fetched(job[q].name)
  BY DEF RollIInv, JobSound, Held, Create!Fetched
<1>3. ASSUME NEW c \in Create!Checkouts, Create!Commit(c) PROVE RollIInv'
  <2>. DEFINE b == head[c]
  <2>1. PICK k \in Nat : k = commits + 1
    BY <1>1
  <2>2. /\ UNCHANGED head /\ commits' = k /\ base' \in {k, base} /\ b # "none"
        /\ tip' = IF b = "base" THEN tip ELSE [tip EXCEPT ![b] = k]
        /\ c = "main" => ~ Create!Fetched(b)
    BY <1>3, <2>1 DEF Create!Commit
  <2>3. c # "main" => b = c
    BY <1>1, <2>2 DEF CreateIInv, Own, Create!Checkouts
  <2>4. ASSUME NEW q \in Creators, Held(job'[q])
        PROVE  LET n == job[q].name
               IN  \/ tip'[n] = tip[n] /\ (head[n] = n => head'[n] = n)
                   \/ head'[n] = n
    <3>1. CASE job[q].name # b
      BY <1>1, <2>2, <3>1
    <3>2. CASE job[q].name = b
      BY <1>1, <1>2, <2>2, <2>3, <2>4, <3>2
    <3>. QED BY <3>1, <3>2
  <2>5. \A m \in NewNames : tip'[m] # NoTip => tip'[m] <= commits'
    <3>1. b \in NewNames \cup {"base"}
      BY <1>1, <2>2
    <3>. QED BY <1>1, <2>1, <2>2, <3>1 DEF RollIInv
  <2>6. commits <= commits' /\ base' <= commits'
    BY <1>1, <2>1, <2>2 DEF RollIInv
  <2>. QED BY <1>1, <2>4, <2>5, <2>6, RollKeeps
<1>4. ASSUME NEW n \in NewNames, Create!Switch(n) PROVE RollIInv'
  <2>1. /\ head' = [head EXCEPT !["main"] = n] /\ UNCHANGED <<tip, commits>>
        /\ tip[n] # NoTip /\ base' = tip[n]
    BY <1>4 DEF Create!Switch, Create!Exists
  <2>2. \A m \in NewNames : head'[m] = head[m]
    BY <1>1, <2>1, NamesAreNames DEF Create!Checkouts
  <2>3. commits <= commits' /\ base' <= commits' /\ \A m \in NewNames : tip'[m] # NoTip => tip'[m] <= commits'
    BY <1>1, <2>1 DEF RollIInv
  <2>. QED BY <1>1, <2>1, <2>2, <2>3, RollKeeps
<1>5. ASSUME NEW n \in NewNames, Create!Move(n) \/ Create!Delete(n) PROVE RollIInv'
  <2>1. /\ ~ Create!Fetched(n) /\ UNCHANGED <<base, head>>
        /\ \/ commits' = commits + 1 /\ tip' = [tip EXCEPT ![n] = commits']
           \/ commits' = commits /\ tip' = [tip EXCEPT ![n] = NoTip]
    BY <1>5 DEF Create!Move, Create!Delete, Create!Free
  <2>2. \A q \in Creators : Held(job'[q]) => tip'[job[q].name] = tip[job[q].name]
    BY <1>1, <1>2, <2>1
  <2>3. commits <= commits' /\ base' <= commits' /\ \A m \in NewNames : tip'[m] # NoTip => tip'[m] <= commits'
    BY <1>1, <2>1 DEF RollIInv
  <2>. QED BY <1>1, <2>1, <2>2, <2>3, RollKeeps
<1>. QED BY <1>3, <1>4, <1>5

LEMMA RollStep ==
  ASSUME "checkout" \notin Windows, "move" \notin Windows, RollIInv, [Create!Next]_createVars
  PROVE  RollIInv'
<1>1. CASE UNCHANGED createVars
  <2>1. UNCHANGED <<tip, base, head, disk, stamped, job, commits, others>>
    BY <1>1 DEF createVars
  <2>2. JobsKeep /\ CreateIInv'
    BY <1>1, CreateStep DEF RollIInv, JobsKeep, createVars
  <2>3. commits <= commits' /\ base' <= commits' /\ \A m \in NewNames : tip'[m] # NoTip => tip'[m] <= commits'
    BY <2>1 DEF RollIInv, CreateIInv, Create!TypeOK
  <2>. QED BY <2>1, <2>2, <2>3, RollKeeps
<1>. QED BY <1>1, RollCreators, RollOthers DEF Create!Next, Creates

\* Of a branch that goes when a process rolls back, the process is the one that made it.
TakesOwn ==
  \A p \in Creators, n \in NewNames :
     /\ job[p].pc \in {"deleting", "dropping"} /\ job'[p].pc \in {"unstamping", "done"}
     /\ Create!Exists(n) /\ tip'[n] = NoTip
     => job[p].made /\ (job[p].found => job[p].call = "review") /\ tip[n] = job[p].at

LEMMA RollTakesOwn == ASSUME RollIInv, Create!Next PROVE TakesOwn
<1>. SUFFICES ASSUME NEW p \in Creators, NEW n \in NewNames,
                     job[p].pc \in {"deleting", "dropping"}, job'[p].pc \in {"unstamping", "done"},
                     tip[n] # NoTip, tip'[n] = NoTip
              PROVE  job[p].made /\ (job[p].found => job[p].call = "review") /\ tip[n] = job[p].at
  BY DEF TakesOwn, Create!Exists
<1>1. CreateIInv /\ Create!TypeOK /\ JobSound(job[p])
  BY DEF RollIInv, CreateIInv
<1>2. PICK q \in Creators : Creates(q)
  BY DEF Create!Next, Creates, Create!Commit, Create!Switch, Create!Move, Create!Delete, Create!Others
<1>3. q = p
  BY <1>1, <1>2, JobMoves
<1>4. Create!DeleteBranch(p) \/ Create!DropFetched(p)
  BY Zenon, <1>2, <1>3 DEF Creates, Create!Start, Create!Ask, Create!FetchFails, Create!FetchHead, Create!Refuse,
                    Create!FindBranch, Create!MakeBranch, Create!Attach, Create!AttachFails,
                    Create!Unwind, Create!Unstamp
<1>5. tip' = [tip EXCEPT ![job[p].name] = NoTip]
      /\ (tip[job[p].name] = job[p].at \/ (Held(job[p]) /\ ~ Create!CheckedOut(job[p].name)))
  BY <1>1, <1>4 DEF Create!DeleteBranch, Create!StillOurs, Create!DropFetched, Held, JobSound
<1>6. n = job[p].name
  BY <1>1, <1>5 DEF Create!TypeOK
<1>7. tip[n] = job[p].at
  BY <1>1, <1>5, <1>6 DEF RollIInv, Create!CheckedOut, Create!Checkouts
<1>. QED BY <1>1, <1>7 DEF JobSound, Held

LEMMA SyncAlone ==
  ASSUME [CommandNext]_allvars, command = "sync"
  PROVE  [Sync!SyncNext]_syncVars /\ command' = command
BY DEF CommandNext, OnlyIn, allvars, syncVars

-----------------------------------------------------------------------------
(* Syncing.  From the look at the worktree to the rebase or the merge nobody edits it,
   and what the branch had then it has still.                                *)

SyncIInv ==
  /\ Sync!SyncTypeOK
  /\ ~ tree.lost
  /\ tree.midway => sync.at = "failing" \/ sync.stuck
  /\ sync.stuck => sync.at = "done" /\ sync.result \in {"conflict", "failed"}
  /\ sync.at \in {"clean", "fetched", "behind", "failing"} => ~ tree.dirty \/ sync.at = "failing"
  /\ sync.at = "failing" /\ tree.midway => ~ tree.dirty
  /\ sync.result # "none" => sync.at = "done"
  /\ sync.result \in {"uptodate", "integrated"} => upstream \subseteq mine
  /\ before \subseteq mine

LEMMA SyncInit == Sync!SyncInit => SyncIInv
<1>. SUFFICES ASSUME Sync!SyncInit PROVE SyncIInv
  OBVIOUS
<1>1. moves \in 0 .. MaxMoves
  BY BoundsAssumption DEF Sync!SyncInit
<1>2. Sync!SyncTypeOK
  BY <1>1 DEF Sync!SyncInit, Sync!SyncTypeOK
<1>. QED BY <1>2 DEF Sync!SyncInit, SyncIInv

LEMMA SyncStep ==
  ASSUME "worktree" \notin Windows, SyncIInv, [Sync!SyncNext]_syncVars
  PROVE  SyncIInv'
<1>. USE DEF SyncIInv, Sync!SyncTypeOK
<1>1. CASE UNCHANGED syncVars
  BY <1>1 DEF syncVars
<1>2. CASE Sync!Look
  BY <1>2 DEF Sync!Look, Sync!Reach, Sync!Finish
<1>3. CASE Sync!Fetch
  BY <1>3 DEF Sync!Fetch, Sync!Reach, Sync!Finish
<1>4. CASE Sync!Count
  BY <1>4 DEF Sync!Count, Sync!Reach, Sync!Finish
<1>5. CASE Sync!Integrate
  BY <1>5 DEF Sync!Integrate, Sync!Reach, Sync!Finish
<1>6. CASE Sync!Abort
  <2>1. /\ UNCHANGED <<mine, upstream, origin, before, moves>> /\ sync.at = "failing"
        /\ sync' = [sync EXCEPT !.at = "done", !.result = sync'.result]
        /\ sync'.result \in {"conflict", "failed"}
    BY <1>6 DEF Sync!Abort, Sync!Complain
  <2>2. CASE tree.midway
    <3>1. PICK l \in {FALSE, tree.dirty} :
            tree' = [tree EXCEPT !.midway = FALSE, !.lost = l, !.dirty = @ /\ ~ l]
      BY <1>6, <2>2 DEF Sync!Abort
    <3>2. tree.dirty = FALSE /\ l = FALSE
      BY <2>1, <2>2, <3>1
    <3>3. tree' = [tree EXCEPT !.midway = FALSE, !.lost = FALSE, !.dirty = FALSE]
      BY <3>1, <3>2
    <3>. QED BY <2>1, <3>3
  <2>3. CASE ~ tree.midway
    <3>1. tree' = tree
      BY <1>6, <2>3 DEF Sync!Abort
    <3>. QED BY <2>1, <2>3, <3>1
  <2>. QED BY <2>2, <2>3
<1>10. CASE Sync!AbortFails
  <2>1. /\ UNCHANGED <<mine, upstream, origin, tree, before, moves>> /\ sync.at = "failing"
        /\ sync' = [sync EXCEPT !.at = "done", !.result = sync'.result, !.stuck = TRUE]
        /\ sync'.result \in {"conflict", "failed"}
    BY <1>10 DEF Sync!AbortFails
  <2>. QED BY <2>1
<1>7. ASSUME Sync!Others PROVE moves' \in 0 .. MaxMoves /\ UNCHANGED <<upstream, sync, before>>
  BY <1>7, BoundsAssumption DEF Sync!Others
<1>8. CASE Sync!Edit
  <2>1. /\ UNCHANGED <<mine, origin, upstream, sync, before>> /\ moves' \in 0 .. MaxMoves
        /\ ~ tree.midway /\ sync.at \notin {"clean", "fetched", "behind"}
        /\ tree' = [tree EXCEPT !.dirty = TRUE]
    BY <1>7, <1>8 DEF Sync!Edit
  <2>2. /\ tree' \in [dirty : BOOLEAN, lost : BOOLEAN, midway : BOOLEAN,
                       detached : BOOLEAN, tracks : BOOLEAN]
        /\ tree'.midway = tree.midway /\ tree'.lost = tree.lost
    BY <2>1
  <2>. QED BY <2>1, <2>2
<1>9. ASSUME NEW c \in Hashes, Sync!Push(c) \/ Sync!CommitHere(c) PROVE SyncIInv'
  <2>1. /\ UNCHANGED <<upstream, sync, before, tree>> /\ moves' \in 0 .. MaxMoves
        /\ origin' \in {origin, origin \cup {c}} /\ mine' \in {mine, mine \cup {c}}
    BY <1>7, <1>9 DEF Sync!Push, Sync!CommitHere
  <2>2. origin' \subseteq Hashes /\ mine' \subseteq Hashes /\ mine \subseteq mine'
    BY <2>1
  <2>. QED BY <2>1, <2>2
<1>. QED BY <1>1, <1>2, <1>3, <1>4, <1>5, <1>6, <1>8, <1>9, <1>10 DEF Sync!SyncNext

LEMMA CleanAlone ==
  ASSUME [CommandNext]_allvars, command = "clean"
  PROVE  [Clean!CleanNext]_cleanVars /\ command' = command
BY DEF CommandNext, OnlyIn, allvars, cleanVars

-----------------------------------------------------------------------------
(* Cleaning.                                                               *)

\* A countdown is of the profile it was armed on, or of one that does not resolve.
CleanIInv ==
  /\ Clean!CleanTypeOK /\ Clean!RemovesTheArmedProfile
  /\ overlay.armed => overlay.profile = armedOn \/ overlay.profile \in Broken

\* What was found, and what is being removed, is still nothing that git tracks, while
\* nobody adds to it between the scan and the removal; and the command was told --yes.
JunkIInv ==
  /\ CleanIInv
  /\ cli.found \subseteq cli.scanned /\ (cli.at = "asked" => cli.found = {})
  /\ "removal" \notin Windows /\ cli.at = "scanning" => \A d \in cli.found : dir[d] # "kept"
  /\ removing.by = "none" => removing.dirs = {}
  /\ "removal" \notin Windows => \A d \in removing.dirs : dir[d] # "kept"
  /\ removing.by = "cli" => cli.yes

LEMMA CleanInit == Clean!CleanInit => JunkIInv
<1>. SUFFICES ASSUME Clean!CleanInit PROVE JunkIInv
  OBVIOUS
<1>1. touched \in 0 .. MaxTouch
  BY BoundsAssumption DEF Clean!CleanInit
<1>2. Clean!CleanTypeOK
  BY <1>1, ProfilesAssumption DEF Clean!CleanInit, Clean!CleanTypeOK, Clean!NoReclaim
<1>. QED BY <1>2 DEF Clean!CleanInit, Clean!NoReclaim, Clean!RemovesTheArmedProfile, CleanIInv, JunkIInv

LEMMA ScanIsDeletable ==
  ASSUME NEW ds
  PROVE  Clean!Scan(ds) \subseteq ds /\ \A d \in Clean!Scan(ds) : dir[d] \notin {"kept", "absent"}
BY DEF Clean!Scan, Clean!Deletable

\* The steps of the command.
LEMMA CliCleans ==
  ASSUME JunkIInv, \/ Clean!Ask \/ Clean!Report \/ \E d \in Dirs : Clean!ScanNext(d)
  PROVE  JunkIInv'
<1>. USE DEF JunkIInv, CleanIInv, Clean!CleanTypeOK, Clean!RemovesTheArmedProfile
<1>1. CASE Clean!Ask
  <2>1. PICK a \in {"failed", "scanning"} : cli' = [cli EXCEPT !.at = a]
    BY <1>1 DEF Clean!Ask
  <2>. QED BY <1>1, <2>1 DEF Clean!Ask
<1>2. CASE Clean!Report
  <2>1. /\ UNCHANGED <<dir, overlay, armedOn, touched>> /\ cli.at = "scanning" /\ removing = Clean!NoReclaim
    BY <1>2 DEF Clean!Report
  <2>2. CASE cli.yes /\ removing' = [by |-> "cli", dirs |-> cli.found] /\ cli' = [cli EXCEPT !.at = "report"]
    BY <2>1, <2>2
  <2>3. CASE cli' = [cli EXCEPT !.at = "done"] /\ UNCHANGED removing
    BY <2>1, <2>3
  <2>. QED BY <1>2, <2>2, <2>3 DEF Clean!Report
<1>3. ASSUME NEW d \in Dirs, Clean!ScanNext(d) PROVE JunkIInv'
  <2>1. /\ UNCHANGED <<dir, overlay, removing, armedOn, touched>> /\ cli.at = "scanning"
        /\ cli' = [cli EXCEPT !.scanned = @ \cup {d}, !.found = @ \cup Clean!Scan({d})]
    BY <1>3 DEF Clean!ScanNext
  <2>2. Clean!Scan({d}) \subseteq {d} /\ \A e \in Clean!Scan({d}) : dir[e] # "kept"
    BY ScanIsDeletable
  <2>. QED BY <2>1, <2>2
<1>. QED BY <1>1, <1>2, <1>3

\* Removing, whoever asked for it.
LEMMA RemovalGoesOn ==
  ASSUME JunkIInv, \/ Clean!StopRemoving
                   \/ \E d \in Dirs : Clean!Remove(d)
                   \/ \E ds \in SUBSET Dirs : Clean!GiveUp(ds)
  PROVE  JunkIInv'
<1>. USE DEF JunkIInv, CleanIInv, Clean!CleanTypeOK, Clean!RemovesTheArmedProfile
<1>1. ASSUME NEW d \in Dirs, Clean!Remove(d) PROVE JunkIInv'
  <2>1. /\ dir' = [dir EXCEPT ![d] = "absent"] /\ removing' = [removing EXCEPT !.dirs = @ \ {d}]
        /\ UNCHANGED <<cli, overlay, armedOn, touched>>
    BY <1>1 DEF Clean!Remove
  <2>2. dir' \in [Dirs -> Clean!Kinds] /\ \A e \in Dirs : dir'[e] # "kept" \/ dir[e] = "kept"
    BY <2>1 DEF Clean!Kinds
  <2>3. /\ removing'.by = removing.by /\ removing'.dirs \subseteq removing.dirs
        /\ removing' \in [by : {"none", "cli", "tui"}, dirs : SUBSET Dirs]
    BY <2>1
  <2>. QED BY <2>1, <2>2, <2>3
<1>2. ASSUME NEW ds \in SUBSET Dirs, Clean!GiveUp(ds) PROVE JunkIInv'
  <2>1. removing' = [removing EXCEPT !.dirs = @ \ ds] /\ UNCHANGED <<dir, cli, overlay, armedOn, touched>>
    BY <1>2 DEF Clean!GiveUp
  <2>. QED BY <2>1
<1>3. CASE Clean!StopRemoving
  <2>1. /\ removing' = Clean!NoReclaim /\ UNCHANGED <<dir, armedOn, touched>>
        /\ \/ \E at_ \in {"done", "failed"} : cli' = [cli EXCEPT !.at = at_] /\ UNCHANGED overlay
           \/ overlay' = [overlay EXCEPT !.open = FALSE, !.armed = FALSE] /\ UNCHANGED cli
    BY <1>3 DEF Clean!StopRemoving
  <2>. QED BY <2>1 DEF Clean!NoReclaim
<1>. QED BY <1>1, <1>2, <1>3

\* What a countdown fires at.
LEMMA FiresAtItsProfile ==
  ASSUME JunkIInv, Clean!Fires, UNCHANGED <<dir, cli, touched>>, removing = Clean!NoReclaim,
         armedOn' \in Profiles,
         armedOn' = overlay.profile \/ overlay.profile \in Broken
  PROVE  JunkIInv'
<1>. USE DEF JunkIInv, CleanIInv, Clean!CleanTypeOK, Clean!RemovesTheArmedProfile
<1>. DEFINE found == Clean!Scan(DirsOf[overlay.profile])
<1>1. CASE overlay.profile \in Broken \/ found = {}
  <2>1. overlay' = [overlay EXCEPT !.open = FALSE, !.armed = FALSE] /\ UNCHANGED removing
    BY <1>1 DEF Clean!Fires
  <2>. QED BY <2>1 DEF Clean!NoReclaim
<1>2. CASE ~ (overlay.profile \in Broken \/ found = {})
  <2>1. overlay' = [overlay EXCEPT !.armed = FALSE] /\ removing' = [by |-> "tui", dirs |-> found]
    BY <1>2 DEF Clean!Fires
  <2>2. found \subseteq DirsOf[overlay.profile] /\ \A d \in found : dir[d] # "kept"
    BY ScanIsDeletable
  <2>3. DirsOf[overlay.profile] \subseteq Dirs
    BY ProfilesAssumption
  <2>. HIDE DEF found
  <2>. QED BY <1>2, <2>1, <2>2, <2>3
<1>. QED BY <1>1, <1>2

LEMMA OverlayCleans ==
  ASSUME JunkIInv, \/ Clean!OpenOverlay \/ Clean!Press \/ Clean!Elapse \/ Clean!CloseOverlay
                   \/ \E p \in Profiles : Clean!Choose(p)
  PROVE  JunkIInv'
<1>. USE DEF JunkIInv, CleanIInv, Clean!CleanTypeOK, Clean!RemovesTheArmedProfile
<1>1. ASSUME NEW p \in Profiles
      PROVE  LET o == Clean!Scanned(p, overlay)
             IN  /\ o \in [open : BOOLEAN, profile : Profiles, shown : SUBSET Dirs,
                           junk : BOOLEAN, armed : BOOLEAN]
                 /\ o.profile = p /\ (o.armed => p \in Broken)
  <2>1. Clean!Scan(DirsOf[p]) \subseteq Dirs
    BY ScanIsDeletable, ProfilesAssumption
  <2>2. Clean!Worth(Clean!Scan(DirsOf[p])) \in BOOLEAN
    BY DEF Clean!Worth
  <2>. QED BY <2>1, <2>2 DEF Clean!Scanned
<1>2. CASE Clean!OpenOverlay
  <2>. DEFINE o == Clean!Scanned("default", overlay)
  <2>1. overlay' = [o EXCEPT !.open = TRUE, !.armed = FALSE] /\ UNCHANGED <<dir, cli, removing, armedOn, touched>>
    BY <1>2 DEF Clean!OpenOverlay
  <2>2. o \in [open : BOOLEAN, profile : Profiles, shown : SUBSET Dirs, junk : BOOLEAN, armed : BOOLEAN]
    BY <1>1, ProfilesAssumption
  <2>. HIDE DEF o
  <2>. QED BY <2>1, <2>2
<1>3. ASSUME NEW p \in Profiles, Clean!Choose(p) PROVE JunkIInv'
  <2>. DEFINE o == Clean!Scanned(p, overlay)
  <2>1. overlay' = o /\ UNCHANGED <<dir, cli, removing, armedOn, touched>>
    BY <1>3 DEF Clean!Choose
  <2>2. /\ o \in [open : BOOLEAN, profile : Profiles, shown : SUBSET Dirs, junk : BOOLEAN, armed : BOOLEAN]
        /\ o.profile = p /\ (o.armed => p \in Broken)
    BY <1>1
  <2>. HIDE DEF o
  <2>. QED BY <2>1, <2>2
<1>4. CASE Clean!Press
  <2>1. UNCHANGED <<dir, cli, touched>> /\ removing = Clean!NoReclaim
    BY <1>4 DEF Clean!Press
  <2>2. CASE ~ overlay.armed /\ armedOn' = overlay.profile /\ Clean!Fires
    BY <2>1, <2>2, FiresAtItsProfile
  <2>3. CASE /\ overlay' = [overlay EXCEPT !.armed = ~ @]
             /\ armedOn' = IF overlay.armed THEN armedOn ELSE overlay.profile
             /\ UNCHANGED removing
    <3>1. CASE overlay.armed
      <4>1. overlay' = [overlay EXCEPT !.armed = FALSE] /\ armedOn' = armedOn
        BY <2>3, <3>1
      <4>. QED BY <2>1, <2>3, <4>1 DEF Clean!NoReclaim
    <3>2. CASE ~ overlay.armed
      <4>1. overlay' = [overlay EXCEPT !.armed = TRUE] /\ armedOn' = overlay.profile
        BY <2>3, <3>2
      <4>. QED BY <2>1, <2>3, <4>1 DEF Clean!NoReclaim
    <3>. QED BY <3>1, <3>2
  <2>. QED BY <1>4, <2>2, <2>3 DEF Clean!Press
<1>5. CASE Clean!Elapse
  <2>1. /\ overlay.armed /\ removing = Clean!NoReclaim /\ Clean!Fires
        /\ UNCHANGED <<dir, cli, armedOn, touched>>
    BY <1>5 DEF Clean!Elapse
  <2>. QED BY <2>1, FiresAtItsProfile
<1>6. CASE Clean!CloseOverlay
  <2>1. /\ overlay' = [overlay EXCEPT !.open = FALSE, !.armed = FALSE]
        /\ UNCHANGED <<dir, cli, removing, armedOn, touched>>
    BY <1>6 DEF Clean!CloseOverlay
  <2>. QED BY <2>1
<1>. QED BY <1>2, <1>3, <1>4, <1>5, <1>6

LEMMA CleanStep ==
  ASSUME JunkIInv, [Clean!CleanNext]_cleanVars
  PROVE  JunkIInv'
<1>1. CASE UNCHANGED cleanVars
  BY <1>1 DEF cleanVars, JunkIInv, CleanIInv, Clean!CleanTypeOK, Clean!RemovesTheArmedProfile
<1>2. ASSUME NEW d \in Dirs, NEW k \in Clean!Kinds, Clean!Touch(d, k) PROVE JunkIInv'
  <2>1. /\ dir' = [dir EXCEPT ![d] = k] /\ touched' = touched + 1 /\ touched < MaxTouch
        /\ UNCHANGED <<cli, overlay, removing, armedOn>>
        /\ "removal" \notin Windows =>
             ((cli.at = "scanning" /\ d \in cli.scanned) \/ d \in removing.dirs => k # "kept")
    BY <1>2 DEF Clean!Touch
  <2>2. touched' \in 0 .. MaxTouch
    BY <2>1, BoundsAssumption DEF JunkIInv, CleanIInv, Clean!CleanTypeOK
  <2>3. dir' \in [Dirs -> Clean!Kinds] /\ \A e \in Dirs : dir'[e] = IF e = d THEN k ELSE dir[e]
    BY <2>1 DEF JunkIInv, CleanIInv, Clean!CleanTypeOK
  <2>. QED BY <2>1, <2>2, <2>3 DEF JunkIInv, CleanIInv, Clean!CleanTypeOK, Clean!RemovesTheArmedProfile
<1>. QED BY <1>1, <1>2, CliCleans, RemovalGoesOn, OverlayCleans DEF Clean!CleanNext

JunkGoes ==
  \A d \in Dirs : dir[d] # "absent" /\ dir'[d] = "absent" /\ touched' = touched
      => dir[d] # "kept" /\ (removing.by = "cli" => cli.yes)

LEMMA OnlyJunk == ASSUME "removal" \notin Windows, JunkIInv, Clean!CleanNext PROVE JunkGoes
<1>. SUFFICES ASSUME NEW d \in Dirs, dir[d] # "absent", dir'[d] = "absent", touched' = touched
              PROVE  dir[d] # "kept" /\ (removing.by = "cli" => cli.yes)
  BY DEF JunkGoes
<1>1. dir' # dir
  OBVIOUS
<1>2. touched \in Nat
  BY BoundsAssumption DEF JunkIInv, CleanIInv, Clean!CleanTypeOK
<1>3. ASSUME NEW e \in Dirs, NEW k \in Clean!Kinds PROVE ~ Clean!Touch(e, k)
  BY <1>2 DEF Clean!Touch
<1>4. PICK e \in Dirs : Clean!Remove(e)
  BY Zenon, <1>1, <1>3 DEF Clean!CleanNext, Clean!Ask, Clean!Report, Clean!StopRemoving, Clean!OpenOverlay,
     Clean!Press, Clean!Elapse, Clean!CloseOverlay, Clean!Choose, Clean!GiveUp, Clean!ScanNext
<1>5. d = e
  BY <1>4 DEF Clean!Remove, JunkIInv, CleanIInv, Clean!CleanTypeOK
<1>. QED BY <1>4, <1>5 DEF Clean!Remove, JunkIInv

LEMMA HouseAlone ==
  ASSUME [CommandNext]_allvars, command = "house"
  PROVE  [House!HouseNext]_houseVars /\ command' = command
BY DEF CommandNext, OnlyIn, allvars, houseVars

-----------------------------------------------------------------------------
(* Housekeeping.  What --fix, prune and the doctor's advice are about is as they
   read it, while the others keep out.                                     *)

HouseIInv ==
  /\ keys \in [House!Cells -> House!Shapes] /\ entry \in [Kept -> House!Entries] /\ hands \in Nat
  /\ {"job", "at", "before", "todo", "listed", "plan", "ran", "fixed", "pruned"} \subseteq DOMAIN duty
  /\ {"advice", "checks", "purged", "remaining"} \subseteq DOMAIN report
  /\ duty.at = "dropping" => \A c \in duty.todo : c[1] \notin live
  /\ duty.at = "pruning" => \A b \in duty.plan : entry[b] = "missing"
  /\ duty.job = "doctor" /\ duty.at = "listed" => duty.listed = entry
  /\ report.advice # {} => duty.at = "done"

LEMMA HouseInit == House!HouseInit => HouseIInv
<1>. SUFFICES ASSUME House!HouseInit PROVE HouseIInv
  OBVIOUS
<1>1. keys \in [House!Cells -> House!Shapes] /\ entry \in [Kept -> House!Entries]
  BY DEF House!HouseInit, House!Shapes, House!Entries
<1>2. report = House!NoReport /\ hands = 0
  BY DEF House!HouseInit
<1>3. /\ {"job", "at", "before", "todo", "listed", "plan", "ran", "fixed", "pruned"} \subseteq DOMAIN duty
      /\ duty.at = "start"
  <2>1. ASSUME NEW j, duty = House!Job(j) \/ \E t : duty = [House!Job(j) EXCEPT !.when = t]
      PROVE  /\ {"job", "at", "before", "todo", "listed", "plan", "ran", "fixed", "pruned"} \subseteq DOMAIN duty
             /\ duty.at = "start"
    BY <2>1 DEF House!Job, House!Idle
  <2>2. \E j : duty = House!Job(j) \/ \E t : duty = [House!Job(j) EXCEPT !.when = t]
    BY DEF House!HouseInit
  <2>. QED BY <2>1, <2>2
<1>. QED BY <1>1, <1>2, <1>3 DEF HouseIInv, House!NoReport

LEMMA FixHolds ==
  ASSUME HouseIInv, House!ListOrphans \/ House!ReadBack \/ \E c \in House!Cells : House!Drop(c)
  PROVE  HouseIInv'
<1>1. CASE House!ListOrphans
  BY <1>1 DEF House!ListOrphans, House!OrphanKeys, HouseIInv
<1>2. CASE House!ReadBack
  <2>1. /\ UNCHANGED <<live, keys, entry, hands>> /\ duty.at = "dropping"
        /\ duty' = [duty EXCEPT !.job = "doctor", !.at = "start", !.fixed = TRUE]
    BY <1>2 DEF House!ReadBack
  <2>2. \E m, n : report' = [report EXCEPT !.purged = m, !.remaining = n]
    BY <1>2 DEF House!ReadBack
  <2>3. report'.advice = report.advice /\ DOMAIN report' = DOMAIN report
    BY <2>2 DEF HouseIInv
  <2>. QED BY <2>1, <2>3 DEF HouseIInv
<1>3. ASSUME NEW c \in House!Cells, House!Drop(c) PROVE HouseIInv'
  <2>1. /\ UNCHANGED <<live, entry, hands, report>> /\ duty.at = "dropping"
        /\ duty' = [duty EXCEPT !.todo = @ \ {c}]
    BY <1>3 DEF House!Drop
  <2>2. keys' \in [House!Cells -> House!Shapes]
    <3>1. \A was, key_ \in House!Shapes : House!Removed(was, key_) \in House!Shapes
      BY DEF House!Removed, House!Shapes
    <3>2. \E was : keys' \in {keys, [keys EXCEPT ![c] = House!Removed(was, @)]}
      BY <1>3 DEF House!Drop
    <3>3. \A was : House!Removed(was, keys[c]) \in {"none", keys[c]}
      BY DEF House!Removed
    <3>. QED BY <3>2, <3>3 DEF HouseIInv, House!Shapes
  <2>. QED BY <2>1, <2>2 DEF HouseIInv
<1>. QED BY <1>1, <1>2, <1>3

\* What the doctor ends with.
LEMMA Diagnosed ==
  ASSUME HouseIInv, House!Diagnose
  PROVE  /\ DOMAIN report' = DOMAIN report
         /\ report'.advice \in {{}, House!OrphanBranches({b \in Kept : duty.listed[b] = "tree"})}
<1>1. PICK readable \in BOOLEAN :
        LET orphans == IF readable /\ setup.list = "fine"
                       THEN House!OrphanBranches({b \in Kept : duty.listed[b] = "tree"}) ELSE {}
        IN  report' = [report EXCEPT
              !.advice = orphans,
              !.checks = [@ EXCEPT
                 !["branches"] = House!Verdict(setup.list # "fine" \/ ~ readable, orphans # {}),
                 !["notes"] = House!Verdict(FALSE, House!OrphanNotes # {}),
                 !["keys"] = House!Verdict(FALSE, House!OrphanKeys # {}),
                 !["base"] = House!CheckBaseDirWritable(setup),
                 !["keymap"] = House!CheckTuiKeymap(setup),
                 !["pattern"] = House!CheckBranchPattern(setup)]]
  BY Zenon DEF House!Diagnose
<1>. QED BY <1>1 DEF HouseIInv

LEMMA DoctorHolds ==
  ASSUME HouseIInv, House!ListTrees \/ House!Diagnose
  PROVE  HouseIInv'
<1>1. CASE House!ListTrees
  <2>1. /\ UNCHANGED <<live, keys, entry, hands>> /\ duty.at = "start"
        /\ duty' = [duty EXCEPT !.at = "listed", !.listed = entry]
    BY <1>1 DEF House!ListTrees
  <2>2. \E c : report' = [report EXCEPT !.checks = c]
    BY <1>1 DEF House!ListTrees
  <2>3. report'.advice = report.advice /\ DOMAIN report' = DOMAIN report
    BY <2>2 DEF HouseIInv
  <2>. QED BY <2>1, <2>3 DEF HouseIInv
<1>2. CASE House!Diagnose
  <2>1. /\ UNCHANGED <<live, keys, entry, hands>> /\ duty' = [duty EXCEPT !.at = "done"]
    BY Zenon, <1>2 DEF House!Diagnose
  <2>. QED BY <1>2, <2>1, Diagnosed DEF HouseIInv
<1>. QED BY <1>1, <1>2

LEMMA PruneHolds ==
  ASSUME HouseIInv, \/ House!PlanPrune \/ House!Pruned \/ House!Evaluate
                    \/ \E b \in Kept : House!PruneOne(b)
  PROVE  HouseIInv'
<1>1. CASE House!PlanPrune
  BY <1>1 DEF House!PlanPrune, House!Prunable, HouseIInv
<1>2. CASE House!Pruned
  BY <1>2 DEF House!Pruned, HouseIInv
<1>3. CASE House!Evaluate
  <2>1. /\ UNCHANGED <<live, keys, entry, hands, report>>
        /\ \E r : duty' = [duty EXCEPT !.at = "done", !.ran = r]
    BY <1>3 DEF House!Evaluate
  <2>. QED BY <2>1 DEF HouseIInv
<1>4. ASSUME NEW b \in Kept, House!PruneOne(b) PROVE HouseIInv'
  <2>1. UNCHANGED <<live, keys, hands, report>> /\ duty.at = "pruning"
    BY <1>4 DEF House!PruneOne
  <2>2. CASE entry' = [entry EXCEPT ![b] = "none"] /\ duty' = [duty EXCEPT !.plan = @ \ {b}, !.pruned = @ + 1]
    <3>1. /\ DOMAIN duty' = DOMAIN duty /\ duty'.at = duty.at /\ duty'.job = duty.job
          /\ duty'.plan = duty.plan \ {b}
      BY <2>2 DEF HouseIInv
    <3>. QED BY <2>1, <2>2, <3>1 DEF HouseIInv, House!Entries
  <2>3. CASE UNCHANGED entry /\ duty' = [duty EXCEPT !.plan = @ \ {b}]
    BY <2>1, <2>3 DEF HouseIInv
  <2>. QED BY <1>4, <2>2, <2>3 DEF House!PruneOne
<1>. QED BY <1>1, <1>2, <1>3, <1>4

LEMMA HandsHold ==
  ASSUME {"purge", "prune", "doctor"} \cap Windows = {}, HouseIInv, NEW b \in Kept,
         \/ House!MadeBranch(b) \/ House!DeletedBranch(b) \/ \E e \in House!Entries : House!CameBack(b, e)
  PROVE  HouseIInv' /\ hands' = hands + 1
<1>1. /\ UNCHANGED <<duty, report>> /\ hands' = hands + 1
      /\ duty.at \notin {"dropping", "pruning"} /\ ~ (duty.job = "doctor" /\ duty.at = "listed")
  BY DEF House!MadeBranch, House!DeletedBranch, House!CameBack, House!Between
<1>2. keys' \in [House!Cells -> House!Shapes]
  BY DEF House!MadeBranch, House!DeletedBranch, House!CameBack, HouseIInv, House!Shapes
<1>3. entry' \in [Kept -> House!Entries]
  BY DEF House!MadeBranch, House!DeletedBranch, House!CameBack, HouseIInv, House!Entries
<1>. QED BY <1>1, <1>2, <1>3 DEF HouseIInv

LEMMA HouseStep ==
  ASSUME {"purge", "prune", "doctor"} \cap Windows = {}, HouseIInv, [House!HouseNext]_houseVars
  PROVE  HouseIInv'
<1>1. CASE UNCHANGED houseVars
  BY <1>1 DEF houseVars, HouseIInv
<1>. QED BY <1>1, FixHolds, DoctorHolds, PruneHolds, HandsHold DEF House!HouseNext

Spares ==
  hands' = hands =>
    /\ \A c \in House!Cells : keys[c] # "none" /\ keys'[c] = "none" => c[1] \notin live
    /\ \A b \in Kept : entry'[b] # entry[b] => entry[b] = "missing"
    /\ report'.advice \cap (House!Claimed \cup merged) = {} \/ report' = report

LEMMA HouseSpares ==
  ASSUME {"purge", "prune", "doctor"} \cap Windows = {}, HouseIInv, House!HouseNext
  PROVE  Spares
<1>1. ASSUME NEW b \in Kept, House!MadeBranch(b) \/ House!DeletedBranch(b)
                             \/ \E e \in House!Entries : House!CameBack(b, e)
      PROVE  Spares
  BY <1>1, HandsHold DEF Spares, HouseIInv
<1>2. CASE House!ListOrphans \/ House!PlanPrune \/ House!Pruned \/ House!Evaluate
  BY <1>2 DEF House!ListOrphans, House!PlanPrune, House!Pruned, House!Evaluate, Spares
<1>3. CASE House!ReadBack
  <2>1. UNCHANGED <<keys, entry>> /\ duty.at = "dropping" /\ \E m, n : report' = [report EXCEPT !.purged = m, !.remaining = n]
    BY <1>3 DEF House!ReadBack
  <2>2. report'.advice = {}
    BY <2>1 DEF HouseIInv
  <2>. QED BY <2>1, <2>2 DEF Spares
<1>4. CASE House!ListTrees
  <2>1. UNCHANGED <<keys, entry>> /\ duty.at = "start" /\ \E c : report' = [report EXCEPT !.checks = c]
    BY <1>4 DEF House!ListTrees
  <2>2. report'.advice = {}
    BY <2>1 DEF HouseIInv
  <2>. QED BY <2>1, <2>2 DEF Spares
<1>5. CASE House!Diagnose
  <2>1. UNCHANGED <<keys, entry>> /\ duty.listed = entry
    BY <1>5 DEF House!Diagnose, HouseIInv
  <2>2. House!OrphanBranches({b \in Kept : duty.listed[b] = "tree"}) \cap (House!Claimed \cup merged) = {}
    BY <2>1 DEF House!OrphanBranches, House!Claimed
  <2>3. report'.advice \cap (House!Claimed \cup merged) = {}
    BY <1>5, <2>2, Diagnosed
  <2>. QED BY <2>1, <2>3 DEF Spares
<1>6. ASSUME NEW c \in House!Cells, House!Drop(c) PROVE Spares
  <2>1. /\ UNCHANGED <<entry, report>> /\ c[1] \notin live
        /\ \A d \in House!Cells : d # c => keys'[d] = keys[d]
    BY <1>6 DEF House!Drop, HouseIInv
  <2>. QED BY <2>1 DEF Spares
<1>7. ASSUME NEW b \in Kept, House!PruneOne(b) PROVE Spares
  <2>1. /\ UNCHANGED <<keys, report>> /\ entry[b] = "missing"
        /\ \A d \in Kept : d # b => entry'[d] = entry[d]
    BY <1>7 DEF House!PruneOne, HouseIInv
  <2>. QED BY <2>1 DEF Spares
<1>. QED BY <1>1, <1>2, <1>3, <1>4, <1>5, <1>6, <1>7 DEF House!HouseNext

LEMMA RenameAlone ==
  ASSUME [CommandNext]_allvars, command = "rename"
  PROVE  [Rename!Next]_renameVars /\ command' = command
BY DEF CommandNext, OnlyIn, allvars, renameVars

-----------------------------------------------------------------------------
(* Renaming.  Which of directory and branch have their new name at each step, and
   what is known of origin between the check and the push.                  *)

Moved == IF saga.moves THEN "new" ELSE "old"
Early == {"asked", "checked", "moved"}
Late == {"renamed", "found", "fetched", "contained", "clear", "tracking", "noting", "carrying"}

RenameIInv ==
  /\ Rename!TypeOK
  /\ Rename!Exists(local[named])
  /\ saga.pc \in {"asked", "checked"} => place = "old"
  /\ saga.pc \in Late \cup {"moved", "unnaming", "unmoving"} => place = Moved
  /\ saga.pc \in Early => named = "old"
  /\ saga.pc \in Late \cup {"unnaming"} => named = "new" /\ saga.renames
  /\ saga.pc = "unmoving" => named = "old" \/ Rename!Exists(local["old"]) \/ "name" \in saga.unable
  /\ saga.pc \in Early \cup Late => saga.result = "ok"
  /\ saga.pc \in {"unnaming", "unmoving"} => saga.result # "ok"
  /\ saga.pc \in {"contained", "clear"} => Rename!Exists(saga.seen) /\ saga.seen \subseteq local["new"]
  /\ saga.pc \notin {"tracking", "noting", "carrying", "done"} => pushed = {}
  /\ note["new"] = "first" => saga.pc = "done" /\ saga.result = "ok"
  /\ saga.pc = "carrying" => note["new"] = "none"
  /\ Rename!NeverHalfRenamed /\ Rename!NeverHalfDone /\ Rename!RefusalLeavesOrigin

LEMMA Reached ==
  /\ \A r \in SUBSET (0 .. MaxCommit) : r # NoTip
  /\ {0} \in SUBSET (0 .. MaxCommit) /\ MaxCommit \in Nat
BY RenameAssumption, BoundsAssumption

LEMMA RenameInit == Rename!Init => RenameIInv
<1>. SUFFICES ASSUME Rename!Init PROVE RenameIInv
  OBVIOUS
<1>. USE DEF Rename!Init
<1>1. local \in [Rename!Names -> Rename!Tip] /\ remote \in [Rename!Names -> Rename!Tip]
      /\ local["old"] = {0}
  <2>1. {{0}, NoTip} \subseteq Rename!Tip
    BY Reached DEF Rename!Tip
  <2>2. local \in [Rename!Names -> {{0}, NoTip}] /\ remote \in [Rename!Names -> {{0}, NoTip}]
    OBVIOUS
  <2>3. local["old"] = {0}
    OBVIOUS
  <2>. QED BY <2>1, <2>2, <2>3
<1>2. saga \in Rename!Job /\ saga.pc = "asked" /\ saga.result = "ok"
  <2>1. NoTip \in Rename!Tip /\ "asked" \in Rename!Steps /\ "ok" \in Rename!Results
    BY DEF Rename!Tip, Rename!Steps, Rename!Results
  <2>2. saga \in [pc : {"asked"}, moves : BOOLEAN, renames : BOOLEAN, portable : BOOLEAN,
                  hasOrigin : BOOLEAN, lookalike : BOOLEAN, seen : {NoTip}, unable : {{}},
                  result : {"ok"}]
    OBVIOUS
  <2>. QED BY <2>1, <2>2 DEF Rename!Job
<1>3. note \in [Rename!Names -> Rename!Prose] /\ note["new"] # "first"
  OBVIOUS
<1>4. taken \subseteq Rename!Names /\ tracks \in Rename!Names \cup {"none"}
  BY DEF Rename!Names
<1>5. Rename!TypeOK
  BY <1>1, <1>2, <1>3, <1>4 DEF Rename!TypeOK, Rename!Names
<1>. QED BY <1>1, <1>2, <1>3, <1>5, Reached
     DEF RenameIInv, Early, Late, Rename!Exists, Rename!NeverHalfRenamed, Rename!NeverHalfDone,
         Rename!RefusalLeavesOrigin, Rename!Refused, Rename!At

\* The others change neither the rename nor what it moved, and take nothing away
\* that it counts on.
LEMMA WorldMoves ==
  ASSUME {"reset", "note"} \cap Windows = {}, RenameIInv, Rename!Others
  PROVE  /\ Rename!TypeOK' /\ UNCHANGED <<place, named, tracks, saga, pushed>>
         /\ Rename!Exists(local[named])'
         /\ Rename!Exists(local["old"]) => Rename!Exists(local'["old"])
         /\ saga.pc \in {"contained", "clear"} => local["new"] \subseteq local'["new"]
         /\ taken \subseteq taken'
         /\ note'["new"] = "first" => note["new"] = "first"
         /\ saga.pc = "carrying" => note'["new"] = note["new"]
         /\ \A n \in Rename!Names : note[n] # "none" => note'[n] = note[n]
<1>1. /\ local \in [Rename!Names -> Rename!Tip] /\ remote \in [Rename!Names -> Rename!Tip]
      /\ note \in [Rename!Names -> Rename!Prose] /\ taken \subseteq Rename!Names
      /\ named \in Rename!Names /\ made \in Nat /\ meanwhile \in Nat
      /\ "old" \in Rename!Names /\ "new" \in Rename!Names
  BY DEF RenameIInv, Rename!TypeOK, Rename!Names
<1>2. UNCHANGED <<place, named, tracks, saga, pushed>> /\ meanwhile' \in Nat
  BY <1>1 DEF Rename!Others, Rename!OthersPush, Rename!OthersDelete, Rename!WriteNote, Rename!OthersBranchFrom,
         Rename!PullHere, Rename!CommitHere, Rename!ResetHere, Rename!Squat, Rename!OthersMove
<1>. DEFINE Fine == /\ local' \in [Rename!Names -> Rename!Tip] /\ Rename!Exists(local'[named])
                    /\ Rename!Exists(local["old"]) => Rename!Exists(local'["old"])
                    /\ saga.pc \in {"contained", "clear"} => local["new"] \subseteq local'["new"]
<1>3. UNCHANGED local => Fine
  BY <1>1 DEF RenameIInv
<1>4. ASSUME NEW more, local' = [local EXCEPT ![named] = more], more \in SUBSET (0 .. MaxCommit),
             saga.pc \in {"contained", "clear"} => local[named] \subseteq more
      PROVE  Fine
  <2>1. more \in Rename!Tip /\ more # NoTip
    BY <1>4, Reached DEF Rename!Tip
  <2>2. \A n \in Rename!Names : local'[n] = IF n = named THEN more ELSE local[n]
    BY <1>1, <1>4
  <2>. QED BY <1>1, <1>4, <2>1, <2>2 DEF Rename!Exists
<1>5. ASSUME NEW n \in Rename!Names, Rename!Exists(remote[n]) PROVE remote[n] \in SUBSET (0 .. MaxCommit)
  BY <1>1, <1>5 DEF Rename!Tip, Rename!Exists
<1>6. local[named] \in SUBSET (0 .. MaxCommit)
  BY <1>1 DEF RenameIInv, Rename!Tip, Rename!Exists
<1>7. made < MaxCommit => made + 1 \in 0 .. MaxCommit /\ made + 1 \in Nat
  BY <1>1, Reached
<1>. DEFINE Rest == /\ remote' \in [Rename!Names -> Rename!Tip] /\ made' \in Nat
                    /\ note' \in [Rename!Names -> Rename!Prose] /\ taken' \subseteq Rename!Names
                    /\ taken \subseteq taken'
                    /\ note'["new"] = "first" => note["new"] = "first"
                    /\ saga.pc = "carrying" => note'["new"] = note["new"]
                    /\ \A n \in Rename!Names : note[n] # "none" => note'[n] = note[n]
<1>8. ASSUME NEW n \in Rename!Names, Rename!OthersPush(n) PROVE Fine /\ Rest
  <2>1. PICK r \in SUBSET (0 .. MaxCommit) : remote' = [remote EXCEPT ![n] = r]
    <3>. DEFINE r == (IF Rename!Exists(remote[n]) THEN remote[n] ELSE {0}) \cup {made + 1}
    <3>1. remote' = [remote EXCEPT ![n] = r] /\ made < MaxCommit
      BY <1>8 DEF Rename!OthersPush
    <3>2. r \in SUBSET (0 .. MaxCommit)
      BY <1>5, <1>7, <3>1, Reached
    <3>. QED BY <3>1, <3>2
  <2>2. UNCHANGED <<taken, local, note>> /\ made' \in Nat
    BY <1>7, <1>8 DEF Rename!OthersPush
  <2>3. r \in Rename!Tip
    BY <2>1 DEF Rename!Tip
  <2>. QED BY <1>1, <1>3, <2>1, <2>2, <2>3
<1>9. ASSUME NEW n \in Rename!Names, Rename!OthersDelete(n) PROVE Fine /\ Rest
  <2>1. remote' = [remote EXCEPT ![n] = NoTip] /\ UNCHANGED <<taken, local, note, made>>
    BY <1>9 DEF Rename!OthersDelete
  <2>2. NoTip \in Rename!Tip
    BY DEF Rename!Tip
  <2>. QED BY <1>1, <1>3, <2>1, <2>2
<1>10. ASSUME Rename!OthersBranchFrom PROVE Fine /\ Rest
  <2>1. remote' = [remote EXCEPT !["new"] = remote["old"]] /\ UNCHANGED <<taken, local, note, made>>
    BY <1>10 DEF Rename!OthersBranchFrom
  <2>. QED BY <1>1, <1>3, <2>1
<1>11. ASSUME Rename!PullHere PROVE Fine /\ Rest
  <2>. DEFINE more == local[named] \cup remote["old"]
  <2>1. local' = [local EXCEPT ![named] = more] /\ UNCHANGED <<taken, remote, note, made>>
        /\ Rename!Exists(remote["old"])
    BY <1>11 DEF Rename!PullHere
  <2>2. more \in SUBSET (0 .. MaxCommit) /\ local[named] \subseteq more
    BY <1>1, <1>5, <1>6, <2>1
  <2>. HIDE DEF more
  <2>. QED BY <1>1, <1>4, <2>1, <2>2
<1>12. ASSUME Rename!CommitHere PROVE Fine /\ Rest
  <2>. DEFINE more == local[named] \cup {made + 1}
  <2>1. local' = [local EXCEPT ![named] = more] /\ UNCHANGED <<taken, remote, note>>
        /\ made < MaxCommit /\ made' = made + 1
    BY <1>12 DEF Rename!CommitHere
  <2>2. more \in SUBSET (0 .. MaxCommit) /\ local[named] \subseteq more
    BY <1>6, <1>7, <2>1
  <2>. HIDE DEF more
  <2>. QED BY <1>1, <1>4, <1>7, <2>1, <2>2
<1>13. ASSUME Rename!ResetHere PROVE Fine /\ Rest
  <2>1. local' = [local EXCEPT ![named] = {0}] /\ UNCHANGED <<taken, remote, note, made>>
        /\ saga.pc \notin {"contained", "clear"}
    BY <1>13 DEF Rename!ResetHere
  <2>. QED BY <1>1, <1>4, <2>1, Reached
<1>14. ASSUME Rename!Squat PROVE Fine /\ Rest
  <2>1. CASE named = "new" /\ local' = [local EXCEPT !["old"] = {0}] /\ UNCHANGED taken
    <3>1. {0} \in Rename!Tip /\ Rename!Exists({0})
      BY Reached DEF Rename!Tip, Rename!Exists
    <3>2. Fine
      BY <1>1, <2>1, <3>1 DEF RenameIInv
    <3>. QED BY <1>1, <1>14, <2>1, <3>2 DEF Rename!Squat
  <2>2. CASE taken' = taken \cup {"old"} /\ UNCHANGED local
    BY <1>1, <1>3, <1>14, <2>2 DEF Rename!Squat
  <2>. QED BY <1>14, <2>1, <2>2 DEF Rename!Squat
<1>15. ASSUME NEW n \in Rename!Names, Rename!WriteNote(n) PROVE Fine /\ Rest
  <2>1. /\ note' = [note EXCEPT ![n] = "second"] /\ UNCHANGED <<taken, local, remote, made>>
        /\ note[n] = "none" /\ saga.pc # "carrying"
    BY <1>15 DEF Rename!WriteNote
  <2>. QED BY <1>1, <1>3, <2>1 DEF Rename!Prose
<1>16. Fine /\ Rest
  BY <1>8, <1>9, <1>10, <1>11, <1>12, <1>13, <1>14, <1>15 DEF Rename!Others
<1>. HIDE DEF Fine
<1>17. local' \in [Rename!Names -> Rename!Tip] /\ Rename!Exists(local'[named])
  BY <1>16 DEF Fine
<1>18. Rename!TypeOK'
  BY <1>2, <1>16, <1>17 DEF RenameIInv, Rename!TypeOK
<1>. QED BY <1>2, <1>16, <1>18 DEF Fine

LEMMA RenameOthers ==
  ASSUME {"reset", "note"} \cap Windows = {}, RenameIInv, Rename!Others
  PROVE  RenameIInv'
<1>. USE WorldMoves
<1>1. saga.pc # "done"
  BY DEF Rename!Others, Rename!OthersPush, Rename!OthersDelete, Rename!WriteNote, Rename!OthersBranchFrom,
         Rename!PullHere, Rename!CommitHere, Rename!ResetHere, Rename!Squat, Rename!OthersMove
<1>2. (Rename!NeverHalfRenamed /\ Rename!NeverHalfDone /\ Rename!RefusalLeavesOrigin)'
  BY <1>1 DEF Rename!NeverHalfRenamed, Rename!NeverHalfDone, Rename!RefusalLeavesOrigin, Rename!Refused, Rename!At
<1>3. Moved' = Moved
  BY DEF Moved
<1>. QED BY <1>1, <1>2, <1>3 DEF RenameIInv

\* What ends, ends as it should.
Sound ==
  Rename!NeverHalfRenamed /\ Rename!NeverHalfDone /\ Rename!RefusalLeavesOrigin

LEMMA SagaTo ==
  ASSUME saga \in Rename!Job, NEW s \in Rename!Steps, NEW r \in Rename!Results, NEW t \in Rename!Tip,
         saga' = [saga EXCEPT !.pc = s, !.result = r, !.seen = t]
  PROVE  /\ saga' \in Rename!Job /\ saga'.pc = s /\ saga'.result = r /\ saga'.seen = t
         /\ saga'.moves = saga.moves /\ saga'.renames = saga.renames
BY DEF Rename!Job

\* The three ways of going on, as one.
LEMMA SagaMoves ==
  ASSUME saga \in Rename!Job, NEW s \in Rename!Steps, NEW r \in Rename!Results,
         \/ Rename!Goes(s) /\ r = saga.result
         \/ Rename!Ends(r) /\ s = "done"
         \/ Rename!Undoes(s, r)
  PROVE  /\ saga' \in Rename!Job /\ saga'.pc = s /\ saga'.result = r /\ saga'.seen = saga.seen
         /\ saga'.moves = saga.moves /\ saga'.renames = saga.renames /\ saga'.unable = saga.unable
<1>1. /\ saga' \in {[saga EXCEPT !.pc = s], [saga EXCEPT !.pc = s, !.result = r]}
      /\ saga' = [saga EXCEPT !.pc = s] => r = saga.result
  BY DEF Rename!Goes, Rename!Ends, Rename!Undoes, Rename!Job
<1>. QED BY <1>1 DEF Rename!Job

\* A step back that git fails to take.
LEMMA StaysBehind ==
  ASSUME saga \in Rename!Job, NEW kept \in {"name", "move"}, NEW s \in Rename!Steps, Rename!UnableTo(kept, s)
  PROVE  /\ saga' \in Rename!Job /\ saga'.pc = s /\ saga'.result = saga.result
         /\ saga'.moves = saga.moves /\ saga'.renames = saga.renames
         /\ kept \in saga'.unable /\ saga.unable \subseteq saga'.unable
<1>1. saga' = [saga EXCEPT !.pc = s, !.unable = saga.unable \cup {kept}]
  BY DEF Rename!UnableTo
<1>2. saga.unable \cup {kept} \in SUBSET {"name", "move"}
  BY DEF Rename!Job
<1>3. saga.unable \cup {kept} = saga'.unable
  BY <1>1 DEF Rename!Job
<1>. QED BY <1>1, <1>2, <1>3 DEF Rename!Job

\* A step that leaves the worktree, the branch and origin as they are.
LEMMA OnlySaga ==
  ASSUME RenameIInv, UNCHANGED <<place, taken, named, local, remote, note, pushed, made, meanwhile>>,
         tracks' \in Rename!Names \cup {"none"}, saga' \in Rename!Job,
         saga'.moves = saga.moves, saga'.renames = saga.renames,
         saga.pc # "done", saga'.pc \in Rename!Steps,
         \/ saga.pc \in Late /\ saga'.pc \in Late \cup {"unnaming", "done"}
         \/ saga.pc = "asked" /\ saga'.pc \in {"checked", "done"}
         \/ saga.pc = "checked" /\ saga'.pc = "done" /\ saga'.result # "ok",
         saga.pc = "asked" /\ saga'.pc = "done" => saga'.result # "ok",
         saga'.pc = "unnaming" => saga'.result # "ok",
         saga'.pc \in {"checked"} \cup Late => saga'.result = "ok",
         saga.pc \in Late /\ saga'.pc = "done" => saga'.result = "ok",
         saga'.pc \in {"contained", "clear"} =>
            Rename!Exists(saga'.seen) /\ saga'.seen \subseteq local["new"],
         saga.pc \in {"tracking", "noting", "carrying"} => saga'.pc \in {"noting", "carrying", "done"},
         saga'.pc = "carrying" => note["new"] = "none"
  PROVE  RenameIInv'
<1>1. Rename!TypeOK'
  BY DEF RenameIInv, Rename!TypeOK
<1>2. Moved' = Moved
  BY DEF Moved
<1>3. /\ saga.pc \in Late => place = Moved /\ named = "new" /\ saga.renames
      /\ saga.pc \in {"asked", "checked"} => place = "old" /\ named = "old"
  BY DEF RenameIInv, Early
<1>4. /\ saga.pc \notin {"tracking", "noting", "carrying", "done"} => pushed = {}
      /\ note["new"] # "first" /\ Rename!Exists(local[named])
  BY DEF RenameIInv
<1>5. Sound'
  <2>1. CASE saga.pc \in Late
    BY <1>2, <1>3, <1>4, <2>1 DEF Sound, Late, Moved, Rename!NeverHalfRenamed, Rename!NeverHalfDone,
              Rename!RefusalLeavesOrigin, Rename!Refused, Rename!At
  <2>2. CASE saga.pc \in {"asked", "checked"}
    BY <1>2, <1>3, <1>4, <2>2 DEF Sound, Late, Rename!NeverHalfRenamed, Rename!NeverHalfDone,
              Rename!RefusalLeavesOrigin, Rename!Refused, Rename!At
  <2>. QED BY <2>1, <2>2
<1>. QED BY <1>1, <1>2, <1>3, <1>4, <1>5 DEF RenameIInv, Sound, Late, Early

LEMMA RenameQuiet ==
  ASSUME RenameIInv, \/ Rename!Preflight \/ Rename!Lookup \/ Rename!Fetch \/ Rename!CheckContained
                     \/ Rename!CheckTarget \/ Rename!Track \/ Rename!CheckNote
  PROVE  RenameIInv'
<1>. USE DEF Rename!Steps, Rename!Results, Rename!At, Rename!world, Early, Late
<1>1. /\ saga \in Rename!Job /\ tracks \in Rename!Names \cup {"none"} /\ "new" \in Rename!Names
      /\ local \in [Rename!Names -> Rename!Tip] /\ remote \in [Rename!Names -> Rename!Tip]
  BY DEF RenameIInv, Rename!TypeOK, Rename!Names
<1>. DEFINE Still == /\ UNCHANGED <<place, taken, named, local, remote, note, pushed, made, meanwhile>>
                     /\ tracks' \in Rename!Names \cup {"none"}
<1>2. ASSUME Still, NEW s \in Late \cup {"checked"}, Rename!Goes(s),
             \/ saga.pc = "asked" /\ s = "checked"
             \/ saga.pc \in Late /\ s \in Late,
             s \in {"contained", "clear"} => Rename!Exists(saga.seen) /\ saga.seen \subseteq local["new"],
             saga.pc \in {"tracking", "noting", "carrying"} => s \in {"noting", "carrying"},
             s = "carrying" => note["new"] = "none"
      PROVE  RenameIInv'
  <2>1. /\ saga' \in Rename!Job /\ saga'.pc = s /\ saga'.result = saga.result /\ saga'.seen = saga.seen
        /\ saga'.moves = saga.moves /\ saga'.renames = saga.renames
    BY <1>1, <1>2, SagaMoves DEF Rename!Job
  <2>2. saga.result = "ok"
    BY <1>2 DEF RenameIInv
  <2>. QED BY <1>2, <2>1, <2>2, OnlySaga
<1>3. ASSUME Still, NEW r \in Rename!Results, r # "ok", Rename!Undoes("unnaming", r),
             saga.pc \in Late \ {"tracking", "noting", "carrying"}
      PROVE  RenameIInv'
  <2>1. /\ saga' \in Rename!Job /\ saga'.pc = "unnaming" /\ saga'.result = r
        /\ saga'.moves = saga.moves /\ saga'.renames = saga.renames
    BY <1>1, <1>3, SagaMoves
  <2>. QED BY <1>3, <2>1, OnlySaga
<1>4. ASSUME Still, NEW r \in Rename!Results, Rename!Ends(r),
             \/ saga.pc \in {"asked", "checked"} /\ r # "ok"
             \/ saga.pc \in Late /\ r = "ok"
      PROVE  RenameIInv'
  <2>1. /\ saga' \in Rename!Job /\ saga'.pc = "done" /\ saga'.result = r
        /\ saga'.moves = saga.moves /\ saga'.renames = saga.renames
    BY <1>1, <1>4, SagaMoves
  <2>. QED BY <1>4, <2>1, OnlySaga
<1>5. CASE Rename!Preflight
  <2>1. Still /\ saga.pc = "asked"
    BY <1>1, <1>5 DEF Rename!Preflight
  <2>2. \/ Rename!Ends("target") \/ Rename!Ends("note") \/ Rename!Goes("checked")
    BY <1>5 DEF Rename!Preflight
  <2>. QED BY <1>2, <1>4, <2>1, <2>2
<1>6. CASE Rename!Lookup
  <2>1. Still /\ saga.pc = "renamed"
    BY <1>1, <1>6 DEF Rename!Lookup
  <2>2. \/ Rename!Goes("noting") \/ Rename!Goes("found") \/ Rename!Undoes("unnaming", "lookup")
    BY <1>6 DEF Rename!Lookup
  <2>. QED BY <1>2, <1>3, <2>1, <2>2
<1>7. CASE Rename!Fetch
  <2>1. PICK t \in Rename!Tip : saga' = [saga EXCEPT !.pc = "fetched", !.seen = t]
    BY <1>1, <1>7 DEF Rename!Fetch, Rename!Tip, Rename!Names
  <2>2. /\ saga' \in Rename!Job /\ saga'.pc = "fetched" /\ saga'.result = saga.result
        /\ saga'.moves = saga.moves /\ saga'.renames = saga.renames
    BY <1>1, <2>1 DEF Rename!Job
  <2>3. Still /\ saga.pc = "found" /\ saga.result = "ok"
    BY <1>1, <1>7 DEF Rename!Fetch, RenameIInv
  <2>. QED BY <2>2, <2>3, OnlySaga
<1>8. CASE Rename!CheckContained
  <2>1. Still /\ saga.pc = "fetched"
    BY <1>1, <1>8 DEF Rename!CheckContained
  <2>2. \/ Rename!IsContained /\ Rename!Goes("contained")
        \/ Rename!Undoes("unnaming", "unfetched")
    BY <1>8 DEF Rename!CheckContained
  <2>. QED BY <1>2, <1>3, <2>1, <2>2 DEF Rename!IsContained
<1>9. CASE Rename!CheckTarget
  <2>1. Still /\ saga.pc = "contained"
    BY <1>1, <1>9 DEF Rename!CheckTarget
  <2>2. Rename!Undoes("unnaming", "exists") \/ Rename!Goes("clear")
    BY <1>9 DEF Rename!CheckTarget
  <2>3. Rename!Exists(saga.seen) /\ saga.seen \subseteq local["new"]
    BY <2>1 DEF RenameIInv
  <2>. QED BY <1>2, <1>3, <2>1, <2>2, <2>3
<1>10. CASE Rename!Track
  <2>1. Still /\ saga.pc = "tracking" /\ Rename!Goes("noting")
    BY <1>1, <1>10 DEF Rename!Track
  <2>. QED BY <1>2, <2>1
<1>11. CASE Rename!CheckNote
  <2>1. Still /\ saga.pc = "noting"
    BY <1>1, <1>11 DEF Rename!CheckNote
  <2>2. Rename!Ends("ok") \/ (note["new"] = "none" /\ Rename!Goes("carrying"))
    BY <1>11 DEF Rename!CheckNote, Rename!NoteConflict
  <2>. QED BY <1>2, <1>4, <2>1, <2>2
<1>. QED BY <1>5, <1>6, <1>7, <1>8, <1>9, <1>10, <1>11
\* The three places at which directory, branch, origin or note change before the
\* end, and the two that undo.
LEMMA RenameMoveDir ==
  ASSUME RenameIInv, Rename!MoveDir
  PROVE  RenameIInv'
<1>. USE DEF Rename!Steps, Rename!Results, Rename!At, Rename!world, Early, Late
<1>1. /\ saga \in Rename!Job /\ saga.pc = "checked" /\ saga.result = "ok"
      /\ place = "old" /\ named = "old" /\ pushed = {}
      /\ note["new"] # "first" /\ Rename!Exists(local[named])
  BY DEF RenameIInv, Rename!TypeOK, Rename!MoveDir
<1>2. UNCHANGED <<taken, named, local, remote, tracks, note, pushed, made, meanwhile>>
  BY DEF Rename!MoveDir
<1>3. CASE place' = (IF saga.moves THEN "new" ELSE place) /\ Rename!Goes("moved")
  <2>1. /\ saga' \in Rename!Job /\ saga'.pc = "moved" /\ saga'.result = "ok"
        /\ saga'.moves = saga.moves
    BY <1>1, <1>3, SagaMoves
  <2>2. place' = Moved' /\ place' \in {"old", "new"}
    BY <1>1, <1>3, <2>1 DEF Moved
  <2>3. Rename!TypeOK'
    BY <1>1, <1>2, <2>1, <2>2 DEF RenameIInv, Rename!TypeOK, Rename!Names
  <2>4. Sound'
    BY <2>1 DEF Sound, Rename!NeverHalfRenamed, Rename!NeverHalfDone, Rename!RefusalLeavesOrigin, Rename!Refused
  <2>. QED BY <1>1, <1>2, <2>1, <2>2, <2>3, <2>4 DEF RenameIInv, Sound
<1>4. CASE Rename!Ends("move") /\ UNCHANGED place
  <2>1. saga' \in Rename!Job /\ saga'.pc = "done" /\ saga'.result = "move"
    BY <1>1, <1>4, SagaMoves
  <2>2. Rename!TypeOK'
    BY <1>1, <1>2, <1>4, <2>1 DEF RenameIInv, Rename!TypeOK, Rename!Names
  <2>3. Sound'
    BY <1>1, <1>2, <1>4, <2>1 DEF Sound, Rename!NeverHalfRenamed, Rename!NeverHalfDone,
       Rename!RefusalLeavesOrigin, Rename!Refused
  <2>. QED BY <1>1, <1>2, <1>4, <2>1, <2>2, <2>3 DEF RenameIInv, Sound
<1>. QED BY <1>3, <1>4 DEF Rename!MoveDir

LEMMA RenameBranches ==
  ASSUME RenameIInv, Rename!RenameBranch
  PROVE  RenameIInv'
<1>. USE DEF Rename!Steps, Rename!Results, Rename!At, Rename!world, Early, Late
<1>1. /\ saga \in Rename!Job /\ saga.pc = "moved" /\ saga.result = "ok"
      /\ place = Moved /\ named = "old" /\ pushed = {}
      /\ note["new"] # "first" /\ Rename!Exists(local["old"])
      /\ local \in [Rename!Names -> Rename!Tip]
  BY DEF RenameIInv, Rename!TypeOK, Rename!RenameBranch
<1>2. UNCHANGED <<place, taken, remote, tracks, note, pushed, made, meanwhile>>
  BY DEF Rename!RenameBranch
<1>3. CASE ~ saga.renames /\ Rename!Ends("ok") /\ UNCHANGED <<named, local>>
  <2>1. /\ saga' \in Rename!Job /\ saga'.pc = "done" /\ saga'.result = "ok"
        /\ saga'.moves = saga.moves /\ saga'.renames = saga.renames
    BY <1>1, <1>3, SagaMoves
  <2>2. Rename!TypeOK'
    BY <1>1, <1>2, <1>3, <2>1 DEF RenameIInv, Rename!TypeOK, Rename!Names
  <2>3. Sound'
    BY <1>1, <1>2, <1>3, <2>1 DEF Sound, Rename!NeverHalfRenamed, Rename!NeverHalfDone,
       Rename!RefusalLeavesOrigin, Rename!Refused, Moved
  <2>. QED BY <1>1, <1>2, <1>3, <2>1, <2>2, <2>3 DEF RenameIInv, Sound
<1>4. CASE /\ saga.renames
           /\ local' = [local EXCEPT !["new"] = local["old"], !["old"] = NoTip]
           /\ named' = "new" /\ Rename!Goes("renamed")
  <2>1. /\ saga' \in Rename!Job /\ saga'.pc = "renamed" /\ saga'.result = "ok"
        /\ saga'.moves = saga.moves /\ saga'.renames = saga.renames
    BY <1>1, <1>4, SagaMoves
  <2>2. NoTip \in Rename!Tip /\ "old" \in Rename!Names /\ "new" \in Rename!Names
    BY DEF Rename!Tip, Rename!Names
  <2>3. local' \in [Rename!Names -> Rename!Tip] /\ local'["new"] = local["old"]
    BY <1>1, <1>4, <2>2
  <2>4. Rename!TypeOK'
    BY <1>1, <1>2, <1>4, <2>1, <2>2, <2>3 DEF RenameIInv, Rename!TypeOK
  <2>5. Sound' /\ Moved' = Moved
    BY <2>1 DEF Sound, Rename!NeverHalfRenamed, Rename!NeverHalfDone, Rename!RefusalLeavesOrigin, Rename!Refused, Moved
  <2>. QED BY <1>1, <1>2, <1>4, <2>1, <2>3, <2>4, <2>5 DEF RenameIInv, Sound
<1>5. CASE Rename!Undoes("unmoving", "rename") /\ UNCHANGED <<named, local>>
  <2>1. /\ saga' \in Rename!Job /\ saga'.pc = "unmoving" /\ saga'.result = "rename"
        /\ saga'.moves = saga.moves
    BY <1>1, <1>5, SagaMoves
  <2>2. Rename!TypeOK'
    BY <1>1, <1>2, <1>5, <2>1 DEF RenameIInv, Rename!TypeOK, Rename!Names
  <2>3. Sound' /\ Moved' = Moved
    BY <2>1 DEF Sound, Rename!NeverHalfRenamed, Rename!NeverHalfDone, Rename!RefusalLeavesOrigin, Rename!Refused, Moved
  <2>. QED BY <1>1, <1>2, <1>5, <2>1, <2>2, <2>3 DEF RenameIInv, Sound
<1>. QED BY <1>3, <1>4, <1>5 DEF Rename!RenameBranch

\* A push that is answered has moved both names; one that is not has moved none,
\* unless its answer was lost.
LEMMA PushMoves ==
  ASSUME RenameIInv, Rename!Push, "answer" \notin Windows
  PROVE  \/ /\ remote' \in [Rename!Names -> Rename!Tip] /\ pushed' \subseteq Rename!Names
            /\ remote["old"] \subseteq remote'["new"] /\ ~ Rename!Exists(remote["new"])
            /\ Rename!Goes("tracking")
         \/ Rename!Undoes("unnaming", "push") /\ UNCHANGED <<remote, pushed>>
<1>. USE DEF Rename!At
<1>1. /\ saga.pc = "clear" /\ Rename!Exists(saga.seen) /\ saga.seen \subseteq local["new"]
      /\ named = "new" /\ Rename!Exists(local["new"])
      /\ local \in [Rename!Names -> Rename!Tip] /\ remote \in [Rename!Names -> Rename!Tip]
  BY DEF RenameIInv, Rename!TypeOK, Rename!Push, Late
<1>2. CASE Rename!Undoes("unnaming", "push") /\ UNCHANGED <<remote, pushed>>
  BY <1>2
<1>3. ASSUME NEW refs \in Rename!PushedTogether, NEW answered \in BOOLEAN,
             remote' = [n \in Rename!Names |-> refs[n]],
             pushed' = {n \in Rename!Names : remote'[n] # remote[n]},
             IF pushed' = Rename!Names /\ (answered \/ "answer" \notin Windows) THEN Rename!Goes("tracking")
             ELSE Rename!Undoes("unnaming", "push")
      PROVE  /\ remote' \in [Rename!Names -> Rename!Tip] /\ pushed' \subseteq Rename!Names
             /\ remote["old"] \subseteq remote'["new"] /\ ~ Rename!Exists(remote["new"])
             /\ Rename!Goes("tracking")
  <2>1. refs = [old |-> NoTip, new |-> local["new"]] /\ remote["old"] = saga.seen /\ ~ Rename!Exists(remote["new"])
    BY <1>3 DEF Rename!PushedTogether, Rename!LeasesHold
  <2>2. NoTip \in Rename!Tip /\ local["new"] \in Rename!Tip
    BY <1>1 DEF Rename!Tip, Rename!Names
  <2>3. remote'["old"] = NoTip /\ remote'["new"] = local["new"] /\ remote' \in [Rename!Names -> Rename!Tip]
    BY <1>3, <2>1, <2>2 DEF Rename!Names
  <2>4. pushed' = Rename!Names
    BY <1>1, <1>3, <2>1, <2>3 DEF Rename!Names, Rename!Exists
  <2>. QED BY <1>1, <1>3, <2>1, <2>3, <2>4
<1>. QED BY <1>2, <1>3 DEF Rename!Push

LEMMA RenamePushes ==
  ASSUME RenameIInv, Rename!Push, "answer" \notin Windows
  PROVE  RenameIInv'
<1>. USE DEF Rename!Steps, Rename!Results, Rename!At, Rename!world, Early, Late
<1>1. /\ saga \in Rename!Job /\ saga.pc = "clear" /\ saga.result = "ok"
      /\ place = Moved /\ named = "new" /\ pushed = {} /\ saga.renames
      /\ note["new"] # "first" /\ Rename!Exists(local["new"])
  BY DEF RenameIInv, Rename!TypeOK, Rename!Push
<1>2. UNCHANGED <<place, taken, named, local, tracks, note, made, meanwhile>>
  BY DEF Rename!Push
<1>3. /\ remote' \in [Rename!Names -> Rename!Tip] /\ pushed' \subseteq Rename!Names
      /\ saga' \in Rename!Job /\ saga'.moves = saga.moves /\ saga'.renames = saga.renames
      /\ \/ saga'.pc = "tracking" /\ saga'.result = "ok"
         \/ saga'.pc = "unnaming" /\ saga'.result = "push" /\ pushed' = {}
  <2>1. CASE /\ remote' \in [Rename!Names -> Rename!Tip] /\ pushed' \subseteq Rename!Names
             /\ Rename!Goes("tracking")
    BY <1>1, <2>1, SagaMoves
  <2>2. CASE Rename!Undoes("unnaming", "push") /\ UNCHANGED <<remote, pushed>>
    BY <1>1, <2>2, SagaMoves DEF RenameIInv, Rename!TypeOK
  <2>. QED BY <2>1, <2>2, PushMoves
<1>4. Rename!TypeOK'
  BY <1>1, <1>2, <1>3 DEF RenameIInv, Rename!TypeOK
<1>5. Sound' /\ Moved' = Moved
  BY <1>3 DEF Sound, Rename!NeverHalfRenamed, Rename!NeverHalfDone, Rename!RefusalLeavesOrigin, Rename!Refused, Moved
<1>. QED BY <1>1, <1>2, <1>3, <1>4, <1>5 DEF RenameIInv, Sound

LEMMA RenameCarries ==
  ASSUME RenameIInv, Rename!CarryNote
  PROVE  RenameIInv' /\ \A n \in Rename!Names : note[n] # "none" => \E k \in Rename!Names : note'[k] = note[n]
<1>. USE DEF Rename!Steps, Rename!Results, Rename!At, Rename!world, Early, Late
<1>1. /\ saga \in Rename!Job /\ saga.pc = "carrying" /\ saga.renames
      /\ place = Moved /\ named = "new" /\ note["new"] = "none"
      /\ note \in [Rename!Names -> Rename!Prose]
      /\ "old" \in Rename!Names /\ "new" \in Rename!Names /\ "none" \in Rename!Prose
  BY DEF RenameIInv, Rename!TypeOK, Rename!CarryNote, Rename!Names, Rename!Prose
<1>2. /\ UNCHANGED <<place, taken, named, local, remote, tracks, pushed, made, meanwhile>>
      /\ Rename!Ends("ok")
  BY DEF Rename!CarryNote
<1>3. /\ saga' \in Rename!Job /\ saga'.pc = "done" /\ saga'.result = "ok"
      /\ saga'.moves = saga.moves /\ saga'.renames = saga.renames
  BY <1>1, <1>2, SagaMoves
<1>4. /\ note' \in [Rename!Names -> Rename!Prose]
      /\ \A n \in Rename!Names : note[n] # "none" => \E k \in Rename!Names : note'[k] = note[n]
  <2>1. CASE note' = [note EXCEPT !["new"] = note["old"], !["old"] = "none"]
    <3>1. note' \in [Rename!Names -> Rename!Prose]
      BY <1>1, <2>1
    <3>2. note'["new"] = note["old"]
      BY <1>1, <2>1
    <3>3. \A n \in Rename!Names : n = "old" \/ n = "new"
      BY DEF Rename!Names
    <3>. QED BY <1>1, <3>1, <3>2, <3>3
  <2>2. CASE UNCHANGED note
    BY <1>1, <2>2
  <2>. QED BY <2>1, <2>2 DEF Rename!CarryNote
<1>5. Rename!TypeOK'
  BY <1>1, <1>2, <1>3, <1>4 DEF RenameIInv, Rename!TypeOK
<1>6. Sound'
  BY <1>1, <1>2, <1>3 DEF Sound, Moved, Rename!NeverHalfRenamed, Rename!NeverHalfDone, Rename!RefusalLeavesOrigin, Rename!Refused
<1>7. RenameIInv'
  BY <1>1, <1>2, <1>3, <1>5, <1>6 DEF RenameIInv, Sound
<1>. QED BY <1>4, <1>7

LEMMA RenameUnnames ==
  ASSUME RenameIInv, Rename!Unname
  PROVE  RenameIInv'
<1>. USE DEF Rename!Steps, Rename!Results, Rename!At, Rename!world, Early, Late
<1>1. /\ saga \in Rename!Job /\ saga.pc = "unnaming" /\ saga.result # "ok"
      /\ place = Moved /\ named = "new" /\ pushed = {}
      /\ note["new"] # "first" /\ Rename!Exists(local["new"])
      /\ local \in [Rename!Names -> Rename!Tip]
      /\ "old" \in Rename!Names /\ "new" \in Rename!Names /\ NoTip \in Rename!Tip
  BY DEF RenameIInv, Rename!TypeOK, Rename!Unname, Rename!Names, Rename!Tip
<1>2. UNCHANGED <<place, taken, remote, tracks, note, pushed, made, meanwhile>>
  BY DEF Rename!Unname
<1>3. /\ saga' \in Rename!Job /\ saga'.pc = "unmoving" /\ saga'.result = saga.result
      /\ saga'.moves = saga.moves /\ saga'.renames = saga.renames
  <2>1. Rename!Goes("unmoving") \/ Rename!UnableTo("name", "unmoving")
    BY DEF Rename!Unname
  <2>2. saga.result \in Rename!Results
    BY <1>1 DEF Rename!Job
  <2>. QED BY <1>1, <2>1, <2>2, SagaMoves, StaysBehind
<1>4. /\ local' \in [Rename!Names -> Rename!Tip] /\ named' \in Rename!Names /\ Rename!Exists(local'[named'])
      /\ named' = "old" \/ Rename!Exists(local'["old"]) \/ "name" \in saga'.unable
  <2>1. CASE Rename!UnableTo("name", "unmoving") /\ UNCHANGED <<named, local>>
    BY <1>1, <2>1, StaysBehind
  <2>2. CASE Rename!Exists(local["old"]) /\ UNCHANGED <<named, local>>
    BY <1>1, <2>2
  <2>3. CASE local' = [local EXCEPT !["old"] = local["new"], !["new"] = NoTip] /\ named' = "old"
    BY <1>1, <2>3
  <2>. QED BY <2>1, <2>2, <2>3 DEF Rename!Unname
<1>5. Rename!TypeOK'
  BY <1>1, <1>2, <1>3, <1>4 DEF RenameIInv, Rename!TypeOK
<1>6. Sound' /\ Moved' = Moved
  BY <1>3 DEF Sound, Rename!NeverHalfRenamed, Rename!NeverHalfDone, Rename!RefusalLeavesOrigin, Rename!Refused, Moved
<1>. QED BY <1>1, <1>2, <1>3, <1>4, <1>5, <1>6 DEF RenameIInv, Sound

LEMMA RenameUnmoves ==
  ASSUME RenameIInv, Rename!Unmove
  PROVE  RenameIInv'
<1>. USE DEF Rename!Steps, Rename!Results, Rename!At, Rename!world, Early, Late
<1>1. /\ saga \in Rename!Job /\ saga.pc = "unmoving" /\ saga.result # "ok"
      /\ place = Moved /\ pushed = {} /\ note["new"] # "first"
      /\ named = "old" \/ Rename!Exists(local["old"]) \/ "name" \in saga.unable
      /\ saga.result \in Rename!Results
  BY DEF RenameIInv, Rename!TypeOK, Rename!Unmove, Rename!Job
<1>2. UNCHANGED <<taken, named, local, remote, tracks, note, pushed, made, meanwhile>>
  BY DEF Rename!Unmove
<1>3. /\ saga' \in Rename!Job /\ saga'.pc = "done" /\ saga'.result = saga.result
      /\ saga'.moves = saga.moves /\ saga'.renames = saga.renames
      /\ saga.unable \subseteq saga'.unable
  BY <1>1, SagaMoves, StaysBehind DEF Rename!Unmove
<1>4. place' \in {"old", "new", "inside"} /\ (place' = "old" \/ "old" \in taken \/ "move" \in saga'.unable)
  BY <1>1, StaysBehind DEF Rename!Unmove, Moved
<1>5. Rename!TypeOK'
  BY <1>1, <1>2, <1>3, <1>4 DEF RenameIInv, Rename!TypeOK, Rename!Names
<1>6. Sound'
  BY <1>1, <1>2, <1>3, <1>4 DEF Sound, Rename!NeverHalfRenamed, Rename!NeverHalfDone, Rename!RefusalLeavesOrigin, Rename!Refused
<1>. QED BY <1>1, <1>2, <1>3, <1>4, <1>5, <1>6 DEF RenameIInv, Sound

LEMMA RenameStep ==
  ASSUME {"answer", "reset", "note"} \cap Windows = {}, RenameIInv, [Rename!Next]_renameVars
  PROVE  RenameIInv'
<1>1. CASE UNCHANGED renameVars
  <2>1. UNCHANGED <<place, taken, named, local, remote, tracks, note, saga, pushed, made, meanwhile>>
    BY <1>1 DEF renameVars
  <2>. QED BY <2>1 DEF RenameIInv, Moved, Rename!TypeOK, Rename!Exists, Rename!NeverHalfRenamed,
       Rename!NeverHalfDone, Rename!RefusalLeavesOrigin, Rename!Refused, Rename!At
<1>2. CASE Rename!Others
  BY <1>2, RenameOthers
<1>3. CASE Rename!Rename
  BY <1>3, RenameQuiet, RenameMoveDir, RenameBranches, RenamePushes, RenameCarries, RenameUnnames, RenameUnmoves
     DEF Rename!Rename
<1>. QED BY <1>1, <1>2, <1>3 DEF Rename!Next

\* Two actions the invariant justifies: what the push takes from the old name it gives
\* to a new one that was nobody's, and no prose is written over.
LosesNothing ==
  pushed' # pushed => /\ remote["old"] = NoTip \/ remote["old"] \subseteq remote'["new"]
                      /\ ~ Rename!Exists(remote["new"])

KeepsProse ==
  \A n \in Rename!Names : note[n] # "none" => \E k \in Rename!Names : note'[k] = note[n]

LEMMA RenameLoses ==
  ASSUME {"answer", "reset", "note"} \cap Windows = {}, RenameIInv, Rename!Next
  PROVE  LosesNothing /\ KeepsProse
<1>1. CASE Rename!Others
  BY <1>1, WorldMoves DEF LosesNothing, KeepsProse
<1>2. CASE Rename!Push
  BY <1>2, PushMoves DEF Rename!Push, LosesNothing, KeepsProse
<1>3. CASE Rename!CarryNote
  BY <1>3, RenameCarries DEF Rename!CarryNote, LosesNothing, KeepsProse
<1>4. CASE Rename!Rename /\ ~ Rename!Push /\ ~ Rename!CarryNote
  <2>1. UNCHANGED <<note, pushed>>
    BY <1>4 DEF Rename!Rename, Rename!Preflight, Rename!MoveDir, Rename!RenameBranch, Rename!Lookup,
       Rename!Fetch, Rename!CheckContained, Rename!CheckTarget, Rename!Track, Rename!CheckNote,
       Rename!Unname, Rename!Unmove
  <2>. QED BY <2>1 DEF LosesNothing, KeepsProse
<1>. QED BY <1>1, <1>2, <1>3, <1>4 DEF Rename!Next

LEMMA RenameIsWhole == RenameIInv => Rename!WholeOrNothing
BY DEF RenameIInv, Rename!WholeOrNothing, Rename!NoteMovesLast, Rename!At

-----------------------------------------------------------------------------
(* The daemon's socket: the path names the one daemon that serves, as long as no stale
   file meets two starts at once.                                            *)

LEMMA DaemonAlone ==
  ASSUME [CommandNext]_allvars
  PROVE  [Next]_vars
BY DEF CommandNext, OnlyIn, allvars

\* A bound daemon that has not begun to go.
Bound(d) == pc[d] \in {"restricting", "serving"}

\* The file of a bound daemon is its own.
BoundAtPath == \A d \in Daemons : Bound(d) => path = d

\* What OneAtATime says of the starts under way.
AloneStarting ==
  OneAtATime => \A d, e \in Daemons : pc[d] \in Starting /\ pc[e] \in Starting => d = e

\* A daemon about to unlink has nobody's socket in front of it.
NothingToLose == \A d, e \in Daemons : pc[d] = "unlinking" => ~Bound(e)

\* Without files left behind every file is a bound daemon's, and none is stale.
NothingLeft ==
  ~Leaves => /\ path # NoFile => Bound(path)
             /\ \A d \in Daemons : pc[d] # "unlinking"

\* One that starts alone meets no file where it binds.
NothingToMeet == OneAtATime => \A d \in Daemons : pc[d] = "binding" => path = NoFile

PathIInv ==
  TypeOK /\ BoundAtPath /\ AloneStarting /\ NothingToLose /\ NothingLeft /\ NothingToMeet

LEMMA PathInit == Init => PathIInv
BY DaemonsAssumption
DEF Init, PathIInv, TypeOK, BoundAtPath, AloneStarting, NothingToLose, NothingLeft, NothingToMeet,
    Bound, Starting

\* The type of a step is that of its two parts.
LEMMA PathTypes ==
  ASSUME TypeOK, NEW d \in Daemons, Start(d) \/ Daemon(d) \/ CleanUp(d) \/ Kill(d)
  PROVE  TypeOK'
BY DEF TypeOK, Start, Daemon, CleanUp, Kill, Probe, Unlink, Bind, SetPermissions, Exit, Goto,
       Starting, Listening

LEMMA PathStep ==
  ASSUME OneAtATime \/ ~Leaves, PathIInv, [Next]_vars
  PROVE  PathIInv'
<1>. USE DaemonsAssumption, SwitchesAssumption
<1>1. CASE UNCHANGED vars
  BY <1>1 DEF vars, PathIInv, TypeOK, BoundAtPath, AloneStarting, NothingToLose, NothingLeft,
              NothingToMeet, Bound, Starting
<1>2. ASSUME NEW d \in Daemons, Start(d) PROVE PathIInv'
  <2>1. TypeOK'
    BY <1>2, PathTypes DEF PathIInv
  <2>2. AloneStarting'
    BY <1>2 DEF PathIInv, TypeOK, AloneStarting, Start, Goto, Starting
  <2>. QED BY <1>2, <2>1, <2>2 DEF PathIInv, TypeOK, BoundAtPath, NothingToLose, NothingLeft,
                                  NothingToMeet, Bound, Start, Goto, Starting
<1>3. ASSUME NEW d \in Daemons, Probe(d) PROVE PathIInv'
  <2>1. TypeOK'
    BY <1>3, PathTypes DEF PathIInv, Daemon
  <2>2. AloneStarting'
    BY <1>3 DEF PathIInv, TypeOK, AloneStarting, Probe, Goto, Starting
  <2>3. path' = path /\ \A e \in Daemons : Bound(e)' <=> Bound(e)
    BY <1>3 DEF PathIInv, TypeOK, Probe, Goto, Bound
  <2>4. pc'[d] = "unlinking" => path # NoFile /\ ~Bound(path)
    BY <1>3 DEF PathIInv, TypeOK, Probe, Goto, Bound, InUse, Live, Listening
  <2>5. NothingToLose'
    <3>1. \A e \in Daemons : e # d => pc'[e] = pc[e]
      BY <1>3 DEF PathIInv, TypeOK, Probe, Goto
    <3>. QED BY <2>3, <2>4, <3>1 DEF PathIInv, NothingToLose, BoundAtPath
  <2>6. NothingLeft'
    BY <1>3, <2>3, <2>4 DEF PathIInv, TypeOK, NothingLeft, Probe, Goto, Bound
  <2>7. NothingToMeet'
    BY <1>3, <2>3 DEF PathIInv, TypeOK, NothingToMeet, Probe, Goto
  <2>. QED BY <2>1, <2>2, <2>3, <2>5, <2>6, <2>7 DEF PathIInv, BoundAtPath
<1>4. ASSUME NEW d \in Daemons, Unlink(d) PROVE PathIInv'
  <2>1. TypeOK'
    BY <1>4, PathTypes DEF PathIInv, Daemon
  <2>2. AloneStarting'
    BY <1>4 DEF PathIInv, TypeOK, AloneStarting, Unlink, Goto, Starting
  <2>3. \A e \in Daemons : ~Bound(e)'
    BY <1>4 DEF PathIInv, TypeOK, NothingToLose, Unlink, Goto, Bound
  <2>. QED BY <1>4, <2>1, <2>2, <2>3 DEF PathIInv, TypeOK, BoundAtPath, NothingToLose, NothingLeft,
                                        NothingToMeet, Unlink, Goto
<1>5. ASSUME NEW d \in Daemons, Bind(d) PROVE PathIInv'
  <2>1. TypeOK'
    BY <1>5, PathTypes DEF PathIInv, Daemon
  <2>2. AloneStarting'
    BY <1>5 DEF PathIInv, TypeOK, AloneStarting, Bind, Goto, Starting
  <2>3. \A e \in Daemons : pc'[e] = "unlinking" => pc[e] = "unlinking" /\ e # d
    BY <1>5 DEF PathIInv, TypeOK, Bind, Goto
  <2>4. \A e \in Daemons : pc'[e] # "unlinking"
    BY <1>5, <2>3 DEF PathIInv, AloneStarting, NothingLeft, Bind, Starting
  <2>5. NothingToLose'
    BY <2>4 DEF NothingToLose
  <2>6. BoundAtPath' /\ NothingLeft'
    BY <1>5, <2>4 DEF PathIInv, TypeOK, BoundAtPath, NothingLeft, Bind, Goto, Bound
  <2>7. NothingToMeet'
    BY <1>5 DEF PathIInv, TypeOK, AloneStarting, NothingToMeet, Bind, Goto, Starting
  <2>. QED BY <2>1, <2>2, <2>5, <2>6, <2>7 DEF PathIInv
<1>6. ASSUME NEW d \in Daemons, SetPermissions(d) \/ CleanUp(d) PROVE PathIInv'
  <2>1. TypeOK'
    BY <1>6, PathTypes DEF PathIInv, Daemon
  <2>2. AloneStarting'
    BY <1>6 DEF PathIInv, TypeOK, AloneStarting, SetPermissions, CleanUp, Goto, Starting
  <2>3. path = d
    BY <1>6 DEF PathIInv, BoundAtPath, Bound, SetPermissions, CleanUp
  <2>4. \A e \in Daemons : Bound(e)' => Bound(e)
    BY <1>6 DEF PathIInv, TypeOK, SetPermissions, CleanUp, Goto, Bound
  <2>5. NothingToLose'
    BY <1>6, <2>4 DEF PathIInv, TypeOK, NothingToLose, SetPermissions, CleanUp, Goto
  <2>6. BoundAtPath'
    BY <1>6, <2>3, <2>4 DEF PathIInv, TypeOK, BoundAtPath, Bound, SetPermissions, CleanUp, Goto
  <2>7. NothingLeft'
    BY <1>6, <2>3 DEF PathIInv, TypeOK, NothingLeft, Bound, SetPermissions, CleanUp, Goto
  <2>8. NothingToMeet'
    BY <1>6 DEF PathIInv, TypeOK, NothingToMeet, SetPermissions, CleanUp, Goto
  <2>. QED BY <2>1, <2>2, <2>5, <2>6, <2>7, <2>8 DEF PathIInv
<1>7. ASSUME NEW d \in Daemons, Exit(d) \/ Kill(d) PROVE PathIInv'
  <2>1. TypeOK'
    BY <1>7, PathTypes DEF PathIInv, Daemon
  <2>2. AloneStarting'
    BY <1>7 DEF PathIInv, TypeOK, AloneStarting, Exit, Kill, Goto, Starting
  <2>3. path' = path /\ \A e \in Daemons : Bound(e)' => Bound(e)
    BY <1>7 DEF PathIInv, TypeOK, Exit, Kill, Goto, Bound
  <2>4. NothingToLose' /\ BoundAtPath'
    BY <1>7, <2>3 DEF PathIInv, TypeOK, NothingToLose, BoundAtPath, Exit, Kill, Goto
  <2>5. NothingLeft'
    BY <1>7, <2>3 DEF PathIInv, TypeOK, NothingLeft, Bound, Exit, Kill, Goto
  <2>6. NothingToMeet'
    BY <1>7 DEF PathIInv, TypeOK, NothingToMeet, Exit, Kill, Goto
  <2>. QED BY <2>1, <2>2, <2>4, <2>5, <2>6 DEF PathIInv
<1>. QED BY <1>1, <1>2, <1>3, <1>4, <1>5, <1>6, <1>7 DEF Next, Daemon

\* A start that is refused finds a daemon that is alive, or could not restrict its file.
RefusedForALiveOne ==
  \A d \in Daemons : pc[d] \in Starting /\ pc'[d] = "refused" =>
       \/ pc[d] = "restricting"
       \/ \E e \in Daemons \ {d} : Live(e)

LEMMA PathRefuses ==
  ASSUME OneAtATime \/ ~Leaves, PathIInv, [Next]_vars
  PROVE  RefusedForALiveOne
<1>. SUFFICES ASSUME NEW d \in Daemons, pc[d] \in Starting, pc'[d] = "refused", pc[d] # "restricting"
              PROVE  \E e \in Daemons \ {d} : Live(e)
  BY DEF RefusedForALiveOne
<1>1. Probe(d) \/ Bind(d)
  <2>1. pc' # pc
    BY DEF Starting
  <2>2. PICK e \in Daemons : Start(e) \/ Daemon(e) \/ CleanUp(e) \/ Kill(e)
    BY <2>1 DEF Next, vars
  <2>3. e = d
    BY <2>2 DEF PathIInv, TypeOK, Start, Daemon, CleanUp, Kill, Probe, Unlink, Bind, SetPermissions, Exit, Goto, Starting
  <2>. QED BY <2>2, <2>3 DEF PathIInv, TypeOK, Start, Daemon, CleanUp, Kill, Unlink, SetPermissions, Exit, Goto, Starting
<1>2. CASE Probe(d)
  <2>1. path \in Daemons /\ Live(path)
    BY <1>2 DEF PathIInv, TypeOK, Probe, Goto, InUse
  <2>2. path # d
    BY <1>2, <2>1 DEF Probe, Live, Listening
  <2>. QED BY <2>1, <2>2
<1>3. CASE Bind(d)
  <2>1. path # NoFile /\ pc[d] = "binding"
    BY <1>3 DEF PathIInv, TypeOK, Bind, Goto
  <2>2. Bound(path) /\ path \in Daemons
    BY <2>1, SwitchesAssumption DEF PathIInv, TypeOK, NothingLeft, NothingToMeet
  <2>. QED BY <2>1, <2>2 DEF Bound, Live, Listening
<1>. QED BY <1>1, <1>2, <1>3

-----------------------------------------------------------------------------
(* The forge that is asked.  While the origin stays what it was resolved from, the
   child sees what was made of it, and where it goes follows from that by cases on
   the shape of the origin.                                                 *)

LEMMA ForgeAlone ==
  ASSUME [CommandNext]_allvars, command = "forge"
  PROVE  [Route!RouteNext]_routeVars /\ command' = command
BY DEF CommandNext, OnlyIn, allvars, routeVars

Resolved(kind) ==
  backend = [kind |-> kind, refuse |-> kind = "gitlab" /\ Route!CiConflict(cloned),
             sees |-> Route!Child(cloned, kind)]

RouteIInv ==
  /\ cloned \in Remotes \cup {Route!NoRemote} /\ env \in Environments
  /\ key \in Route!Kinds \cup {Route!Unset} /\ \A h \in DOMAIN hosts : hosts[h] \in Route!Kinds
  /\ backend # Route!NoBackend /\ cloned # Route!NoRemote =>
        Route!Authorised(cloned) \in Route!Kinds /\ Resolved(Route!Authorised(cloned))
  /\ called # Route!NotCalled => backend # Route!NoBackend
  /\ Route!CallsReachTheOrigin

LEMMA RouteInit == Route!RouteInit => RouteIInv
BY DEF Route!RouteInit, RouteIInv, Route!CallsReachTheOrigin, Route!Calls

\* What the host of the origin is authorised as is a forge, or nothing.
LEMMA AuthorisedKinds ==
  ASSUME RouteIInv PROVE Route!Authorised(cloned) \in Route!Kinds \cup {Route!Unset}
BY RouteAssumption DEF Route!Authorised, RouteIInv

\* A pin is an instance: it has a port.
LEMMA PinsAreSomewhere ==
  ASSUME NEW r \in Remotes
  PROVE  /\ Route!FromUrl(r) => Route!Instance(r) # Route!Nowhere
         /\ Route!GhPin(r) # Route!Nowhere => Route!GhPin(r) = Route!Instance(r)
         /\ Route!Path(r) # <<>> /\ (~ Route!IsWeb(r) => Route!Path(r) = <<"", "project">>)
         /\ Route!IsWeb(r) => Route!Path(r) = <<Subfolder[Route!Host(r)], "project">>
<1>1. Route!FromUrl(r) => Route!Instance(r).port # 0
  BY RouteAssumption
     DEF Route!FromUrl, Route!IsWeb, Route!Instance, Route!NoPort, Route!Https
<1>2. Route!FromUrl(r) => Route!Instance(r) # Route!Nowhere
  BY <1>1 DEF Route!Nowhere, Route!NoPort
<1>3. Route!GhPin(r) # Route!Nowhere => Route!GhPin(r) = Route!Instance(r)
  BY DEF Route!GhPin, Route!FromUrl, Route!IsWeb, Route!Instance, Route!Port, Route!NoPort, Route!Https
<1>4. /\ Route!Path(r) # <<>> /\ (~ Route!IsWeb(r) => Route!Path(r) = <<"", "project">>)
      /\ Route!IsWeb(r) => Route!Path(r) = <<Subfolder[Route!Host(r)], "project">>
  BY RouteAssumption DEF Route!Path
<1>. QED BY <1>2, <1>3, <1>4

\* gh: it is pinned, or left to its default, or stands in the repository.
LEMMA GhReachesIt ==
  ASSUME RouteIInv, cloned \in Remotes, Resolved("github"), Route!Answers(Route!GhReaches.at),
         ~ (/\ Route!Host(cloned) = "github.com" /\ Route!GhPin(cloned) = Route!Nowhere
            /\ env.ghHost # Route!Nowhere)
  PROVE  /\ \/ Route!GhReaches.at = Route!Instance(cloned)
            \/ Route!GhReaches.at.host = "github.com" /\ Route!Host(cloned) = "github.com"
         /\ Route!GhReaches.project = <<"", "project">>
<1>. DEFINE pin == Route!GhPin(cloned)
<1>0. cloned # Route!NoRemote
  BY RouteAssumption
<1>1. /\ backend.kind = "github" /\ backend.sees.repo = Route!Nowhere
      /\ backend.sees.host = IF pin # Route!Nowhere THEN pin ELSE env.ghHost
      /\ backend.sees.selector = Route!GhSelector(cloned)
  BY DEF Resolved, Route!Child
<1>2. CASE pin # Route!Nowhere
  <2>1. Route!GhReaches = [at |-> pin, project |-> Route!Path(cloned)]
    BY <1>1, <1>2, PinsAreSomewhere DEF Route!GhReaches, Route!GhSelector
  <2>2. pin = Route!Instance(cloned) /\ pin.host = Route!Host(cloned)
    BY <1>2, PinsAreSomewhere DEF Route!GhPin
  <2>3. Subfolder[Route!Host(cloned)] = ""
    BY <2>1, <2>2, <1>1 DEF Route!Answers
  <2>. QED BY <2>1, <2>2, <2>3, PinsAreSomewhere
<1>3. CASE pin = Route!Nowhere /\ Route!Host(cloned) = "github.com"
  <2>1. env.ghHost = Route!Nowhere
    BY <1>3
  <2>2. Route!GhReaches = [at |-> [host |-> "github.com", port |-> Route!Https],
                           project |-> Route!Path(cloned)]
    BY <1>1, <1>3, <2>1, PinsAreSomewhere DEF Route!GhReaches, Route!GhSelector
  <2>3. Subfolder["github.com"] = ""
    BY <2>2, <1>1 DEF Route!Answers
  <2>. QED BY <1>3, <2>2, <2>3, PinsAreSomewhere
<1>4. CASE pin = Route!Nowhere /\ Route!Host(cloned) # "github.com"
  <2>1. Route!GhReaches = [at |-> Route!Instance(cloned), project |-> <<"", "project">>]
    BY <1>0, <1>1, <1>4 DEF Route!GhReaches, Route!GhSelector
  <2>. QED BY <2>1
<1>. QED BY <1>2, <1>3, <1>4

\* glab: a pipeline that signs it in is of the origin, else it is pinned or stands in
\* the repository.
LEMMA GlabReachesIt ==
  ASSUME RouteIInv, cloned \in Remotes, Resolved("gitlab"), ~ backend.refuse,
         Route!Answers(Route!GlabReaches.at),
         ~ (~ Route!FromUrl(cloned) /\ env.gitlabHost # Route!Nowhere)
  PROVE  /\ Route!GlabReaches.at = Route!Instance(cloned)
         /\ Route!GlabReaches.project = <<"", "project">>
<1>. DEFINE pin == Route!GlabPin(cloned)
<1>0. cloned # Route!NoRemote /\ env \in Environments
  BY RouteAssumption DEF RouteIInv
<1>1. /\ backend.kind = "gitlab" /\ backend.sees.repo = Route!Nowhere
      /\ backend.sees.apiHost = Route!Nowhere
      /\ backend.sees.host = IF pin # Route!Nowhere THEN pin ELSE env.gitlabHost
      /\ backend.sees.selector = Route!GlabSelector(cloned)
      /\ ~ Route!CiConflict(cloned)
  BY DEF Resolved, Route!Child
<1>2. CASE Route!FromUrl(cloned)
  <2>1. pin = Route!Instance(cloned) /\ pin # Route!Nowhere /\ pin.host = Route!Host(cloned)
    BY <1>2, PinsAreSomewhere DEF Route!GlabPin, Route!Instance, Route!FromUrl
  <2>2. env.ci.web # Route!Nowhere => env.ci.web = pin
    BY <1>1, <1>2, <2>1 DEF Route!CiConflict
  <2>3. Route!GlabSelector(cloned) # <<>>
    BY <1>2, PinsAreSomewhere DEF Route!GlabSelector
  <2>4. Route!GlabReaches = [at |-> pin, project |-> Route!GlabSelector(cloned)]
    BY <1>1, <2>1, <2>2, <2>3 DEF Route!GlabReaches
  <2>5. Subfolder[Route!Host(cloned)] = Route!EnvSubfolder
    BY <1>1, <2>1, <2>4 DEF Route!Answers
  <2>6. Route!GlabSelector(cloned) = <<"", "project">>
    <3>1. CASE Route!IsWeb(cloned)
      <4>1. Route!Path(cloned) = <<Route!EnvSubfolder, "project">>
        BY <2>5, <3>1, PinsAreSomewhere
      <4>2. Route!Path(cloned)[1] = Route!EnvSubfolder
        BY <4>1
      <4>. QED BY <1>2, <4>1, <4>2 DEF Route!GlabSelector
    <3>2. CASE ~ Route!IsWeb(cloned)
      BY <1>2, <3>2, PinsAreSomewhere DEF Route!GlabSelector
    <3>. QED BY <3>1, <3>2
  <2>. QED BY <2>1, <2>4, <2>6
<1>3. CASE ~ Route!FromUrl(cloned)
  <2>1. pin = Route!Nowhere /\ Route!GlabSelector(cloned) = <<>> /\ env.gitlabHost = Route!Nowhere
    BY <1>3 DEF Route!GlabPin, Route!GlabSelector
  <2>2. Route!Instance(cloned) = WebOf[cloned.host]
    BY <1>3 DEF Route!Instance, Route!FromUrl
  <2>3. env.ci.web # Route!Nowhere => env.ci.web = Route!Instance(cloned)
    BY <1>0, <1>1, <1>3, <2>2, RouteAssumption DEF Route!CiConflict
  <2>4. Route!GlabReaches = [at |-> Route!Instance(cloned), project |-> <<"", "project">>]
    BY <1>0, <1>1, <2>1, <2>3 DEF Route!GlabReaches
  <2>. QED BY <2>4
<1>. QED BY <1>2, <1>3

LEMMA CallHolds == ASSUME RouteIInv, Route!CallForge PROVE RouteIInv'
<1>. USE DEF Route!CallForge
<1>1. /\ UNCHANGED <<cloned, key, hosts, trusted, env, backend>> /\ backend # Route!NoBackend
      /\ ~ backend.refuse
  OBVIOUS
<1>2. UNCHANGED <<Route!Authorised(cloned), Route!CiConflict(cloned), Route!Instance(cloned),
                  Route!Host(cloned), Route!FromUrl(cloned), Route!GhPin(cloned)>>
      /\ \A k : Route!Child(cloned, k)' = Route!Child(cloned, k)
  BY <1>1 DEF Route!Authorised, Route!CiConflict, Route!Child, Route!GhSelector, Route!GlabSelector,
              Route!EnvSubfolder
<1>3. Route!CallsReachTheOrigin'
  <2>. SUFFICES ASSUME cloned # Route!NoRemote, ~ Route!LeftToDefault', ~ Route!LeftToUser'
                PROVE  /\ \/ called'.at = Route!Instance(cloned)
                          \/ called'.at.host = "github.com" /\ Route!Host(cloned) = "github.com"
                       /\ called'.project = <<"", "project">>
    BY <1>1, <1>2 DEF Route!CallsReachTheOrigin, Route!Calls
  <2>1. cloned \in Remotes /\ Route!Authorised(cloned) \in Route!Kinds /\ Resolved(Route!Authorised(cloned))
    BY <1>1 DEF RouteIInv
  <2>2. backend.kind = Route!Authorised(cloned) /\ called'.kind = backend.kind
    BY <2>1 DEF Resolved
  <2>3. CASE backend.kind = "github"
    BY <1>1, <1>2, <2>1, <2>2, <2>3, GhReachesIt DEF Route!LeftToDefault
  <2>4. CASE backend.kind = "gitlab"
    BY <1>1, <1>2, <2>1, <2>2, <2>4, GlabReachesIt DEF Route!LeftToUser
  <2>. QED BY <2>1, <2>2, <2>3, <2>4 DEF Route!Kinds
<1>. QED BY <1>1, <1>2, <1>3 DEF RouteIInv, Resolved

\* Before anything is resolved nothing was called.
LEMMA UnresolvedHolds ==
  ASSUME RouteIInv, backend = Route!NoBackend, UNCHANGED called
  PROVE  called' = Route!NotCalled /\ Route!CallsReachTheOrigin'
BY DEF RouteIInv, Route!CallsReachTheOrigin, Route!Calls

LEMMA RouteStep ==
  ASSUME "remote" \notin Windows, RouteIInv, [Route!RouteNext]_routeVars PROVE RouteIInv'
<1>1. CASE UNCHANGED routeVars
  BY <1>1 DEF routeVars, RouteIInv, Resolved, Route!Authorised, Route!CiConflict, Route!Child,
      Route!GhSelector, Route!GlabSelector, Route!EnvSubfolder, Route!CallsReachTheOrigin, Route!Calls,
      Route!LeftToDefault, Route!LeftToUser
<1>2. CASE Route!ResolveForge
  <2>1. /\ backend = Route!NoBackend /\ UNCHANGED <<cloned, key, hosts, trusted, env, called>>
        /\ cloned # Route!NoRemote =>
             Route!Authorised(cloned) # Route!Unset /\ Resolved(Route!Authorised(cloned))'
    BY <1>2 DEF Route!ResolveForge, Resolved, Route!Authorised, Route!CiConflict, Route!Child,
         Route!GhSelector, Route!GlabSelector, Route!EnvSubfolder
  <2>2. Route!Authorised(cloned)' = Route!Authorised(cloned)
    BY <2>1 DEF Route!Authorised
  <2>. QED BY <2>1, <2>2, AuthorisedKinds, UnresolvedHolds DEF RouteIInv
<1>3. CASE Route!Allow
  <2>1. /\ backend = Route!NoBackend /\ UNCHANGED <<cloned, key, env, backend, called>>
        /\ \A h \in DOMAIN hosts' : hosts'[h] \in Route!Kinds
    BY <1>3 DEF Route!Allow, RouteIInv
  <2>. QED BY <2>1, UnresolvedHolds DEF RouteIInv
<1>4. CASE Route!CallForge
  BY <1>4, CallHolds
<1>5. ASSUME NEW r \in Remotes, Route!RemoteMoves(r) PROVE RouteIInv'
  <2>1. /\ backend = Route!NoBackend /\ cloned' = r
        /\ UNCHANGED <<key, hosts, env, backend, called>>
    BY <1>5 DEF Route!RemoteMoves
  <2>. QED BY <2>1, UnresolvedHolds DEF RouteIInv
<1>. QED BY <1>1, <1>2, <1>3, <1>4, <1>5 DEF Route!RouteNext

LEMMA RouteHolds == RouteIInv => Route!RouteInv
BY DEF RouteIInv, Route!RouteInv, Route!CallsAreAllowed, Route!Calls, Route!Kinds, Route!Unset

-----------------------------------------------------------------------------
(* What is pushed.  The calls still to make say, name by name, how the forge differs
   from what is declared; what has none fits.  That holds while nobody else writes,
   whatever the order of the calls.                                         *)

LEMMA PushAlone ==
  ASSUME [CommandNext]_allvars, command = "push"
  PROVE  [Pushing!ForgePushNext]_pushVars /\ command' = command
BY DEF CommandNext, OnlyIn, allvars, pushVars

Fits(n) ==
  /\ held[n].state = push.specs[n].state
  /\ \A field \in {"desc", "mark"} :
       \/ held[n][field] = push.specs[n][field]
       \/ /\ forge = "github" /\ push.specs[n][field] = 0
          /\ n \in DOMAIN push.was /\ held[n][field] = push.was[n][field]

Pending(do, n) == \E c \in push.todo : c.do = do /\ c.name = n

\* What a call may be of.
CallIsDue(c) ==
  LET specs == DOMAIN push.specs  was == DOMAIN push.was IN
  \/ c.do = "create" /\ c.name \in specs \ was
  \/ c.do = "update" /\ c.name \in specs \cap was
  \/ c.do = "close" /\ c.name \in specs \ was /\ forge = "gitlab"
  \/ c.do = "delete" /\ c.name \in was \ specs /\ push.prune

Due ==
  /\ \A c \in push.todo : CallIsDue(c) /\ Pushing!Takes(c)
  /\ \A c, d \in push.todo : c.name = d.name => c = d

Underway ==
  LET specs == DOMAIN push.specs  was == DOMAIN push.was IN
  /\ \A n : n \in DOMAIN held <=>
       \/ n \in specs \ was /\ ~ Pending("create", n)
       \/ n \in specs \cap was
       \/ n \in was \ specs /\ (push.prune => Pending("delete", n))
  /\ \A n \in was \ specs : n \in DOMAIN held => held[n] = push.was[n]
  /\ \A n \in specs : Pending("update", n) => held[n] = push.was[n]
  /\ \A n \in specs : (\A c \in push.todo : c.name # n) => Fits(n)

PushIsWhole ==
  push = [step |-> "write", specs |-> push.specs, prune |-> push.prune, was |-> push.was,
          seen |-> push.seen, todo |-> push.todo]

PushIInv ==
  /\ intruders \in Nat
  /\ push # Pushing!NotPushing =>
       /\ PushIsWhole /\ ended = Pushing!NotEnded
       /\ push.seen \in Nat /\ push.seen <= intruders
       /\ Due /\ (intruders = push.seen => Underway)
  /\ ended.how # "none" => ended.seen \in Nat /\ ended.seen <= intruders
  /\ Pushing!PushInv

LEMMA PushInit == Pushing!ForgePushInit => PushIInv
BY DEF Pushing!ForgePushInit, PushIInv, Pushing!NotPushing, Pushing!NotEnded,
       Pushing!PushInv, Pushing!DoneIsDeclared, Pushing!RefusedBeforeAnyCall

\* A push that was not refused begins with the calls its plan names.
LEMMA PushBegins ==
  ASSUME PushIInv, NEW dry \in BOOLEAN, NEW prune \in BOOLEAN, NEW random \in BOOLEAN,
         Pushing!Push(dry, prune, random)
  PROVE  PushIInv'
<1>. DEFINE specs == Pushing!Resolve(declared, random)
            diff == Pushing!Diff(specs)
<1>0. UNCHANGED <<forge, what, held, intruders>> /\ intruders \in Nat
  BY DEF Pushing!Push, PushIInv
<1>1. CASE specs = Pushing!Refusal \/ ~ Pushing!Checked(specs, diff, prune)
  BY <1>0, <1>1
     DEF Pushing!Push, Pushing!Ended, PushIInv, Pushing!PushInv, Pushing!DoneIsDeclared,
         Pushing!RefusedBeforeAnyCall
<1>2. CASE ~ (specs = Pushing!Refusal \/ ~ Pushing!Checked(specs, diff, prune)) /\ dry
  BY <1>0, <1>2
     DEF Pushing!Push, Pushing!Ended, PushIInv, Pushing!PushInv, Pushing!DoneIsDeclared,
         Pushing!RefusedBeforeAnyCall
<1>3. CASE ~ (specs = Pushing!Refusal \/ ~ Pushing!Checked(specs, diff, prune)) /\ ~ dry
  <2>1. /\ push' = [step |-> "write", specs |-> specs, prune |-> prune, was |-> held,
                    seen |-> intruders, todo |-> Pushing!Calls(specs, diff, prune)]
        /\ ended' = Pushing!NotEnded
    BY <1>3 DEF Pushing!Push
  <2>. DEFINE todo == Pushing!Calls(specs, diff, prune)
  <2>2. /\ push'.specs = specs /\ push'.prune = prune /\ push'.was = held
        /\ push'.seen = intruders /\ push'.todo = todo
    BY <2>1
  <2>3. /\ diff.create = DOMAIN specs \ DOMAIN held
        /\ diff.update = {n \in DOMAIN specs \cap DOMAIN held : ~ Pushing!Same(specs[n], held[n])}
        /\ diff.extra = DOMAIN held \ DOMAIN specs
    BY DEF Pushing!Diff
  <2>4. \A c \in todo : \/ c.do = "create" /\ c.name \in diff.create
                        \/ c.do = "update" /\ c.name \in diff.update
                        \/ c.do = "delete" /\ c.name \in diff.extra /\ prune
    BY DEF Pushing!Calls
  <2>5. \A c, d \in todo : c.name = d.name => c = d
    <3>1. \A c \in todo : c = [do |-> c.do, name |-> c.name,
                                id |-> IF c.name \in DOMAIN held THEN held[c.name].id ELSE 0]
      BY DEF Pushing!Calls
    <3>2. \A c, d \in todo : c.name = d.name => c.do = d.do
      BY <2>3, <2>4
    <3>. HIDE DEF todo
    <3>. QED BY <3>1, <3>2
  <2>6. /\ \A n \in diff.create : \E c \in todo : c.do = "create" /\ c.name = n
        /\ \A n \in diff.update : \E c \in todo : c.do = "update" /\ c.name = n
        /\ prune => \A n \in diff.extra : \E c \in todo : c.do = "delete" /\ c.name = n
    <3>. DEFINE due(do, n) == [do |-> do, name |-> n,
                                id |-> IF n \in DOMAIN held THEN held[n].id ELSE 0]
    <3>1. /\ \A n \in diff.create : due("create", n) \in todo
          /\ \A n \in diff.update : due("update", n) \in todo
          /\ prune => \A n \in diff.extra : due("delete", n) \in todo
      BY DEF Pushing!Calls
    <3>2. \A do, n : due(do, n).do = do /\ due(do, n).name = n
      OBVIOUS
    <3>. HIDE DEF due, todo, diff
    <3>. QED BY <3>1, <3>2
  <2>7. Pushing!Checked(specs, diff, prune)
    BY <1>3
  <2>. HIDE DEF specs, diff, todo
  <2>8. Due'
    <3>1. \A c \in todo : CallIsDue(c)'
      BY <2>2, <2>3, <2>4 DEF CallIsDue
    <3>2. \A c \in todo : Pushing!Takes(c)'
      BY <1>0, <2>2, <2>3, <2>4, <2>7
         DEF Pushing!Takes, Pushing!Checked, Pushing!Accepts, Pushing!Named
    <3>. QED BY <3>1, <3>2, <2>2, <2>5 DEF Due
  <2>9. Underway'
    <3>1. \A n : n \in DOMAIN specs \ DOMAIN held => Pending("create", n)'
      BY <2>2, <2>3, <2>6 DEF Pending
    <3>2. prune => \A n \in DOMAIN held \ DOMAIN specs : Pending("delete", n)'
      BY <2>2, <2>3, <2>6 DEF Pending
    <3>3. \A n \in DOMAIN specs : (\A c \in todo : c.name # n) => Fits(n)'
      BY <1>0, <2>2, <2>3, <2>6 DEF Fits, Pushing!Same
    <3>. QED BY <1>0, <2>2, <3>1, <3>2, <3>3 DEF Underway
  <2>10. Pushing!PushInv' /\ ended'.how = "none"
    BY <2>1 DEF Pushing!NotEnded, Pushing!PushInv, Pushing!DoneIsDeclared, Pushing!RefusedBeforeAnyCall
  <2>. QED BY <1>0, <2>1, <2>2, <2>8, <2>9, <2>10 DEF PushIInv, PushIsWhole
<1>. QED BY <1>1, <1>2, <1>3

\* The others, and the end of a push.
LEMMA OthersPass ==
  ASSUME PushIInv, Pushing!Others
  PROVE  PushIInv'
BY DEF Pushing!Others, PushIInv, PushIsWhole, Due, CallIsDue, Pushing!Takes, Pushing!Accepts, Pushing!Named,
       Pushing!PushInv, Pushing!DoneIsDeclared, Pushing!RefusedBeforeAnyCall, Pushing!Alone,
       Pushing!NotEnded

LEMMA PushEnds ==
  ASSUME PushIInv, Pushing!PushFails \/ Pushing!PushDone
  PROVE  PushIInv'
<1>0. /\ UNCHANGED <<forge, what, held, intruders>> /\ push' = Pushing!NotPushing
      /\ push # Pushing!NotPushing /\ intruders \in Nat /\ push.seen \in Nat /\ push.seen <= intruders
      /\ Due /\ (intruders = push.seen => Underway)
  BY DEF Pushing!PushFails, Pushing!PushDone, PushIInv
<1>1. CASE Pushing!PushFails
  <2>1. PICK c \in Pushing!NextCalls :
          Pushing!Ended(IF Pushing!Takes(c) THEN "failed" ELSE "late",
                        push.specs, push.prune, push.was, push.seen)
    BY <1>1 DEF Pushing!PushFails
  <2>2. Pushing!Takes(c)
    BY <1>0 DEF Due, Pushing!NextCalls
  <2>3. ended'.how = "failed" /\ ended'.seen = push.seen
    BY <2>1, <2>2 DEF Pushing!Ended
  <2>. QED BY <1>0, <2>3
         DEF PushIInv, Pushing!PushInv, Pushing!DoneIsDeclared, Pushing!RefusedBeforeAnyCall
<1>2. CASE Pushing!PushDone
  <2>1. /\ push.todo = {}
        /\ ended' = [how |-> "done", specs |-> push.specs, prune |-> push.prune,
                     was |-> push.was, seen |-> push.seen]
    BY <1>2 DEF Pushing!PushDone, Pushing!Ended
  <2>2. ASSUME intruders = push.seen
        PROVE  /\ DOMAIN held = DOMAIN push.specs \cup (IF push.prune THEN {} ELSE DOMAIN push.was)
               /\ \A n \in DOMAIN push.was \ DOMAIN push.specs : n \in DOMAIN held => held[n] = push.was[n]
               /\ \A n \in DOMAIN push.specs : Fits(n)
    BY <1>0, <2>1, <2>2 DEF Underway, Pending
  <2>3. Pushing!DoneIsDeclared'
    BY <1>0, <2>1, <2>2 DEF Pushing!DoneIsDeclared, Pushing!Alone, Fits
  <2>. QED BY <1>0, <2>1, <2>3 DEF PushIInv, Pushing!PushInv, Pushing!RefusedBeforeAnyCall
<1>. QED BY <1>1, <1>2

\* A call that makes an entry, whole or with its closing still to come.
LEMMA PushMakes ==
  ASSUME PushIInv, push # Pushing!NotPushing, NEW c \in push.todo, Pushing!Making(c),
         UNCHANGED <<forge, what, declared, pushes, intruders, ended>>
  PROVE  PushIInv'
<1>. DEFINE n == c.name
            spec == push.specs[n]
            old == IF n \in DOMAIN held THEN held[n] ELSE Pushing!New
            closing == forge = "gitlab" /\ what = "milestones" /\ spec.state = "closed"
            close == [do |-> "close", name |-> n, id |-> old.id]
            todo == (push.todo \ {c}) \cup (IF closing THEN {close} ELSE {})
            result == Pushing!Written(spec, old)
<1>0. /\ intruders \in Nat /\ PushIsWhole /\ ended = Pushing!NotEnded /\ push.seen \in Nat
      /\ push.seen <= intruders /\ Due /\ (intruders = push.seen => Underway)
  BY DEF PushIInv
<1>1. /\ push' = [step |-> "write", specs |-> push.specs, prune |-> push.prune, was |-> push.was,
                  seen |-> push.seen, todo |-> todo]
      /\ c.do \in {"create", "update"} /\ (c.do = "update" => Pushing!Forced)
      /\ held' = [m \in DOMAIN held \cup {n} |->
                    IF m = n THEN [result EXCEPT !.state = IF closing THEN "open" ELSE @] ELSE held[m]]
  <2>1. push' = [push EXCEPT !.todo = todo]
    <3>1. CASE closing
      BY <3>1 DEF Pushing!Making
    <3>2. CASE ~ closing
      BY <3>2 DEF Pushing!Making, Pushing!Onward
    <3>. QED BY <3>1, <3>2
  <2>. HIDE DEF todo
  <2>2. push' = [step |-> "write", specs |-> push.specs, prune |-> push.prune, was |-> push.was,
                 seen |-> push.seen, todo |-> todo]
    BY <1>0, <2>1 DEF PushIsWhole
  <2>. QED BY <2>2 DEF Pushing!Making, Pushing!Put
<1>2. /\ push'.specs = push.specs /\ push'.prune = push.prune /\ push'.was = push.was
      /\ push'.seen = push.seen /\ push'.todo = todo
  BY <1>1
<1>3. CallIsDue(c) /\ Pushing!Takes(c) /\ n \in DOMAIN push.specs
      /\ (c.do = "update" => ~ closing)
      /\ (c.do = "create" => n \notin DOMAIN push.was)
      /\ \A d \in push.todo : d.name = n => d = c
  BY <1>0, <1>1 DEF Due, CallIsDue, Pushing!Forced
<1>4. Due'
  <2>1. \A d \in todo : d \in push.todo \/ (closing /\ d = close)
    OBVIOUS
  <2>2. \A d \in push.todo : CallIsDue(d)' /\ Pushing!Takes(d)'
    BY <1>0, <1>2 DEF Due, CallIsDue, Pushing!Takes, Pushing!Accepts, Pushing!Named
  <2>3. ASSUME NEW d, d = close, closing PROVE CallIsDue(d)' /\ Pushing!Takes(d)'
    BY <1>1, <1>2, <1>3, <2>3 DEF CallIsDue, Pushing!Takes, Pushing!Accepts
  <2>4. \A d, e \in todo : d.name = e.name => d = e
    BY <1>0, <1>3 DEF Due
  <2>. HIDE DEF todo, close
  <2>5. ASSUME NEW d \in todo PROVE CallIsDue(d)' /\ Pushing!Takes(d)'
    BY <2>1, <2>2, <2>3
  <2>. QED BY <1>2, <2>4, <2>5 DEF Due
<1>5. ASSUME intruders = push.seen
      PROVE  Underway'
  <2>0. Underway
    BY <1>0, <1>5
  <2>1. \A do, m : m # n => (Pending(do, m)' <=> Pending(do, m))
    BY <1>2, <1>3 DEF Pending
  <2>2. ~ Pending("create", n)' /\ ~ Pending("update", n)' /\ ~ Pending("delete", n)'
    BY <1>2, <1>3 DEF Pending
  <2>3. /\ DOMAIN held' = DOMAIN held \cup {n}
        /\ \A m \in DOMAIN held : m # n => held'[m] = held[m]
    BY <1>1
  <2>4. \A m \in DOMAIN push.specs : m # n /\ (\A d \in todo : d.name # m) => Fits(m)'
    <3>. SUFFICES ASSUME NEW m \in DOMAIN push.specs, m # n, \A d \in todo : d.name # m
                  PROVE  Fits(m)'
      OBVIOUS
    <3>1. \A d \in push.todo : d.name # m
      OBVIOUS
    <3>2. Fits(m) /\ m \in DOMAIN held
      BY <2>0, <3>1 DEF Underway, Pending
    <3>. QED BY <1>2, <2>3, <3>2 DEF Fits
  <2>5. (\A d \in todo : d.name # n) => Fits(n)'
    <3>0. closing => close \in todo /\ close.name = n
      OBVIOUS
    <3>. SUFFICES ASSUME ~ closing PROVE Fits(n)'
      BY <3>0
    <3>1. held'[n] = result
      <4>1. held'[n] = [result EXCEPT !.state = result.state]
        BY <1>1
      <4>. QED BY <4>1 DEF Pushing!Written
    <3>2. c.do = "create" => n \notin DOMAIN held
      BY <1>3, <2>0 DEF Underway, Pending
    <3>3. c.do = "update" => n \in DOMAIN push.was /\ old = push.was[n]
      BY <1>3, <2>0 DEF Underway, Pending, CallIsDue
    <3>4. c.do = "create" => old = Pushing!New
      BY <3>2
    <3>5. /\ held'[n].state = spec.state
          /\ held'[n].desc = Pushing!Told(spec, "desc", old)
          /\ held'[n].mark = Pushing!Told(spec, "mark", old)
      BY <3>1 DEF Pushing!Written
    <3>6. ASSUME c.do = "create" PROVE \A field \in {"desc", "mark"} : held'[n][field] = spec[field]
      BY <3>4, <3>5, <3>6 DEF Pushing!Told, Pushing!New
    <3>7. ASSUME c.do = "update", NEW field \in {"desc", "mark"}
          PROVE  \/ held'[n][field] = spec[field]
                 \/ forge = "github" /\ spec[field] = 0 /\ held'[n][field] = push.was[n][field]
      BY <3>3, <3>5, <3>7 DEF Pushing!Told
    <3>. QED BY Zenon, <1>1, <1>2, <3>3, <3>5, <3>6, <3>7 DEF Fits
  <2>6. Pending("create", n) \/ n \in DOMAIN push.specs \cap DOMAIN push.was
    BY <1>1, <1>3 DEF Pending, CallIsDue
  <2>. HIDE DEF n
  <2>7. \A m : m \in DOMAIN held' <=>
          \/ m \in DOMAIN push.specs \ DOMAIN push.was /\ ~ Pending("create", m)'
          \/ m \in DOMAIN push.specs \cap DOMAIN push.was
          \/ m \in DOMAIN push.was \ DOMAIN push.specs /\ (push.prune => Pending("delete", m)')
    BY <1>3, <2>0, <2>1, <2>2, <2>3 DEF Underway
  <2>8. \A m \in DOMAIN push.was \ DOMAIN push.specs : m \in DOMAIN held' => held'[m] = push.was[m]
    BY <1>3, <2>0, <2>3 DEF Underway
  <2>9. \A m \in DOMAIN push.specs : Pending("update", m)' => held'[m] = push.was[m]
    <3>. SUFFICES ASSUME NEW m \in DOMAIN push.specs, Pending("update", m)'
                  PROVE  held'[m] = push.was[m]
      OBVIOUS
    <3>1. m # n /\ Pending("update", m)
      BY <2>1, <2>2
    <3>2. held[m] = push.was[m] /\ m \in DOMAIN held
      BY <1>0, <2>0, <3>1 DEF Underway, Pending, CallIsDue, Due
    <3>. QED BY <2>3, <3>1, <3>2
  <2>. QED BY <1>2, <2>4, <2>5, <2>7, <2>8, <2>9 DEF Underway
<1>6. Pushing!PushInv' /\ ended' = Pushing!NotEnded /\ ended'.how = "none"
  BY <1>0 DEF Pushing!NotEnded, Pushing!PushInv, Pushing!DoneIsDeclared, Pushing!RefusedBeforeAnyCall
<1>7. PushIsWhole' /\ push' # Pushing!NotPushing
  BY <1>1, <1>2 DEF PushIsWhole, Pushing!NotPushing
<1>. QED BY <1>0, <1>2, <1>4, <1>5, <1>6, <1>7 DEF PushIInv

\* A call that changes or closes what is there.
LEMMA PushChanges ==
  ASSUME PushIInv, push # Pushing!NotPushing, NEW c \in push.todo, Pushing!Changing(c),
         UNCHANGED <<forge, what, declared, pushes, intruders, ended>>
  PROVE  PushIInv'
<1>. DEFINE n == c.name
            todo == push.todo \ {c}
            result == Pushing!Written(push.specs[n], held[n])
<1>0. /\ intruders \in Nat /\ PushIsWhole /\ ended = Pushing!NotEnded /\ push.seen \in Nat
      /\ push.seen <= intruders /\ Due /\ (intruders = push.seen => Underway)
  BY DEF PushIInv
<1>1. /\ push' = [step |-> "write", specs |-> push.specs, prune |-> push.prune, was |-> push.was,
                  seen |-> push.seen, todo |-> todo]
      /\ c.do \in {"close", "update"} /\ n \in DOMAIN held
      /\ held' = [m \in DOMAIN held \cup {n} |-> IF m = n THEN result ELSE held[m]]
  BY <1>0 DEF Pushing!Changing, Pushing!Finds, Pushing!Onward, Pushing!Put, PushIsWhole
<1>2. /\ push'.specs = push.specs /\ push'.prune = push.prune /\ push'.was = push.was
      /\ push'.seen = push.seen /\ push'.todo = todo
  BY <1>1
<1>3. CallIsDue(c) /\ n \in DOMAIN push.specs /\ \A d \in push.todo : d.name = n => d = c
  BY <1>0, <1>1 DEF Due, CallIsDue
<1>4. Due'
  BY <1>0, <1>2 DEF Due, CallIsDue, Pushing!Takes, Pushing!Accepts, Pushing!Named
<1>5. ASSUME intruders = push.seen
      PROVE  Underway'
  <2>0. Underway
    BY <1>0, <1>5
  <2>1. \A do, m : m # n => (Pending(do, m)' <=> Pending(do, m))
    BY <1>2, <1>3 DEF Pending
  <2>2. \A do : ~ Pending(do, n)'
    BY <1>2, <1>3 DEF Pending
  <2>3. /\ DOMAIN held' = DOMAIN held
        /\ \A m \in DOMAIN held : m # n => held'[m] = held[m]
    BY <1>1
  <2>4. \A m \in DOMAIN push.specs : m # n /\ (\A d \in todo : d.name # m) => Fits(m)'
    <3>. SUFFICES ASSUME NEW m \in DOMAIN push.specs, m # n, \A d \in todo : d.name # m
                  PROVE  Fits(m)'
      OBVIOUS
    <3>1. \A d \in push.todo : d.name # m
      OBVIOUS
    <3>2. Fits(m) /\ m \in DOMAIN held
      BY <2>0, <3>1 DEF Underway, Pending
    <3>. QED BY <1>2, <2>3, <3>2 DEF Fits
  <2>5. Fits(n)'
    <3>1. held'[n] = result
      BY <1>1
    <3>2. c.do = "update" => n \in DOMAIN push.was /\ held[n] = push.was[n]
      BY <1>3, <2>0 DEF Underway, Pending, CallIsDue
    <3>3. c.do = "close" => forge # "github"
      BY <1>3 DEF CallIsDue
    <3>. QED BY <1>1, <1>2, <3>1, <3>2, <3>3 DEF Fits, Pushing!Written, Pushing!Told
  <2>6. ~ Pending("create", n) /\ ~ Pending("delete", n)
    BY <1>1, <1>3 DEF Pending
  <2>. HIDE DEF n
  <2>7. \A m : m \in DOMAIN held' <=>
          \/ m \in DOMAIN push.specs \ DOMAIN push.was /\ ~ Pending("create", m)'
          \/ m \in DOMAIN push.specs \cap DOMAIN push.was
          \/ m \in DOMAIN push.was \ DOMAIN push.specs /\ (push.prune => Pending("delete", m)')
    BY <1>3, <2>0, <2>1, <2>2, <2>3, <2>6 DEF Underway
  <2>8. \A m \in DOMAIN push.was \ DOMAIN push.specs : m \in DOMAIN held' => held'[m] = push.was[m]
    BY <1>3, <2>0, <2>3 DEF Underway
  <2>9. \A m \in DOMAIN push.specs : Pending("update", m)' => held'[m] = push.was[m]
    BY <2>0, <2>1, <2>2, <2>3, <1>0 DEF Underway, Pending, CallIsDue, Due
  <2>. QED BY <1>2, <2>4, <2>5, <2>7, <2>8, <2>9 DEF Underway
<1>6. Pushing!PushInv' /\ ended' = Pushing!NotEnded /\ ended'.how = "none"
  BY <1>0 DEF Pushing!NotEnded, Pushing!PushInv, Pushing!DoneIsDeclared, Pushing!RefusedBeforeAnyCall
<1>7. PushIsWhole' /\ push' # Pushing!NotPushing
  BY <1>1, <1>2 DEF PushIsWhole, Pushing!NotPushing
<1>. QED BY <1>0, <1>2, <1>4, <1>5, <1>6, <1>7 DEF PushIInv

\* A call that prunes.
LEMMA PushPrunes ==
  ASSUME PushIInv, push # Pushing!NotPushing, NEW c \in push.todo, Pushing!Deleting(c),
         UNCHANGED <<forge, what, declared, pushes, intruders, ended>>
  PROVE  PushIInv'
<1>. DEFINE n == c.name
            todo == push.todo \ {c}
<1>0. /\ intruders \in Nat /\ PushIsWhole /\ ended = Pushing!NotEnded /\ push.seen \in Nat
      /\ push.seen <= intruders /\ Due /\ (intruders = push.seen => Underway)
  BY DEF PushIInv
<1>1. /\ push' = [step |-> "write", specs |-> push.specs, prune |-> push.prune, was |-> push.was,
                  seen |-> push.seen, todo |-> todo]
      /\ c.do = "delete"
      /\ held' = [m \in DOMAIN held \ {n} |-> held[m]]
  BY <1>0 DEF Pushing!Deleting, Pushing!Onward, PushIsWhole
<1>2. /\ push'.specs = push.specs /\ push'.prune = push.prune /\ push'.was = push.was
      /\ push'.seen = push.seen /\ push'.todo = todo
  BY <1>1
<1>3. /\ n \in DOMAIN push.was \ DOMAIN push.specs /\ push.prune
      /\ \A d \in push.todo : d.name = n => d = c
  BY <1>0, <1>1 DEF Due, CallIsDue
<1>4. Due'
  BY <1>0, <1>2 DEF Due, CallIsDue, Pushing!Takes, Pushing!Accepts, Pushing!Named
<1>5. ASSUME intruders = push.seen
      PROVE  Underway'
  <2>0. Underway
    BY <1>0, <1>5
  <2>1. \A do, m : m # n => (Pending(do, m)' <=> Pending(do, m))
    BY <1>2, <1>3 DEF Pending
  <2>2. \A do : ~ Pending(do, n)'
    BY <1>2, <1>3 DEF Pending
  <2>3. /\ DOMAIN held' = DOMAIN held \ {n}
        /\ \A m \in DOMAIN held' : held'[m] = held[m]
    BY <1>1
  <2>4. \A m \in DOMAIN push.specs : (\A d \in todo : d.name # m) => Fits(m)'
    <3>. SUFFICES ASSUME NEW m \in DOMAIN push.specs, \A d \in todo : d.name # m
                  PROVE  Fits(m)'
      OBVIOUS
    <3>1. \A d \in push.todo : d.name # m
      BY <1>3
    <3>2. Fits(m) /\ m \in DOMAIN held
      BY <2>0, <3>1 DEF Underway, Pending
    <3>. QED BY <1>2, <1>3, <2>3, <3>2 DEF Fits
  <2>. HIDE DEF n
  <2>7. \A m : m \in DOMAIN held' <=>
          \/ m \in DOMAIN push.specs \ DOMAIN push.was /\ ~ Pending("create", m)'
          \/ m \in DOMAIN push.specs \cap DOMAIN push.was
          \/ m \in DOMAIN push.was \ DOMAIN push.specs /\ (push.prune => Pending("delete", m)')
    BY <1>3, <2>0, <2>1, <2>2, <2>3 DEF Underway
  <2>8. \A m \in DOMAIN push.was \ DOMAIN push.specs : m \in DOMAIN held' => held'[m] = push.was[m]
    BY <2>0, <2>3 DEF Underway
  <2>9. \A m \in DOMAIN push.specs : Pending("update", m)' => held'[m] = push.was[m]
    BY <1>0, <1>3, <2>0, <2>1, <2>3 DEF Underway, Pending, CallIsDue, Due
  <2>. QED BY <1>2, <2>4, <2>7, <2>8, <2>9 DEF Underway
<1>6. Pushing!PushInv' /\ ended' = Pushing!NotEnded /\ ended'.how = "none"
  BY <1>0 DEF Pushing!NotEnded, Pushing!PushInv, Pushing!DoneIsDeclared, Pushing!RefusedBeforeAnyCall
<1>7. PushIsWhole' /\ push' # Pushing!NotPushing
  BY <1>1, <1>2 DEF PushIsWhole, Pushing!NotPushing
<1>. QED BY <1>0, <1>2, <1>4, <1>5, <1>6, <1>7 DEF PushIInv

LEMMA PushStep ==
  ASSUME PushIInv, [Pushing!ForgePushNext]_pushVars
  PROVE  PushIInv'
<1>1. ASSUME NEW dry \in BOOLEAN, NEW prune \in BOOLEAN, NEW random \in BOOLEAN,
             Pushing!Push(dry, prune, random)
      PROVE  PushIInv'
  BY <1>1, PushBegins
<1>2. CASE Pushing!PushCall
  <2>1. PICK c \in push.todo : Pushing!Making(c) \/ Pushing!Changing(c) \/ Pushing!Deleting(c)
    BY <1>2 DEF Pushing!PushCall, Pushing!NextCalls
  <2>2. UNCHANGED <<forge, what, declared, pushes, intruders, ended>> /\ push # Pushing!NotPushing
    BY <1>2 DEF Pushing!PushCall
  <2>. QED BY <2>1, <2>2, PushMakes, PushChanges, PushPrunes
<1>3. CASE Pushing!PushFails \/ Pushing!PushDone
  BY <1>3, PushEnds
<1>4. CASE Pushing!Others
  BY <1>4, OthersPass
<1>5. CASE UNCHANGED pushVars
  BY <1>5 DEF pushVars, PushIInv, PushIsWhole, Due, CallIsDue, Underway, Pending, Fits, Pushing!Takes,
              Pushing!Accepts, Pushing!Named, Pushing!PushInv, Pushing!DoneIsDeclared,
              Pushing!RefusedBeforeAnyCall, Pushing!Alone
<1>. QED BY <1>1, <1>2, <1>3, <1>4, <1>5
       DEF Pushing!ForgePushNext, Pushing!OthersDelete, Pushing!OthersPut

LEMMA PushHolds == PushIInv => Pushing!PushInv
BY DEF PushIInv

-----------------------------------------------------------------------------
(* Sequences made of sets. *)

\* A definition of a module is the same through an instance.
LEMMA SameCounts ==
  ASSUME NEW S
  PROVE  Exec!Cardinality(S) = Cardinality(S)
BY Zenon DEF Exec!Cardinality, Cardinality

LEMMA SetAsSeq ==
  ASSUME NEW S, NEW T \in SUBSET S, IsFiniteSet(T)
  PROVE  /\ Exec!SetToSeq(T) \in Seq(S)
         /\ Exec!SetToSeq(T) = <<>> <=> T = {}
<1>. DEFINE n == Cardinality(T)
<1>1. n \in Nat /\ ExistsBijection(1 .. n, T)
  BY FS_CardinalityType
<1>2. PICK f \in Bijection(1 .. n, T) : TRUE
  BY <1>1 DEF ExistsBijection
<1>3. f \in [1 .. n -> T] /\ Exec!IsInjective(f)
  BY <1>2 DEF Bijection, Injection, IsInjective, Exec!IsInjective
<1>4. Exec!SetToSeq(T) \in [1 .. n -> T]
  <2>1. Exec!SetToSeq(T) = CHOOSE g \in [1 .. n -> T] : Exec!IsInjective(g)
    BY SameCounts, Zenon DEF Exec!SetToSeq
  <2>. HIDE DEF n
  <2>. QED BY <1>3, <2>1
<1>5. n = 0 <=> T = {}
  BY FS_EmptySet
<1>. HIDE DEF n
<1>. DEFINE q == Exec!SetToSeq(T)
<1>6. q \in Seq(T) /\ Len(q) = n
  BY <1>1, <1>4
<1>. HIDE DEF q
<1>7. q \in Seq(S)
  BY <1>6
<1>8. q = <<>> <=> Len(q) = 0
  BY <1>6
<1>. QED BY <1>5, <1>6, <1>7, <1>8 DEF q

\* Induction over the naturals, of a set: on a finite interval an injection is onto.
LEMMA Counted ==
  ASSUME NEW T \in SUBSET Nat, 0 \in T, \A n \in T : n + 1 \in T
  PROVE  T = Nat
<1>. SUFFICES ASSUME NEW m \in Nat, m \notin T PROVE FALSE
  OBVIOUS
<1>. DEFINE f == [i \in 0 .. m |-> IF i \in T THEN i + 1 ELSE i]
<1>1. f \in [0 .. m -> 0 .. m]
  OBVIOUS
<1>2. f \in Injection(0 .. m, 0 .. m)
  <2>1. \A a, b \in 0 .. m : f[a] = f[b] => a = b
    OBVIOUS
  <2>. QED BY <1>1, <2>1 DEF Injection, IsInjective
<1>3. IsFiniteSet(0 .. m)
  BY FS_Interval
<1>4. f \in Surjection(0 .. m, 0 .. m)
  BY <1>2, <1>3, FS_Injection
<1>5. \A i \in 0 .. m : f[i] # 0
  OBVIOUS
<1>. HIDE DEF f
<1>. QED BY <1>4, <1>5 DEF Surjection

\* The recursive function that glues sequences together exists, and what it makes is a
\* sequence of what they hold.
LEMMA FlattenIs ==
  ASSUME NEW S, NEW ss \in Seq(Seq(S))
  PROVE  Exec!FlattenSeq(ss) \in Seq(S)
<1>. DEFINE N == Len(ss)
            T == {m \in Nat : m <= N => \E f \in [1 .. m -> Seq(S)] :
                      \A i \in 1 .. m : f[i] = IF i = 1 THEN ss[i] ELSE f[i - 1] \o ss[i]}
<1>0. \A m \in Nat : m \in T <=> (m <= N => \E f \in [1 .. m -> Seq(S)] :
                      \A i \in 1 .. m : f[i] = IF i = 1 THEN ss[i] ELSE f[i - 1] \o ss[i])
  OBVIOUS
<1>1. N \in Nat /\ \A i \in 1 .. N : ss[i] \in Seq(S)
  OBVIOUS
<1>. HIDE DEF N
<1>2. T = Nat
  <2>1. 0 \in T
    <3>1. \E f \in [1 .. 0 -> Seq(S)] : TRUE
      <4>1. [i \in 1 .. 0 |-> <<>>] \in [1 .. 0 -> Seq(S)]
        OBVIOUS
      <4>. QED BY <4>1
    <3>2. 1 .. 0 = {}
      OBVIOUS
    <3>. QED BY <3>1, <3>2
  <2>2. ASSUME NEW m \in T PROVE m + 1 \in T
    <3>1. ASSUME m + 1 <= N
          PROVE  \E f \in [1 .. m + 1 -> Seq(S)] :
                     \A i \in 1 .. m + 1 : f[i] = IF i = 1 THEN ss[i] ELSE f[i - 1] \o ss[i]
      <4>0. m \in Nat /\ m <= N
        BY <1>1, <3>1
      <4>1. PICK f \in [1 .. m -> Seq(S)] :
                \A i \in 1 .. m : f[i] = IF i = 1 THEN ss[i] ELSE f[i - 1] \o ss[i]
        BY <4>0
      <4>. DEFINE last == IF m = 0 THEN ss[1] ELSE f[m] \o ss[m + 1]
                  g == [i \in 1 .. m + 1 |-> IF i = m + 1 THEN last ELSE f[i]]
      <4>2. last \in Seq(S)
        <5>1. ss[m + 1] \in Seq(S)
          BY <3>1, <4>0, <1>1
        <5>2. CASE m = 0
          BY <5>1, <5>2
        <5>3. CASE m # 0
          <6>1. f[m] \in Seq(S)
            BY <4>0, <5>3
          <6>2. f[m] \o ss[m + 1] \in Seq(S)
            BY <6>1, <5>1
          <6>. QED BY <6>2, <5>3
        <5>. QED BY <5>2, <5>3
      <4>3. g \in [1 .. m + 1 -> Seq(S)]
        <5>. HIDE DEF last
        <5>1. \A i \in 1 .. m + 1 : i = m + 1 \/ i \in 1 .. m
          BY <4>0
        <5>. QED BY <4>2, <5>1
      <4>4. \A i \in 1 .. m + 1 : g[i] = IF i = 1 THEN ss[i] ELSE g[i - 1] \o ss[i]
        <5>. SUFFICES ASSUME NEW i \in 1 .. m + 1
                      PROVE  g[i] = IF i = 1 THEN ss[i] ELSE g[i - 1] \o ss[i]
          OBVIOUS
        <5>1. CASE i = m + 1 /\ m = 0
          BY <5>1
        <5>2. CASE i = m + 1 /\ m # 0
          <6>1. i - 1 = m /\ i # 1 /\ m \in 1 .. m + 1 /\ m # m + 1
            BY <5>2, <4>0
          <6>2. g[i] = last /\ g[m] = f[m]
            BY <5>2, <6>1
          <6>. QED BY <6>1, <6>2, <5>2
        <5>3. CASE i # m + 1
          <6>1. i \in 1 .. m /\ g[i] = f[i]
            BY <5>3, <4>0
          <6>2. i # 1 => g[i - 1] = f[i - 1]
            BY <6>1, <4>0
          <6>. QED BY <6>1, <6>2, <4>1
        <5>. QED BY <5>1, <5>2, <5>3
      <4>. QED BY <4>3, <4>4
    <3>2. m + 1 \in Nat
      OBVIOUS
    <3>. HIDE DEF T
    <3>. QED BY <3>1, <3>2, <1>0
  <2>. HIDE DEF T
  <2>3. T \in SUBSET Nat
    BY DEF T
  <2>. QED BY <2>1, <2>2, <2>3, Counted
<1>3. CASE N = 0
  <2>1. Exec!FlattenSeq(ss) = ss
    BY <1>3 DEF Exec!FlattenSeq, N
  <2>2. ss = <<>>
    BY <1>3 DEF N
  <2>. QED BY <2>1, <2>2
<1>4. CASE N # 0
  <2>1. PICK f \in [1 .. N -> Seq(S)] :
            \A i \in 1 .. N : f[i] = IF i = 1 THEN ss[i] ELSE f[i - 1] \o ss[i]
    <3>1. N \in T
      BY <1>1, <1>2
    <3>. QED BY <3>1, <1>1
  <2>. DEFINE Flat(h) == h = [i \in 1 .. N |-> IF i = 1 THEN ss[i] ELSE h[i - 1] \o ss[i]]
              h == CHOOSE h : Flat(h)
  <2>2. Flat(f)
    BY <2>1
  <2>3. Flat(h)
    <3>. HIDE DEF Flat
    <3>. QED BY <2>2
  <2>4. Exec!FlattenSeq(ss) = h[N]
    BY <1>4 DEF Exec!FlattenSeq, N
  <2>. HIDE DEF h
  <2>5. \A i \in 1 .. N : h[i] = IF i = 1 THEN ss[i] ELSE h[i - 1] \o ss[i]
    BY <2>3
  <2>. DEFINE U == {m \in Nat : m \in 1 .. N => h[m] \in Seq(S)}
  <2>6. U = Nat
    <3>1. 0 \in U
      OBVIOUS
    <3>2. ASSUME NEW m \in U PROVE m + 1 \in U
      <4>. SUFFICES ASSUME m + 1 \in 1 .. N PROVE h[m + 1] \in Seq(S)
        OBVIOUS
      <4>0. m \in Nat /\ ss[m + 1] \in Seq(S)
        BY <1>1
      <4>1. CASE m = 0
        BY <4>0, <4>1, <2>5
      <4>2. CASE m # 0
        <5>1. m \in 1 .. N /\ h[m] \in Seq(S)
          BY <4>0, <4>2, <1>1
        <5>2. h[m + 1] = h[m] \o ss[m + 1]
          <6>1. m + 1 # 1 /\ (m + 1) - 1 = m
            BY <4>0, <4>2
          <6>0. m + 1 \in 1 .. N
            OBVIOUS
          <6>2. h[m + 1] = IF m + 1 = 1 THEN ss[m + 1] ELSE h[(m + 1) - 1] \o ss[m + 1]
            BY <6>0, <2>5, Zenon
          <6>. QED BY <6>1, <6>2, Zenon
        <5>. QED BY <5>1, <5>2, <4>0
      <4>. QED BY <4>1, <4>2
    <3>3. U \in SUBSET Nat
      OBVIOUS
    <3>. HIDE DEF U
    <3>. QED BY <3>1, <3>2, <3>3, Counted
  <2>7. N \in U /\ N \in 1 .. N
    BY <2>6, <1>1, <1>4
  <2>. QED BY <2>4, <2>7
<1>. QED BY <1>3, <1>4

-----------------------------------------------------------------------------
(* gwm exec. *)

\* Who takes part and has been at work, or is.
TakingBy(n) == {r \in Exec!Taking : r <= n}

Ended == {"rollup", "ok", "failed"}

\* Before the first repository nothing has started; outside a run no thread has a target.
NothingYet ==
    /\ step \in {"resolve", "plan", "refused"} => now = 0
    /\ now = 0 => started = <<>> /\ results = <<>> /\ slots = <<>>
    /\ now = 0 \/ step # "run" => \A t \in Exec!Threads : pool[t] = 0

\* One entry per repository, and all of a repository is over before the next one.
RepositoriesInTurn ==
    /\ now \in Nat /\ started \in Seq(Seq(Nat)) /\ results \in Seq({"ok", "failed"})
    /\ step = "run" => Len(started) = Cardinality(TakingBy(now))
    /\ step \in Ended => Len(started) = Cardinality(Exec!Taking)
    /\ \A k \in 1 .. Len(started) - 1 : \A i \in 1 .. Len(started[k]) : started[k][i] = 1

\* Of the repository at work what is below the counter has started once, and is in a
\* thread's hands or has an outcome.
CounterSaysWhat ==
    now # 0 =>
        /\ started # <<>> /\ Len(started[Len(started)]) = Len(slots)
        /\ next \in 1 .. Len(slots) + 1
        /\ step \in Ended => next > Len(slots)
        /\ \A t \in Exec!Threads : pool[t] < next
        /\ \A i \in 1 .. Len(slots) :
              /\ started[Len(started)][i] = IF i < next THEN 1 ELSE 0
              /\ i >= next => slots[i] = "none"
              /\ slots[i] = "none" => i >= next \/ \E t \in Exec!Threads : pool[t] = i

FleetIInv == Exec!FleetTypeOK /\ NothingYet /\ RepositoriesInTurn /\ CounterSaysWhat

LEMMA FleetFinite ==
  /\ IsFiniteSet(Exec!Taking) /\ \A n : IsFiniteSet(TakingBy(n))
  /\ listed \subseteq Worktrees => \A r \in Repos : IsFiniteSet(Exec!Of(r))
<1>1. Exec!Taking \subseteq Repos
  BY DEF Exec!Taking
<1>2. \A n : TakingBy(n) \subseteq Repos
  BY <1>1 DEF TakingBy
<1>3. \A r \in Repos : listed \subseteq Worktrees => Exec!Of(r) \subseteq Worktrees
  BY DEF Exec!Of
<1>. QED BY <1>1, <1>2, <1>3, FleetAssumption, FS_Subset

LEMMA SlugsAre ==
  ASSUME NEW n \in Nat, NEW s \in [1 .. n -> Patterns]
  PROVE  s \in Seq(Patterns)
OBVIOUS

LEMMA FleetInit == Exec!FleetInit => FleetIInv
<1>. SUFFICES ASSUME Exec!FleetInit PROVE FleetIInv
  OBVIOUS
<1>1. slugs \in Seq(Patterns)
  <2>1. PICK n \in 0 .. MaxSlugs : slugs \in [1 .. n -> Patterns]
    BY DEF Exec!FleetInit
  <2>2. n \in Nat
    BY FleetAssumption
  <2>. QED BY <2>1, <2>2, SlugsAre
<1>2. <<>> \in Seq(Worktrees) /\ <<>> \in Seq(Exec!Outcomes) /\ Len(<<>>) = 0
  OBVIOUS
<1>3. jobs \in [Repos -> Exec!Threads] /\ wraps \subseteq Worktrees
  BY DEF Exec!FleetInit
<1>4. targets \in [Repos -> Seq(Worktrees)]
  BY <1>2 DEF Exec!FleetInit
<1>5. Exec!FleetTypeOK
  BY <1>1, <1>2, <1>3, <1>4 DEF Exec!FleetInit, Exec!FleetTypeOK
<1>6. NothingYet
  BY DEF Exec!FleetInit, NothingYet
<1>7. RepositoriesInTurn
  <2>1. <<>> \in Seq(Seq(Nat)) /\ <<>> \in Seq({"ok", "failed"}) /\ 1 .. Len(<<>>) - 1 = {}
    OBVIOUS
  <2>. QED BY <2>1 DEF Exec!FleetInit, RepositoriesInTurn, Ended
<1>8. CounterSaysWhat
  BY DEF Exec!FleetInit, CounterSaysWhat
<1>. QED BY <1>5, <1>6, <1>7, <1>8 DEF FleetIInv

\* What each slug finds are worktrees of the repository.
LEMMA TargetsAre ==
  ASSUME listed \subseteq Worktrees, slugs \in Seq(Patterns), NEW r \in Repos
  PROVE  Exec!Resolved(r) \in Seq(Worktrees)
<1>1. Exec!Of(r) \subseteq Worktrees /\ IsFiniteSet(Exec!Of(r))
  BY FleetFinite DEF Exec!Of
<1>2. \A S : S \subseteq Exec!Of(r) => Exec!SetToSeq(S) \in Seq(Worktrees)
  <2>. SUFFICES ASSUME NEW S \in SUBSET Exec!Of(r) PROVE Exec!SetToSeq(S) \in Seq(Worktrees)
    OBVIOUS
  <2>. QED BY <1>1, FS_Subset, SetAsSeq
<1>3. \A p : Exec!Find(p, Exec!Of(r)) \subseteq Exec!Of(r)
  BY DEF Exec!Find
<1>. DEFINE ss == [i \in 1 .. Len(slugs) |-> Exec!SetToSeq(Exec!Find(slugs[i], Exec!Of(r)))]
<1>4. ss \in Seq(Seq(Worktrees))
  <2>1. \A i \in 1 .. Len(slugs) : Exec!SetToSeq(Exec!Find(slugs[i], Exec!Of(r))) \in Seq(Worktrees)
    BY <1>2, <1>3, Zenon
  <2>2. Len(slugs) \in Nat
    OBVIOUS
  <2>3. ss \in [1 .. Len(slugs) -> Seq(Worktrees)]
    BY <2>1, Zenon
  <2>. HIDE DEF ss
  <2>. QED BY <2>2, <2>3
<1>5. Exec!FlattenSeq(ss) \in Seq(Worktrees)
  <2>. HIDE DEF ss
  <2>. QED BY <1>4, FlattenIs
<1>6. Exec!Found(slugs, Exec!Of(r)) = Exec!FlattenSeq(ss)
  BY Zenon DEF Exec!Found
<1>. QED BY <1>2, <1>5, <1>6 DEF Exec!Resolved

LEMMA ResolveHolds == ASSUME FleetIInv, Exec!Resolve PROVE FleetIInv'
<1>1. step' \in {"refused", "plan"} /\ now = 0 /\ step = "resolve"
  BY DEF Exec!Resolve, FleetIInv, NothingYet
<1>2. targets' \in [Repos -> Seq(Worktrees)]
  <2>1. listed \subseteq Worktrees /\ slugs \in Seq(Patterns) /\ targets \in [Repos -> Seq(Worktrees)]
    BY DEF FleetIInv, Exec!FleetTypeOK
  <2>2. \A r \in Repos : Exec!Resolved(r) \in Seq(Worktrees)
    BY <2>1, TargetsAre
  <2>. QED BY <2>1, <2>2 DEF Exec!Resolve
<1>3. Exec!FleetTypeOK'
  BY <1>1, <1>2 DEF Exec!Resolve, FleetIInv, Exec!FleetTypeOK
<1>4. NothingYet' /\ RepositoriesInTurn' /\ CounterSaysWhat'
  BY <1>1 DEF Exec!Resolve, FleetIInv, NothingYet, RepositoriesInTurn, CounterSaysWhat, Ended
<1>. QED BY <1>3, <1>4 DEF FleetIInv

LEMMA PlanHolds == ASSUME FleetIInv, Exec!Plan PROVE FleetIInv'
<1>1. step' \in {"refused", "ok", "run"} /\ now = 0 /\ step = "plan" /\ started = <<>>
      /\ \A t \in Exec!Threads : pool[t] = 0
  BY DEF Exec!Plan, FleetIInv, NothingYet
<1>2. Exec!FleetTypeOK'
  BY <1>1 DEF Exec!Plan, FleetIInv, Exec!FleetTypeOK
<1>3. NothingYet' /\ CounterSaysWhat'
  BY <1>1 DEF Exec!Plan, FleetIInv, NothingYet, CounterSaysWhat
<1>4. RepositoriesInTurn'
  <2>1. Exec!Taking' = Exec!Taking
    BY DEF Exec!Plan, Exec!Taking
  <2>2. TakingBy(0) = {}
    <3>1. \A r \in Repos : ~ (r <= 0)
      <4>1. Repos \subseteq Nat \ {0}
        BY FleetAssumption
      <4>. QED BY <4>1
    <3>. QED BY <3>1 DEF TakingBy, Exec!Taking
  <2>3. (TakingBy(now))' = TakingBy(0)
    BY <1>1, <2>1 DEF TakingBy, Exec!Plan
  <2>4. step' = "ok" => Exec!Taking = {}
    BY <1>1 DEF Exec!Plan
  <2>5. Cardinality({}) = 0 /\ Len(<<>>) = 0
    BY FS_EmptySet
  <2>. QED BY <1>1, <2>1, <2>2, <2>3, <2>4, <2>5 DEF Exec!Plan, FleetIInv, RepositoriesInTurn, Ended
<1>. QED BY <1>2, <1>3, <1>4 DEF FleetIInv

\* Where a repository is over, every target of it has an outcome.
LEMMA OverIsDone ==
  ASSUME FleetIInv, now # 0, \A t \in Exec!Threads : pool[t] = 0,
         next > Len(slots) \/ "none" \notin {slots[i] : i \in 1 .. Len(slots)}
  PROVE  /\ slots \in Seq({"ok", "failed"}) /\ next > Len(slots)
         /\ \A k \in 1 .. Len(started) : \A i \in 1 .. Len(started[k]) : started[k][i] = 1
<1>. DEFINE last == Len(started)
<1>0. /\ Len(slots) \in Nat /\ next \in 1 .. Len(slots) + 1 /\ slots \in Seq(Exec!Outcomes)
      /\ last \in Nat /\ Len(started[last]) = Len(slots)
      /\ \A i \in 1 .. Len(slots) : started[last][i] = IF i < next THEN 1 ELSE 0
      /\ \A i \in 1 .. Len(slots) : i >= next => slots[i] = "none"
      /\ \A i \in 1 .. Len(slots) : slots[i] = "none" => i >= next \/ \E t \in Exec!Threads : pool[t] = i
      /\ \A k \in 1 .. last - 1 : \A i \in 1 .. Len(started[k]) : started[k][i] = 1
  BY DEF FleetIInv, Exec!FleetTypeOK, RepositoriesInTurn, CounterSaysWhat
<1>1. next > Len(slots)
  <2>. SUFFICES ASSUME next <= Len(slots) PROVE FALSE
    BY <1>0
  <2>1. next \in 1 .. Len(slots)
    BY <1>0
  <2>2. slots[next] = "none"
    BY <2>1, <1>0
  <2>. QED BY <2>1, <2>2, <1>0
<1>2. \A i \in 1 .. Len(slots) : slots[i] # "none"
  <2>. SUFFICES ASSUME NEW i \in 1 .. Len(slots), slots[i] = "none" PROVE FALSE
    OBVIOUS
  <2>1. i < next /\ i # 0
    BY <1>0, <1>1
  <2>2. ~ (i >= next)
    BY <2>1, <1>0
  <2>. QED BY <1>0, <2>1, <2>2
<1>3. slots \in Seq({"ok", "failed"})
  <2>1. \A i \in 1 .. Len(slots) : slots[i] \in {"ok", "failed"}
    BY <1>0, <1>2 DEF Exec!Outcomes
  <2>. QED BY <1>0, <2>1
<1>4. \A i \in 1 .. Len(slots) : started[last][i] = 1
  BY <1>0, <1>1
<1>. HIDE DEF last
<1>5. ASSUME NEW k \in 1 .. last, NEW i \in 1 .. Len(started[k]) PROVE started[k][i] = 1
  <2>1. CASE k = last
    BY <2>1, <1>0, <1>4
  <2>2. CASE k # last
    <3>1. k \in 1 .. last - 1
      BY <1>0, <2>2
    <3>. QED BY <3>1, <1>0
  <2>. QED BY <2>1, <2>2
<1>. QED BY <1>1, <1>3, <1>5 DEF last

LEMMA OpenHolds == ASSUME FleetIInv, NEW r \in Repos, Exec!Open(r) PROVE FleetIInv'
<1>. DEFINE size == Len(targets[r])
            zeros == [i \in 1 .. size |-> 0]
            last == Len(started)
<1>0. /\ step = "run" /\ r \in Exec!Taking /\ now < r /\ now' = r /\ next' = 1
      /\ \A q \in Exec!Taking : q > now => r <= q
      /\ \A t \in Exec!Threads : pool[t] = 0
      /\ slots' = [i \in 1 .. size |-> "none"] /\ started' = Append(started, zeros)
      /\ UNCHANGED <<listed, slugs, planned, wraps, jobs, step, targets, pool>>
  BY DEF Exec!Open
<1>1. targets[r] # <<>> /\ targets[r] \in Seq(Worktrees) /\ size \in Nat /\ r \in Nat \ {0}
  BY <1>0, FleetAssumption DEF Exec!Taking, FleetIInv, Exec!FleetTypeOK
<1>2. zeros \in Seq(Nat) /\ Len(zeros) = size /\ slots' \in Seq(Exec!Outcomes) /\ Len(slots') = size
  BY <1>0, <1>1 DEF Exec!Outcomes
<1>. HIDE DEF size
<1>3. /\ now \in Nat /\ started \in Seq(Seq(Nat)) /\ last \in Nat /\ results \in Seq({"ok", "failed"})
      /\ last = Cardinality(TakingBy(now))
  BY <1>0 DEF FleetIInv, RepositoriesInTurn
<1>. HIDE DEF zeros
<1>4. /\ started' \in Seq(Seq(Nat)) /\ Len(started') = last + 1 /\ started'[last + 1] = zeros
      /\ \A k \in 1 .. last : started'[k] = started[k]
  BY <1>0, <1>2, <1>3
<1>5. Exec!FleetTypeOK'
  <2>1. next' \in Nat /\ now' \in Nat
    BY <1>0, <1>1
  <2>. QED BY <1>0, <1>2, <2>1 DEF FleetIInv, Exec!FleetTypeOK, Exec!Threads
<1>6. NothingYet'
  BY <1>0, <1>1 DEF NothingYet
<1>7. now # 0 => slots \in Seq({"ok", "failed"}) /\ \A k \in 1 .. last : \A i \in 1 .. Len(started[k]) : started[k][i] = 1
  BY <1>0, OverIsDone DEF Exec!Open
<1>8. RepositoriesInTurn'
  <2>1. results' \in Seq({"ok", "failed"})
    <3>1. CASE now = 0
      <4>1. results' = results \o <<>>
        BY <3>1 DEF Exec!Open
      <4>. QED BY <4>1, <1>3
    <3>2. CASE now # 0
      <4>1. results' = results \o slots
        BY <3>2 DEF Exec!Open
      <4>. HIDE DEF last
      <4>. QED BY <4>1, <3>2, <1>3, <1>7
    <3>. QED BY <3>1, <3>2
  <2>2. Len(started') = Cardinality(TakingBy(r))
    <3>1. TakingBy(r) = TakingBy(now) \cup {r}
      <4>1. Exec!Taking \subseteq Nat
        BY FleetAssumption DEF Exec!Taking
      <4>2. ASSUME NEW q \in Exec!Taking PROVE q <= r <=> (q <= now \/ q = r)
        BY <4>1, <1>0, <1>1, <1>3
      <4>. QED BY <4>2, <1>0 DEF TakingBy
    <3>2. r \notin TakingBy(now)
      BY <1>0, <1>1, <1>3 DEF TakingBy
    <3>. QED BY <3>1, <3>2, <1>3, <1>4, FleetFinite, FS_AddElement
  <2>3. Exec!Taking' = Exec!Taking
    BY <1>0 DEF Exec!Taking
  <2>4. (TakingBy(now))' = TakingBy(r)
    BY <2>3, <1>0 DEF TakingBy
  <2>5. \A k \in 1 .. last : \A i \in 1 .. Len(started[k]) : started[k][i] = 1
    <3>1. CASE now = 0
      <4>1. last = 0
        BY <3>1 DEF FleetIInv, NothingYet
      <4>. QED BY <4>1
    <3>. QED BY <3>1, <1>7
  <2>6. Len(started') - 1 = last
    BY <1>3, <1>4
  <2>. HIDE DEF last
  <2>7. \A k \in 1 .. Len(started') - 1 : \A i \in 1 .. Len(started'[k]) : started'[k][i] = 1
    BY <2>5, <2>6, <1>4
  <2>8. now' \in Nat /\ step' = "run"
    BY <1>0, <1>1
  <2>. QED BY <2>1, <2>2, <2>4, <2>7, <2>8, <1>4 DEF RepositoriesInTurn, Ended
<1>9. CounterSaysWhat'
  <2>1. started' # <<>> /\ Len(started'[Len(started')]) = Len(slots')
    BY <1>2, <1>3, <1>4
  <2>2. next' \in 1 .. Len(slots') + 1 /\ \A t \in Exec!Threads : pool'[t] < next'
    BY <1>0, <1>1, <1>2
  <2>3. \A i \in 1 .. Len(slots') : started'[Len(started')][i] = 0 /\ slots'[i] = "none" /\ i >= next' /\ ~ (i < next')
    BY <1>0, <1>1, <1>2, <1>4 DEF zeros
  <2>4. step' = "run"
    BY <1>0
  <2>. QED BY <2>1, <2>2, <2>3, <2>4 DEF CounterSaysWhat, Ended
<1>. QED BY <1>5, <1>6, <1>8, <1>9 DEF FleetIInv

LEMMA TakeHolds == ASSUME FleetIInv, NEW t \in Exec!Threads, Exec!Take(t) PROVE FleetIInv'
<1>. DEFINE last == Len(started)
<1>0. /\ step = "run" /\ now # 0 /\ next <= Len(slots) /\ pool' = [pool EXCEPT ![t] = next] /\ next' = next + 1
      /\ started' = [started EXCEPT ![last][next] = @ + 1]
      /\ UNCHANGED <<listed, slugs, planned, wraps, jobs, step, targets, now, slots, results>>
  BY DEF Exec!Take, Exec!Claim
<1>1. /\ started \in Seq(Seq(Nat)) /\ started # <<>> /\ Len(started[last]) = Len(slots)
      /\ slots \in Seq(Exec!Outcomes) /\ next \in 1 .. Len(slots) + 1 /\ pool \in [Exec!Threads -> Nat]
      /\ \A u \in Exec!Threads : pool[u] < next
  BY <1>0 DEF FleetIInv, Exec!FleetTypeOK, RepositoriesInTurn, CounterSaysWhat
<1>2. last \in 1 .. last /\ last \in Nat /\ Len(slots) \in Nat /\ next \in 1 .. Len(slots)
  BY <1>0, <1>1
<1>. DEFINE row == [started[last] EXCEPT ![next] = started[last][next] + 1]
<1>3. started' = [started EXCEPT ![last] = row] /\ started[last] \in Seq(Nat) /\ started[last][next] \in Nat
  <2>1. started' = [started EXCEPT ![last] = row]
    BY <1>0
  <2>2. started[last] \in Seq(Nat)
    BY <1>1, <1>2
  <2>. QED BY <2>1, <2>2, <1>1, <1>2
<1>4. /\ row \in Seq(Nat) /\ Len(row) = Len(slots) /\ row[next] = started[last][next] + 1
      /\ \A i \in 1 .. Len(slots) : i # next => row[i] = started[last][i]
  BY <1>1, <1>2, <1>3
<1>. HIDE DEF row
<1>5. /\ started' \in Seq(Seq(Nat)) /\ Len(started') = last /\ started'[last] = row
      /\ \A k \in 1 .. last : k # last => started'[k] = started[k]
  BY <1>1, <1>2, <1>3, <1>4
<1>6. Exec!FleetTypeOK'
  BY <1>0, <1>2 DEF FleetIInv, Exec!FleetTypeOK
<1>7. NothingYet'
  BY <1>0 DEF FleetIInv, NothingYet
<1>8. RepositoriesInTurn'
  <2>1. (TakingBy(now))' = TakingBy(now)
    BY <1>0 DEF TakingBy, Exec!Taking
  <2>2. \A k \in 1 .. last - 1 : k \in 1 .. last /\ k # last
    BY <1>2
  <2>3. /\ now \in Nat /\ results \in Seq({"ok", "failed"}) /\ last = Cardinality(TakingBy(now))
        /\ \A k \in 1 .. last - 1 : \A i \in 1 .. Len(started[k]) : started[k][i] = 1
    BY <1>0 DEF FleetIInv, RepositoriesInTurn
  <2>. HIDE DEF last
  <2>4. \A k \in 1 .. last - 1 : \A i \in 1 .. Len(started'[k]) : started'[k][i] = 1
    BY <2>2, <2>3, <1>5
  <2>. QED BY <2>1, <2>3, <2>4, <1>0, <1>5 DEF RepositoriesInTurn, Ended
<1>9. CounterSaysWhat'
  <2>1. started' # <<>> /\ Len(started'[Len(started')]) = Len(slots')
    BY <1>0, <1>2, <1>4, <1>5
  <2>2. next' \in 1 .. Len(slots') + 1 /\ pool'[t] = next /\ \A u \in Exec!Threads : u # t => pool'[u] = pool[u]
    BY <1>0, <1>1, <1>2
  <2>3. \A u \in Exec!Threads : pool'[u] < next'
    <3>. SUFFICES ASSUME NEW u \in Exec!Threads PROVE pool'[u] < next'
      OBVIOUS
    <3>1. pool'[u] = next \/ pool'[u] = pool[u]
      BY <2>2
    <3>2. pool[u] \in Nat /\ pool[u] < next
      BY <1>1
    <3>. QED BY <3>1, <3>2, <1>0, <1>2
  <2>4. \A i \in 1 .. Len(slots) :
          /\ started[last][i] = IF i < next THEN 1 ELSE 0
          /\ i >= next => slots[i] = "none"
          /\ slots[i] = "none" => i >= next \/ \E u \in Exec!Threads : pool[u] = i
    BY <1>0 DEF FleetIInv, CounterSaysWhat
  <2>. HIDE DEF last
  <2>5. ASSUME NEW i \in 1 .. Len(slots)
        PROVE  /\ started'[last][i] = IF i < next' THEN 1 ELSE 0
               /\ i >= next' => slots[i] = "none"
               /\ slots[i] = "none" => i >= next' \/ \E u \in Exec!Threads : pool'[u] = i
    <3>1. CASE i = next
      <4>1. started'[last][i] = 1 /\ i < next' /\ ~ (i >= next')
        BY <3>1, <2>4, <1>0, <1>2, <1>4, <1>5
      <4>2. pool'[t] = i
        BY <3>1, <2>2
      <4>. QED BY <4>1, <4>2
    <3>2. CASE i # next
      <4>1. started'[last][i] = started[last][i]
        BY <3>2, <1>4, <1>5
      <4>2. (i < next' <=> i < next) /\ (i >= next' <=> i >= next)
        BY <3>2, <1>0, <1>2
      <4>3. \A u \in Exec!Threads : pool[u] = i => u # t \/ pool[t] = i
        OBVIOUS
      <4>4. pool[t] = 0 /\ i # 0
        BY DEF Exec!Take
      <4>5. (\E u \in Exec!Threads : pool[u] = i) => \E u \in Exec!Threads : pool'[u] = i
        BY <4>4, <2>2
      <4>. QED BY <4>1, <4>2, <4>5, <2>4
    <3>. QED BY <3>1, <3>2
  <2>6. slots' = slots /\ step' = "run" /\ Len(started') = last
    BY <1>0, <1>5
  <2>. QED BY <2>1, <2>2, <2>3, <2>5, <2>6 DEF CounterSaysWhat, Ended
<1>. QED BY <1>6, <1>7, <1>8, <1>9 DEF FleetIInv

LEMMA FinishHolds == ASSUME FleetIInv, NEW t \in Exec!Threads, Exec!Finish(t) PROVE FleetIInv'
<1>. DEFINE i0 == pool[t]
            last == Len(started)
<1>0. /\ i0 # 0 /\ pool' = [pool EXCEPT ![t] = 0]
      /\ UNCHANGED <<listed, slugs, planned, wraps, jobs, step, targets, now, next, started, results>>
  BY DEF Exec!Finish
<1>1. PICK outcome \in {"ok", "failed"} : slots' = [slots EXCEPT ![i0] = outcome]
  BY DEF Exec!Finish
<1>2. now # 0 /\ step = "run"
  BY <1>0 DEF FleetIInv, NothingYet
<1>3. /\ slots \in Seq(Exec!Outcomes) /\ pool \in [Exec!Threads -> Nat]
      /\ started # <<>> /\ Len(started[last]) = Len(slots) /\ next \in 1 .. Len(slots) + 1
      /\ \A u \in Exec!Threads : pool[u] < next
      /\ \A i \in 1 .. Len(slots) :
          /\ started[last][i] = IF i < next THEN 1 ELSE 0
          /\ i >= next => slots[i] = "none"
          /\ slots[i] = "none" => i >= next \/ \E u \in Exec!Threads : pool[u] = i
  BY <1>2 DEF FleetIInv, Exec!FleetTypeOK, CounterSaysWhat
<1>4. i0 \in Nat /\ i0 < next /\ Len(slots) \in Nat /\ i0 \in 1 .. Len(slots)
  BY <1>0, <1>3
<1>. HIDE DEF i0, last
<1>5. /\ slots' \in Seq(Exec!Outcomes) /\ Len(slots') = Len(slots) /\ slots'[i0] = outcome
      /\ \A i \in 1 .. Len(slots) : i # i0 => slots'[i] = slots[i]
  BY <1>1, <1>3, <1>4 DEF Exec!Outcomes
<1>6. /\ pool' \in [Exec!Threads -> Nat] /\ pool'[t] = 0 /\ \A u \in Exec!Threads : u # t => pool'[u] = pool[u]
  BY <1>0, <1>3
<1>7. Exec!FleetTypeOK'
  BY <1>0, <1>5, <1>6 DEF FleetIInv, Exec!FleetTypeOK
<1>8. NothingYet'
  BY <1>0, <1>2 DEF FleetIInv, NothingYet
<1>9. RepositoriesInTurn'
  BY <1>0 DEF FleetIInv, RepositoriesInTurn, TakingBy, Exec!Taking
<1>10. CounterSaysWhat'
  <2>1. \A u \in Exec!Threads : pool'[u] < next
    <3>. SUFFICES ASSUME NEW u \in Exec!Threads PROVE pool'[u] < next
      OBVIOUS
    <3>1. pool'[u] = 0 \/ pool'[u] = pool[u]
      BY <1>6
    <3>2. 0 < next
      BY <1>3
    <3>. QED BY <3>1, <3>2, <1>3
  <2>2. ASSUME NEW i \in 1 .. Len(slots)
        PROVE  /\ i >= next => slots'[i] = "none"
               /\ slots'[i] = "none" => i >= next \/ \E u \in Exec!Threads : pool'[u] = i
    <3>1. CASE i = i0
      <4>1. slots'[i] # "none" /\ ~ (i >= next)
        BY <3>1, <1>3, <1>4, <1>5
      <4>. QED BY <4>1
    <3>2. CASE i # i0
      <4>1. (\E u \in Exec!Threads : pool[u] = i) => \E u \in Exec!Threads : pool'[u] = i
        BY <3>2, <1>6 DEF i0
      <4>. QED BY <3>2, <4>1, <1>3, <1>5
    <3>. QED BY <3>1, <3>2
  <2>3. next' = next /\ started' = started /\ Len(started') = last /\ step' = "run"
    BY <1>0, <1>2 DEF last
  <2>. QED BY <2>1, <2>2, <2>3, <1>3, <1>5 DEF CounterSaysWhat, Ended, last
<1>. QED BY <1>7, <1>8, <1>9, <1>10 DEF FleetIInv

LEMMA JoinHolds == ASSUME FleetIInv, Exec!Join PROVE FleetIInv'
<1>0. /\ step = "run" /\ now # 0 /\ next > Len(slots) /\ \A t \in Exec!Threads : pool[t] = 0
      /\ \A r \in Exec!Taking : r <= now
      /\ results' = results \o slots /\ step' = "rollup"
      /\ UNCHANGED <<listed, slugs, planned, wraps, jobs, targets, now, next, pool, slots, started>>
  BY DEF Exec!Join
<1>1. slots \in Seq({"ok", "failed"})
  BY <1>0, OverIsDone
<1>2. Exec!FleetTypeOK'
  BY <1>0 DEF FleetIInv, Exec!FleetTypeOK
<1>3. NothingYet'
  BY <1>0 DEF NothingYet
<1>4. RepositoriesInTurn'
  <2>1. TakingBy(now) = Exec!Taking /\ Exec!Taking' = Exec!Taking
    BY <1>0 DEF TakingBy, Exec!Taking
  <2>2. results \in Seq({"ok", "failed"})
    BY DEF FleetIInv, RepositoriesInTurn
  <2>3. results' \in Seq({"ok", "failed"})
    BY <2>2, <1>0, <1>1
  <2>. QED BY <2>1, <2>3, <1>0 DEF FleetIInv, RepositoriesInTurn, Ended
<1>5. CounterSaysWhat'
  BY <1>0 DEF FleetIInv, CounterSaysWhat, Ended
<1>. QED BY <1>2, <1>3, <1>4, <1>5 DEF FleetIInv

LEMMA RollupHolds == ASSUME FleetIInv, Exec!Rollup PROVE FleetIInv'
<1>1. step' \in {"ok", "failed"} /\ step = "rollup"
      /\ UNCHANGED <<listed, slugs, planned, wraps, jobs, targets, now, next, pool, slots, started, results>>
  BY DEF Exec!Rollup
<1>2. Exec!FleetTypeOK'
  BY <1>1 DEF FleetIInv, Exec!FleetTypeOK
<1>3. NothingYet' /\ CounterSaysWhat'
  BY <1>1 DEF FleetIInv, NothingYet, CounterSaysWhat, Ended
<1>4. RepositoriesInTurn'
  BY <1>1 DEF FleetIInv, RepositoriesInTurn, TakingBy, Exec!Taking, Ended
<1>. QED BY <1>2, <1>3, <1>4 DEF FleetIInv

LEMMA FleetStep == ASSUME FleetIInv, Exec!FleetNext PROVE FleetIInv'
BY ResolveHolds, PlanHolds, OpenHolds, TakeHolds, FinishHolds, JoinHolds, RollupHolds DEF Exec!FleetNext

LEMMA FleetIsOnce == FleetIInv => Exec!EveryTargetOnce
<1>. SUFFICES ASSUME FleetIInv PROVE Exec!EveryTargetOnce
  OBVIOUS
<1>. DEFINE last == Len(started)
<1>1. last \in Nat /\ started \in Seq(Seq(Nat)) /\ \A k \in 1 .. last - 1 : \A i \in 1 .. Len(started[k]) : started[k][i] = 1
  BY DEF FleetIInv, RepositoriesInTurn
<1>2. now = 0 => last = 0
  BY DEF FleetIInv, NothingYet
<1>3. now # 0 => /\ Len(started[last]) = Len(slots)
                 /\ \A i \in 1 .. Len(slots) : started[last][i] = IF i < next THEN 1 ELSE 0
  BY DEF FleetIInv, CounterSaysWhat
<1>4. ASSUME NEW k \in 1 .. last, NEW i \in 1 .. Len(started[k]) PROVE started[k][i] <= 1
  <2>1. CASE k = last
    BY <2>1, <1>1, <1>2, <1>3
  <2>2. CASE k # last
    <3>1. k \in 1 .. last - 1
      BY <2>2, <1>1
    <3>2. started[k][i] = 1
      BY <3>1, <1>1
    <3>. QED BY <3>2
  <2>. QED BY <2>1, <2>2
<1>5. step = "refused" => started = <<>>
  BY DEF FleetIInv, NothingYet
<1>6. ASSUME step \in Ended
      PROVE  /\ Len(started) = Exec!Cardinality(Exec!Taking)
             /\ \A k \in 1 .. Len(started) : \A i \in 1 .. Len(started[k]) : started[k][i] = 1
             /\ "none" \notin {results[i] : i \in 1 .. Len(results)}
  <2>1. Len(started) = Exec!Cardinality(Exec!Taking)
    BY <1>6, SameCounts DEF FleetIInv, RepositoriesInTurn
  <2>2. \A k \in 1 .. Len(started) : \A i \in 1 .. Len(started[k]) : started[k][i] = 1
    <3>1. CASE now = 0
      BY <3>1, <1>2
    <3>2. CASE now # 0
      <4>1. next > Len(slots) /\ \A t \in Exec!Threads : pool[t] = 0
        BY <1>6, <3>2 DEF FleetIInv, NothingYet, CounterSaysWhat, Ended
      <4>. QED BY <4>1, <3>2, OverIsDone
    <3>. QED BY <3>1, <3>2
  <2>3. results \in Seq({"ok", "failed"})
    BY DEF FleetIInv, RepositoriesInTurn
  <2>. QED BY <2>1, <2>2, <2>3
<1>. QED BY <1>4, <1>5, <1>6 DEF Exec!EveryTargetOnce, Ended

LEMMA FoundIsMeant == ASSUME listed \subseteq Worktrees PROVE Exec!SlugsMeanOne
<1>. SUFFICES ASSUME NEW p \in Patterns, NEW r \in Repos, NEW w \in Exec!Find(p, Exec!Of(r))
              PROVE  /\ \A v \in Exec!Of(r) \ {w} : v.name # p
                     /\ w.name = p => \A v \in Exec!Of(r) \ {w} : v.id # p
                     /\ (w.name # p /\ w.id # p) =>
                            \A v \in Exec!Of(r) \ {w} : v.id # p /\ <<p, v.name>> \notin Within
  BY DEF Exec!SlugsMeanOne
<1>. DEFINE all == Exec!Of(r)
            ofName == {v \in all : v.name = p}
            ofId == {v \in all : v.id = p}
            ofPart == {v \in all : <<p, v.name>> \in Within}
<1>1. IsFiniteSet(all)
  BY FleetFinite
<1>. HIDE DEF all
<1>2. IsFiniteSet(ofName) /\ IsFiniteSet(ofPart)
  BY <1>1, FS_Subset
<1>3. w \in IF Cardinality(ofName) > 1 \/ (ofName # {} /\ ofId \ ofName # {}) THEN {}
            ELSE IF ofName # {} THEN ofName
            ELSE IF ofId # {} THEN ofId
            ELSE IF Cardinality(ofPart) = 1 THEN ofPart ELSE {}
  BY SameCounts DEF Exec!Find, all
<1>. HIDE DEF ofName, ofPart, ofId
<1>4. ASSUME ofName # {}, ~ (Cardinality(ofName) > 1) PROVE \E x : ofName = {x}
  <2>1. Cardinality(ofName) \in Nat /\ Cardinality(ofName) # 0
    BY <1>2, <1>4, FS_EmptySet, FS_CardinalityType
  <2>2. Cardinality(ofName) = 1
    BY <2>1, <1>4
  <2>. QED BY <2>2, <1>2, FS_Singleton
<1>5. Cardinality(ofPart) = 1 => \E x : ofPart = {x}
  BY <1>2, FS_Singleton
<1>6. CASE ofName # {}
  <2>1. w \in ofName /\ ofId \subseteq ofName /\ \E x : ofName = {x}
    BY <1>3, <1>4, <1>6
  <2>. QED BY <2>1 DEF ofName, ofId, all
<1>7. CASE ofName = {} /\ ofId # {}
  <2>1. w \in ofId
    BY <1>3, <1>7
  <2>. QED BY <2>1, <1>7 DEF ofName, ofId, all
<1>8. CASE ofName = {} /\ ofId = {}
  <2>1. w \in ofPart /\ \E x : ofPart = {x}
    BY <1>3, <1>5, <1>8
  <2>. QED BY <2>1, <1>8 DEF ofName, ofId, ofPart, all
<1>. QED BY <1>6, <1>7, <1>8

LEMMA ExecAlone ==
  ASSUME [CommandNext]_allvars, command = "exec"
  PROVE  [Exec!FleetNext]_execVars /\ command' = command
BY DEF CommandNext, OnlyIn, allvars, execVars

LEMMA ExecRests == ASSUME FleetIInv, UNCHANGED execVars PROVE FleetIInv'
BY DEF execVars, FleetIInv, Exec!FleetTypeOK, NothingYet, RepositoriesInTurn, CounterSaysWhat, TakingBy, Exec!Taking, Ended

-----------------------------------------------------------------------------
(* Removals, and their undoing.  What RemovalProofs shows of them holds of the ones
   here, in a world that stands still: theirs are the same definitions.    *)

\* The same module, with what is proved of it.
Alone == INSTANCE RemovalProofs
    WITH head <- heads, disk <- dirs, tip <- tips,
         Drifts <- TRUE, Interleaved <- FALSE, Failures <- TRUE, MaxWorld <- 0, MaxOid <- 0

LEMMA AloneAssumed ==
  /\ Alone!BasenameAssumption /\ Alone!SomeAssumption /\ Alone!NoneAssumption
  /\ Alone!MaxEntriesAssumption /\ Alone!SwitchAssumption /\ Alone!BoundsAssumption
BY RemovalAssumption, BoundsAssumption DEF Alone!BasenameAssumption, Alone!SomeAssumption, Alone!NoneAssumption,
  Alone!MaxEntriesAssumption, Alone!SwitchAssumption, Alone!BoundsAssumption, Alone!Heads, Alone!Detached, Alone!Unreadable

LEMMA SameInit == Remove!Init => Alone!Init
BY DEF Remove!Init, Alone!Init, Remove!CheckedOut, Alone!CheckedOut, Remove!Blank, Alone!Blank,
  Remove!Unreadable, Alone!Unreadable

LEMMA SameStep ==
  ASSUME worldSteps \in Nat, Remove!Next
  PROVE  Alone!Next
<1>1. \A p \in Procs : Remove!Confirm(p) => Alone!Confirm(p)
  BY Zenon DEF Remove!Confirm, Alone!Confirm, Remove!At, Alone!At, Remove!Goes, Alone!Goes, Remove!Ends, 
    Alone!Ends, Remove!Blank, Alone!Blank, Remove!Unreadable, Alone!Unreadable, Remove!git, 
    Alone!git
<1>2. \A p \in Procs : Remove!Relist(p) => Alone!Relist(p)
  BY DEF Remove!Relist, Alone!Relist, Remove!At, Alone!At, Remove!Goes, Alone!Goes, Remove!Ends, 
    Alone!Ends, Remove!Blank, Alone!Blank, Remove!Unreadable, Alone!Unreadable, Remove!git, 
    Alone!git
<1>3. \A p \in Procs : Remove!VerifyPath(p) => Alone!VerifyPath(p)
  BY DEF Remove!VerifyPath, Alone!VerifyPath, Remove!At, Alone!At, Remove!Goes, Alone!Goes, Remove!Ends, 
    Alone!Ends, Remove!Blank, Alone!Blank, Remove!Unreadable, Alone!Unreadable, Remove!git, 
    Alone!git
<1>4. \A p \in Procs : Remove!PreRemove(p) => Alone!PreRemove(p)
  BY DEF Remove!PreRemove, Alone!PreRemove, Remove!At, Alone!At, Remove!Goes, Alone!Goes, Remove!Ends, 
    Alone!Ends, Remove!Blank, Alone!Blank, Remove!Unreadable, Alone!Unreadable, Remove!git, 
    Alone!git
<1>5. \A p \in Procs : Remove!TakeHandle(p) => Alone!TakeHandle(p)
  BY DEF Remove!TakeHandle, Alone!TakeHandle, Remove!At, Alone!At, Remove!Goes, Alone!Goes, Remove!Ends, 
    Alone!Ends, Remove!Blank, Alone!Blank, Remove!Unreadable, Alone!Unreadable, Remove!git, 
    Alone!git
<1>6. \A p \in Procs : Remove!ReadHead(p) => Alone!ReadHead(p)
  BY Zenon DEF Remove!ReadHead, Alone!ReadHead, Remove!HeadsAt, Alone!HeadsAt, Remove!At, Alone!At, 
    Remove!Goes, Alone!Goes, Remove!Ends, Alone!Ends, Remove!Blank, Alone!Blank, Remove!Unreadable, 
    Alone!Unreadable, Remove!git, Alone!git
<1>7. \A p \in Procs : Remove!Prune(p) => Alone!Prune(p)
  BY DEF Remove!Prune, Alone!Prune, Remove!At, Alone!At, Remove!Goes, Alone!Goes, Remove!Ends, 
    Alone!Ends, Remove!Blank, Alone!Blank, Remove!Unreadable, Alone!Unreadable, Remove!git, 
    Alone!git
<1>8. \A p \in Procs : Remove!RemoveDir(p) => Alone!RemoveDir(p)
  BY DEF Remove!RemoveDir, Alone!RemoveDir, Remove!At, Alone!At, Remove!Goes, Alone!Goes, Remove!Ends, 
    Alone!Ends, Remove!Blank, Alone!Blank, Remove!Unreadable, Alone!Unreadable, Remove!git, 
    Alone!git
<1>9. \A p \in Procs : Remove!LoadJournal(p) => Alone!LoadJournal(p)
  BY DEF Remove!LoadJournal, Alone!LoadJournal, Remove!BranchToRecord, Alone!BranchToRecord, 
    Remove!Detached, Alone!Detached, Remove!TipOf, Alone!TipOf, Remove!At, Alone!At, Remove!Goes, 
    Alone!Goes, Remove!Ends, Alone!Ends, Remove!Blank, Alone!Blank, Remove!Unreadable, 
    Alone!Unreadable, Remove!git, Alone!git
<1>10. \A p \in Procs : Remove!SaveJournal(p) => Alone!SaveJournal(p)
  BY DEF Remove!SaveJournal, Alone!SaveJournal, Remove!Appended, Alone!Appended, Remove!WithoutIndex, 
    Alone!WithoutIndex, Remove!Oldest, Alone!Oldest, Remove!At, Alone!At, Remove!Goes, Alone!Goes, 
    Remove!Ends, Alone!Ends, Remove!Blank, Alone!Blank, Remove!Unreadable, Alone!Unreadable, 
    Remove!git, Alone!git
<1>11. \A p \in Procs : Remove!DeleteBranch(p) => Alone!DeleteBranch(p)
  BY DEF Remove!DeleteBranch, Alone!DeleteBranch, Remove!Occupied, Alone!Occupied, Remove!At, Alone!At, 
    Remove!Goes, Alone!Goes, Remove!Ends, Alone!Ends, Remove!Blank, Alone!Blank, Remove!Unreadable, 
    Alone!Unreadable, Remove!git, Alone!git
<1>12. \A p \in Procs : Remove!Pop(p) => Alone!Pop(p)
  BY Zenon DEF Remove!Pop, Alone!Pop, Remove!IsLatest, Alone!IsLatest, Remove!WithoutIndex, Alone!WithoutIndex, 
    Remove!At, Alone!At, Remove!Goes, Alone!Goes, Remove!Ends, Alone!Ends, Remove!Blank, 
    Alone!Blank, Remove!Unreadable, Alone!Unreadable, Remove!git, Alone!git
<1>13. \A p \in Procs : Remove!Resurrect(p) => Alone!Resurrect(p)
  BY DEF Remove!Resurrect, Alone!Resurrect, Remove!Resurrects, Alone!Resurrects, Remove!At, Alone!At, 
    Remove!Goes, Alone!Goes, Remove!Ends, Alone!Ends, Remove!Blank, Alone!Blank, Remove!Unreadable, 
    Alone!Unreadable, Remove!git, Alone!git
<1>14. \A p \in Procs : Remove!ReAdd(p) => Alone!ReAdd(p)
  BY DEF Remove!ReAdd, Alone!ReAdd, Remove!CanAdd, Alone!CanAdd, Remove!Orphans, Alone!Orphans, 
    Remove!CheckedOut, Alone!CheckedOut, Remove!Occupied, Alone!Occupied, Remove!At, Alone!At, 
    Remove!Goes, Alone!Goes, Remove!Ends, Alone!Ends, Remove!Blank, Alone!Blank, Remove!Unreadable, 
    Alone!Unreadable, Remove!git, Alone!git
<1>15. \A p \in Procs : Remove!SaveUndo(p) => Alone!SaveUndo(p)
  BY DEF Remove!SaveUndo, Alone!SaveUndo, Remove!At, Alone!At, Remove!Goes, Alone!Goes, Remove!Ends, 
    Alone!Ends, Remove!Blank, Alone!Blank, Remove!Unreadable, Alone!Unreadable, Remove!git, 
    Alone!git
<1>16. \A p \in Procs : Remove!Stops(p) => Alone!Stops(p)
  BY DEF Remove!Stops, Alone!Stops, Remove!At, Alone!At, Remove!Goes, Alone!Goes, Remove!Ends, 
    Alone!Ends, Remove!Blank, Alone!Blank, Remove!Unreadable, Alone!Unreadable, Remove!git, 
    Alone!git
<1>17. Remove!World => FALSE
  BY DEF Remove!World, Remove!Moves, Remove!Recreates, Remove!Discards, Remove!Deletes,
     Remove!ChecksOut, Remove!Commits, Remove!WorldMayMove
<1>. QED BY <1>1, <1>2, <1>3, <1>4, <1>5, <1>6, <1>7, <1>8, <1>9, <1>10, <1>11, <1>12, <1>13, <1>14,
  <1>15, <1>16, <1>17 DEF Remove!Next, Alone!Next, Remove!Removes, Alone!Removes, Remove!Undoes, Alone!Undoes

\* Types, and that of the processes that took a worktree one removes it, inductive.
RemoveIInv == Alone!Inv /\ Alone!AloneIInv

LEMMA RemoveInit == Remove!Init => RemoveIInv
BY SameInit, AloneAssumed, Alone!InitInv, Alone!AloneInit DEF RemoveIInv

LEMMA RemoveStep ==
  ASSUME RemoveIInv, [Remove!Next]_removeVars
  PROVE  RemoveIInv'
<1>1. worldSteps \in Nat
  BY DEF RemoveIInv, Alone!Inv, Alone!TypeOK
<1>2. UNCHANGED removeVars => UNCHANGED Alone!vars
  BY DEF removeVars, Alone!vars, Alone!git
<1>3. [Alone!Next]_(Alone!vars)
  BY <1>1, <1>2, SameStep
<1>4. Alone!Inv'
  BY <1>3, AloneAssumed, Alone!NextInv DEF RemoveIInv
<1>5. Alone!AloneIInv'
  BY <1>3, AloneAssumed, Alone!AloneNext DEF RemoveIInv
<1>. QED BY <1>4, <1>5 DEF RemoveIInv

LEMMA RemoveHolds == RemoveIInv => Remove!TypeOK /\ Remove!OneRemoverPerWorktree
<1>1. Alone!TypeOK => Remove!TypeOK
  BY DEF Alone!TypeOK, Remove!TypeOK, Alone!Heads, Remove!Heads, Alone!Detached, Remove!Detached,
     Alone!Oid, Remove!Oid, Alone!Entry, Remove!Entry, Alone!Proc, Remove!Proc, Alone!Steps, Remove!Steps,
     Alone!Unreadable, Remove!Unreadable
<1>2. Alone!OneRemoverPerWorktree => Remove!OneRemoverPerWorktree
  BY DEF Alone!OneRemoverPerWorktree, Remove!OneRemoverPerWorktree, Alone!At, Remove!At
<1>. QED BY <1>1, <1>2 DEF RemoveIInv, Alone!Inv, Alone!AloneIInv, Alone!AloneInv

LEMMA RemoveAlone ==
  ASSUME [CommandNext]_allvars, command = "remove"
  PROVE  [Remove!Next]_removeVars /\ command' = command
BY DEF CommandNext, OnlyIn, allvars, removeVars

-----------------------------------------------------------------------------
(* The doctor, its --fix, and prune.  What HousekeepingProofs shows of them holds of
   the ones here: theirs are the same definitions.                         *)

\* The same module, with what is proved of it.
Tidy == INSTANCE HousekeepingProofs

LEMMA TidyCounts == \A S : House!Cardinality(S) = Tidy!Cardinality(S)
BY Zenon DEF House!Cardinality, Tidy!Cardinality

LEMMA TidyContents == House!Contents = Tidy!Contents
BY DEF House!Contents, Tidy!Contents, House!Fine, Tidy!Fine, House!NoStep, Tidy!NoStep

LEMMA TidySetups == House!Setups = Tidy!Setups
BY TidyContents DEF House!Setups, Tidy!Setups, House!In, Tidy!In, House!Files, Tidy!Files, House!Globals,
  Tidy!Globals

LEMMA TidyInit == House!HouseInit => Tidy!HouseInit
BY TidyCounts, TidySetups, Zenon DEF House!HouseInit, Tidy!HouseInit, House!NoReport, Tidy!NoReport, House!Unsaid, Tidy!Unsaid,
  House!Checks, Tidy!Checks, House!Job, Tidy!Job, House!Idle, Tidy!Idle, House!Cells, Tidy!Cells,
  House!Shapes, Tidy!Shapes, House!Fine, Tidy!Fine, House!NoStep, Tidy!NoStep, House!Entries,
  Tidy!Entries, House!Tokens, Tidy!Tokens, House!Atoms, Tidy!Atoms, House!Safe, Tidy!Safe

LEMMA TidyStep == ASSUME House!HouseNext PROVE Tidy!HouseNext
<1>1. House!ListOrphans => Tidy!ListOrphans
  BY DEF House!ListOrphans, Tidy!ListOrphans, House!OrphanKeys, Tidy!OrphanKeys, House!Cells, Tidy!Cells
<1>2. House!ReadBack => Tidy!ReadBack
  BY DEF House!ReadBack, Tidy!ReadBack, House!Cardinality, Tidy!Cardinality, House!OrphanKeys,
    Tidy!OrphanKeys, House!Cells, Tidy!Cells, House!MapThenSumSet, Tidy!MapThenSumSet,
    House!MapThenFoldSet, Tidy!MapThenFoldSet
<1>3. House!ListTrees => Tidy!ListTrees
  BY DEF House!ListTrees, Tidy!ListTrees, House!CheckConfigParses, Tidy!CheckConfigParses, House!Verdict,
    Tidy!Verdict, House!Loads, Tidy!Loads, House!Merges, Tidy!Merges, House!CheckGuardReferences, Tidy!CheckGuardReferences,
    House!CheckWhenPredicates, Tidy!CheckWhenPredicates, House!AtomsOf, Tidy!AtomsOf, House!Atoms,
    Tidy!Atoms, House!Safe, Tidy!Safe, House!Step, Tidy!Step, House!NoStep, Tidy!NoStep,
    House!CheckBinariesOnPath, Tidy!CheckBinariesOnPath, House!Needed, Tidy!Needed, House!GatedOff,
    Tidy!GatedOff, House!SafeToEvaluate, Tidy!SafeToEvaluate, House!EvaluateWhen, Tidy!EvaluateWhen,
    House!Parse, Tidy!Parse, House!EvalAtom, Tidy!EvalAtom, House!ExecutableIn, Tidy!ExecutableIn,
    House!Min, Tidy!Min, House!CheckPrunable, Tidy!CheckPrunable, House!Prunable, Tidy!Prunable
<1>4. House!Diagnose => Tidy!Diagnose
  BY DEF House!Diagnose, Tidy!Diagnose, House!OrphanBranches, Tidy!OrphanBranches, House!Verdict,
    Tidy!Verdict, House!OrphanNotes, Tidy!OrphanNotes, House!OrphanKeys, Tidy!OrphanKeys,
    House!Cells, Tidy!Cells, House!CheckBaseDirWritable, Tidy!CheckBaseDirWritable,
    House!CheckTuiKeymap, Tidy!CheckTuiKeymap, House!Loads, Tidy!Loads, House!Merges, Tidy!Merges, House!CheckBranchPattern,
    Tidy!CheckBranchPattern
<1>5. House!PlanPrune => Tidy!PlanPrune
  BY DEF House!PlanPrune, Tidy!PlanPrune, House!Prunable, Tidy!Prunable
<1>6. House!Pruned => Tidy!Pruned
  BY DEF House!Pruned, Tidy!Pruned
<1>7. House!Evaluate => Tidy!Evaluate
  BY DEF House!Evaluate, Tidy!Evaluate, House!EvaluateWhen, Tidy!EvaluateWhen, House!Parse, Tidy!Parse,
    House!Atoms, Tidy!Atoms, House!Safe, Tidy!Safe, House!EvalAtom, Tidy!EvalAtom
<1>8. \A c : House!Drop(c) => Tidy!Drop(c)
  BY DEF House!Drop, Tidy!Drop, House!Reachable, Tidy!Reachable, House!Removed, Tidy!Removed,
    House!NeedsMultivar, Tidy!NeedsMultivar
<1>9. \A b : House!PruneOne(b) => Tidy!PruneOne(b)
  BY DEF House!PruneOne, Tidy!PruneOne
<1>10. \A b : House!MadeBranch(b) => Tidy!MadeBranch(b)
  BY DEF House!MadeBranch, Tidy!MadeBranch, House!Between, Tidy!Between, House!Cells, Tidy!Cells
<1>11. \A b : House!DeletedBranch(b) => Tidy!DeletedBranch(b)
  BY DEF House!DeletedBranch, Tidy!DeletedBranch, House!Between, Tidy!Between
<1>12. \A b, e : House!CameBack(b, e) => Tidy!CameBack(b, e)
  BY DEF House!CameBack, Tidy!CameBack, House!Between, Tidy!Between
<1>. QED BY <1>1, <1>2, <1>3, <1>4, <1>5, <1>6, <1>7, <1>8, <1>9, <1>10, <1>11, <1>12, Zenon
     DEF House!HouseNext, Tidy!HouseNext, House!Cells, Tidy!Cells, House!Entries, Tidy!Entries

LEMMA TidyHolds == Tidy!HousekeepingHolds => House!HousekeepingHolds
<1>1. Tidy!HouseTypeOK => House!HouseTypeOK
  BY TidyCounts, TidyContents, Zenon DEF House!HouseTypeOK, Tidy!HouseTypeOK, House!Cells, Tidy!Cells, House!Shapes, Tidy!Shapes,
    House!Entries, Tidy!Entries, House!Checks, Tidy!Checks, House!In, Tidy!In, House!Files, Tidy!Files,
    House!Globals, Tidy!Globals
<1>2. Tidy!FixTellsWhatItDid => House!FixTellsWhatItDid
  BY DEF House!FixTellsWhatItDid, Tidy!FixTellsWhatItDid, House!Cardinality, Tidy!Cardinality,
    House!Cells, Tidy!Cells
<1>3. Tidy!HealthIsReal => House!HealthIsReal
  BY DEF House!HealthIsReal, Tidy!HealthIsReal, House!ExitCode, Tidy!ExitCode, House!Checks, Tidy!Checks,
    House!Ailing, Tidy!Ailing, House!AtomsOf, Tidy!AtomsOf, House!Atoms, Tidy!Atoms, House!Safe,
    Tidy!Safe, House!EvaluateWhen, Tidy!EvaluateWhen, House!Parse, Tidy!Parse, House!EvalAtom,
    House!Loads, Tidy!Loads, House!Merges, Tidy!Merges,
    Tidy!EvalAtom, House!OrphanNotes, Tidy!OrphanNotes, House!OrphanKeys, Tidy!OrphanKeys,
    House!Cells, Tidy!Cells, House!OrphanBranches, Tidy!OrphanBranches, House!Claimed, Tidy!Claimed
<1>4. Tidy!WhenMeansWhatItSays => House!WhenMeansWhatItSays
  BY DEF House!WhenMeansWhatItSays, Tidy!WhenMeansWhatItSays, House!WellFormed, Tidy!WellFormed,
    House!Atoms, Tidy!Atoms, House!Safe, Tidy!Safe, House!Means, Tidy!Means, House!Terms,
    Tidy!Terms, House!Term, Tidy!Term, House!EvalAtom, Tidy!EvalAtom, House!Nots, Tidy!Nots,
    House!Cardinality, Tidy!Cardinality
<1>. QED BY <1>1, <1>2, <1>3, <1>4 DEF House!HousekeepingHolds, Tidy!HousekeepingHolds

\* What is looked after is finite, and the doctor looks up the programs that a shell runs.
LEMMA TidyAssumed == Tidy!Bounded /\ Tidy!ProgramsFound
<1>1. Tidy!Bounded
  <2>1. \A S : IsFiniteSet(S) => Tidy!IsFiniteSet(S)
    BY Zenon DEF IsFiniteSet, Tidy!IsFiniteSet
  <2>. QED BY <2>1, HouseAssumption DEF Tidy!Bounded
<1>2. ASSUME NEW l \in Lines PROVE Tidy!ExecutableIn(l.line) = {l.runs}
  <2>1. l.line \in Seq(STRING) /\ House!ShellRuns(l.line, l.runs)
    BY LinesAssumption
  <2>2. Tidy!ShellRuns(l.line, l.runs)
    BY <2>1 DEF House!ShellRuns, Tidy!ShellRuns, House!Wrappers, Tidy!Wrappers, House!Wrapped, Tidy!Wrapped, House!Reads, Tidy!Reads
  <2>. QED BY <2>1, <2>2, Tidy!FindsTheProgram
<1>3. Tidy!ProgramsFound
  BY <1>2, LinesAssumption DEF Tidy!ProgramsFound
<1>. QED BY <1>1, <1>3

LEMMA TidySteps ==
  ASSUME "purge" \notin Windows, Tidy!KeptInv, [House!HouseNext]_houseVars
  PROVE  Tidy!KeptInv'
<1>1. UNCHANGED houseVars => UNCHANGED Tidy!hvars
  BY DEF houseVars, Tidy!hvars
<1>2. [Tidy!HouseNext]_(Tidy!hvars)
  BY <1>1, TidyStep
<1>. QED BY <1>2, TidyAssumed, Tidy!KeptStep

-----------------------------------------------------------------------------
(* The theorems.                                                           *)

\* Nothing a configuration asks for runs unless the gate ruled on that very
\* configuration and the user waived or approved it, as long as nobody edits the
\* file between its load and the gate, nor the ledger while the user is asked
\* (trust_or_prompt, run_phase, record).
THEOREM GateIsSafe ==
  ASSUME "edit" \notin Windows, "ledger" \notin Windows
  PROVE  CommandSpec => []GateHolds
<1>. DEFINE Inv == command = "trust" => GateIInv
<1>1. CommandInit => Inv
  BY GateInit DEF CommandInit
<1>2. Inv /\ [CommandNext]_allvars => Inv'
  <2>1. CASE command = "trust"
    BY <2>1, TrustAlone, GateStep
  <2>2. [CommandNext]_allvars => command' = command
    BY DEF CommandNext, OnlyIn, allvars
  <2>. QED BY <2>1, <2>2
<1>3. Inv => GateHolds
  BY DEF GateIInv, GateHolds
<1>. HIDE DEF Inv
<1>. QED BY <1>1, <1>2, <1>3, PTL DEF CommandSpec

\* What a guard denies stays out of the worktree, whatever the list of guards, and
\* nothing is written outside it, while nobody comes between a check and its use
\* (guard_match, ensure_within, copy_no_follow).
THEOREM BootstrapIsSafe ==
  ASSUME "source" \notin Windows, "parent" \notin Windows
  PROVE  CommandSpec => []GuardedStaysOut
<1>. DEFINE Inv == command = "bootstrap" => BootIInv
<1>1. CommandInit => Inv
  BY BootInit DEF CommandInit
<1>2. Inv /\ [CommandNext]_allvars => Inv'
  <2>1. CASE command = "bootstrap"
    BY <2>1, BootstrapAlone, BootStep
  <2>2. [CommandNext]_allvars => command' = command
    BY DEF CommandNext, OnlyIn, allvars
  <2>. QED BY <2>1, <2>2
<1>3. Inv => GuardedStaysOut
  BY DEF BootIInv, GuardedStaysOut
<1>. HIDE DEF Inv
<1>. QED BY <1>1, <1>2, <1>3, PTL DEF CommandSpec

\* What failed is undone: no checkout is left on a branch that a rollback deleted, a
\* sync that failed leaves the worktree as it was, a rename is done whole or undone
\* whole, here and on origin.  Not with a checkout at the step from a found branch to
\* its attachment, an edit between the look and the rebase, an answer of origin that is
\* lost, a reset between the last check and the push, or a note written while one moves
\* (worktree::add, sync, rename_worktree).
THEOREM UndoneWhole ==
  ASSUME {"checkout", "worktree", "answer", "reset", "note"} \cap Windows = {}
  PROVE  CommandSpec => []FailureIsUndone
<1>. DEFINE Inv == /\ command = "create" => CreateIInv
                   /\ command = "sync" => SyncIInv
                   /\ command = "rename" => RenameIInv
<1>1. CommandInit => Inv
  BY CreateInit, SyncInit, RenameInit DEF CommandInit
<1>2. Inv /\ [CommandNext]_allvars => Inv'
  <2>1. CASE command = "create"
    BY <2>1, CreateAlone, CreateStep
  <2>2. CASE command = "sync"
    BY <2>2, SyncAlone, SyncStep
  <2>3. CASE command = "rename"
    BY <2>3, RenameAlone, RenameStep
  <2>. QED BY <2>1, <2>2, <2>3, OneCommand
<1>3. Inv => FailureIsUndone
  BY RenameIsWhole DEF CreateIInv, SyncIInv, Sync!SyncIsWhole, FailureIsUndone
<1>. HIDE DEF Inv
<1>. QED BY <1>1, <1>2, <1>3, PTL DEF CommandSpec

\* What belongs to others stays: a rollback deletes no branch but the one its call made,
\* where it made it; bootstrap writes over no file and follows no link; clean removes
\* nothing that has tracked files in it, and nothing at all without --yes; doctor, prune
\* and --fix spare branches that are there.  Not with a checkout, or a move of a branch,
\* between a check of it and its deletion, a file that appears between the scan and the
\* removal, or a branch or a directory that comes back before its key or its entry goes
\* (Unwind, write_no_follow, scan_worktree_safe, purge_orphan_branch_config, prune).
THEOREM OthersKeepTheirs ==
  ASSUME {"checkout", "move", "removal", "purge", "prune", "doctor"} \cap Windows = {}
  PROVE  CommandSpec => NothingOfOthersIsTaken
<1>. DEFINE Inv == /\ command = "create" => RollIInv
                   /\ DOMAIN there = Targets
                   /\ command = "clean" => JunkIInv
                   /\ command = "house" => HouseIInv
<1>1. CommandInit => Inv
  <2>1. Boot!BootInit \/ Boot!BootRest => DOMAIN there = Targets
    BY DEF Boot!BootInit, Boot!BootRest
  <2>. QED BY <2>1, RollInit, CleanInit, HouseInit DEF CommandInit
<1>2. Inv /\ [CommandNext]_allvars => Inv'
  <2>. SUFFICES ASSUME Inv, [CommandNext]_allvars PROVE Inv'
    OBVIOUS
  <2>1. command = "create" => RollIInv'
    BY CreateAlone, RollStep
  <2>2. DOMAIN there' = Targets
    <3>1. CASE command = "bootstrap"
      BY <3>1, BootstrapAlone, BootStays
    <3>2. CASE command # "bootstrap"
      BY <3>2, OneCommand DEF bootVars
    <3>. QED BY <3>1, <3>2
  <2>3. command = "clean" => JunkIInv'
    BY CleanAlone, CleanStep
  <2>4. command = "house" => HouseIInv'
    BY HouseAlone, HouseStep
  <2>. QED BY <2>1, <2>2, <2>3, <2>4, OneCommand
<1>3. ASSUME Inv, [CommandNext]_allvars PROVE TakesOwn \/ UNCHANGED Create!vars
  <2>1. CASE command = "create"
    <3>1. Create!Next \/ UNCHANGED createVars
      BY <1>3, <2>1, CreateAlone
    <3>. QED BY <1>3, <2>1, <3>1, RollTakesOwn DEF createVars, Create!vars, Create!refs
  <2>2. CASE command # "create"
    BY <1>3, <2>2, OneCommand DEF createVars, Create!vars, Create!refs
  <2>. QED BY <2>1, <2>2
<1>4. ASSUME Inv, [CommandNext]_allvars PROVE Stays
  <2>1. CASE command = "bootstrap"
    BY <1>4, <2>1, BootstrapAlone, BootStays
  <2>2. CASE command # "bootstrap"
    BY <1>4, <2>2, OneCommand DEF bootVars, Stays
  <2>. QED BY <2>1, <2>2
<1>5. ASSUME Inv, [CommandNext]_allvars PROVE JunkGoes \/ UNCHANGED Clean!clvars
  <2>1. CASE command = "clean"
    <3>1. Clean!CleanNext \/ UNCHANGED cleanVars
      BY <1>5, <2>1, CleanAlone
    <3>. QED BY <1>5, <2>1, <3>1, OnlyJunk DEF cleanVars, Clean!clvars
  <2>2. CASE command # "clean"
    BY <1>5, <2>2, OneCommand DEF cleanVars, Clean!clvars
  <2>. QED BY <2>1, <2>2
<1>6. ASSUME Inv, [CommandNext]_allvars PROVE Spares \/ UNCHANGED House!hvars
  <2>1. CASE command = "house"
    <3>1. House!HouseNext \/ UNCHANGED houseVars
      BY <1>6, <2>1, HouseAlone
    <3>. QED BY <1>6, <2>1, <3>1, HouseSpares DEF houseVars, House!hvars
  <2>2. CASE command # "house"
    BY <1>6, <2>2, OneCommand DEF houseVars, House!hvars
  <2>. QED BY <2>1, <2>2
<1>. HIDE DEF Inv
<1>7. CommandSpec => []Inv
  BY <1>1, <1>2, PTL DEF CommandSpec
<1>8. CommandSpec => Create!RollbackTakesOnlyItsOwn
  BY <1>3, <1>7, PTL DEF CommandSpec, TakesOwn, Create!RollbackTakesOnlyItsOwn
<1>9. CommandSpec => Boot!TheirsStays
  BY <1>4, <1>7, PTL DEF CommandSpec, Stays, Boot!TheirsStays
<1>10. CommandSpec => Clean!OnlyJunkGoes
  BY <1>5, <1>7, PTL DEF CommandSpec, JunkGoes, Clean!OnlyJunkGoes
<1>11. CommandSpec => House!HousekeepingSparesTheLiving
  BY <1>6, <1>7, PTL DEF CommandSpec, Spares, House!HousekeepingSparesTheLiving
<1>. QED BY <1>8, <1>9, <1>10, <1>11 DEF NothingOfOthersIsTaken

\* Nothing is lost on the way of a rename: what the old name held on origin, commits
\* that others pushed meanwhile included, the new name holds, and that was nobody's; a
\* note moves and is never written over.  With the same windows shut
\* (rename_worktree, notes::rename).
THEOREM RenameLosesNothing ==
  ASSUME {"answer", "reset", "note"} \cap Windows = {}
  PROVE  CommandSpec => NothingIsLost
<1>. DEFINE Inv == command = "rename" => RenameIInv
<1>1. CommandInit => Inv
  BY RenameInit DEF CommandInit
<1>2. Inv /\ [CommandNext]_allvars => Inv'
  BY RenameAlone, RenameStep, OneCommand
<1>3. ASSUME Inv, [CommandNext]_allvars
      PROVE  (LosesNothing /\ KeepsProse) \/ UNCHANGED Rename!vars
  <2>1. CASE command = "rename"
    <3>1. Rename!Next \/ UNCHANGED renameVars
      BY <1>3, <2>1, RenameAlone
    <3>. QED BY <1>3, <2>1, <3>1, RenameLoses DEF renameVars, Rename!vars, Rename!world
  <2>2. CASE command # "rename"
    BY <1>3, <2>2, OneCommand DEF renameVars, Rename!vars, Rename!world
  <2>. QED BY <2>1, <2>2
<1>. HIDE DEF Inv
<1>4. CommandSpec => Rename!OriginLosesNothing
  BY <1>1, <1>2, <1>3, PTL DEF CommandSpec, LosesNothing, Rename!OriginLosesNothing
<1>5. CommandSpec => Rename!ProseIsKept
  BY <1>1, <1>2, <1>3, PTL DEF CommandSpec, KeepsProse, Rename!ProseIsKept
<1>. QED BY <1>4, <1>5 DEF NothingIsLost

\* Every call of gh or glab goes to the forge that the origin is authorised as, at its host
\* and port and for its project, whatever the environment says but where github.com is left to
\* gh or a guessed instance to the user's GITLAB_HOST, as long as the origin is not moved after
\* it was resolved (authorised_kind, repo_selector, gh_env, glab_env).
THEOREM AsksRightly ==
  ASSUME "remote" \notin Windows
  PROVE  CommandSpec => []AsksTheRightForge
<1>. DEFINE Inv == command = "forge" => RouteIInv
<1>1. CommandInit => Inv
  BY RouteInit DEF CommandInit
<1>2. Inv /\ [CommandNext]_allvars => Inv'
  <2>1. CASE command = "forge"
    BY <2>1, ForgeAlone, RouteStep
  <2>2. [CommandNext]_allvars => command' = command
    BY DEF CommandNext, OnlyIn, allvars
  <2>. QED BY <2>1, <2>2
<1>3. Inv => AsksTheRightForge
  BY RouteHolds DEF AsksTheRightForge
<1>. HIDE DEF Inv
<1>. QED BY <1>1, <1>2, <1>3, PTL DEF CommandSpec

\* A push that went through leaves the forge as declared and, without --prune, loses nothing;
\* one that was refused and a plan change nothing, for any names, declarations and failures, in
\* whatever order calls are made (cmd_labels_push, cmd_milestones_push).
THEOREM PushesAsDeclared == CommandSpec => []PushIsAsDeclared
<1>. DEFINE Inv == command = "push" => PushIInv
<1>1. CommandInit => Inv
  BY PushInit DEF CommandInit
<1>2. Inv /\ [CommandNext]_allvars => Inv'
  <2>1. CASE command = "push"
    BY <2>1, PushAlone, PushStep
  <2>2. [CommandNext]_allvars => command' = command
    BY DEF CommandNext, OnlyIn, allvars
  <2>. QED BY <2>1, <2>2
<1>3. Inv => PushIsAsDeclared
  BY PushHolds DEF PushIsAsDeclared
<1>. HIDE DEF Inv
<1>. QED BY <1>1, <1>2, <1>3, PTL DEF CommandSpec

\* What is acted on is what was named and confirmed.  gwm exec starts its command once in
\* every target, however its threads take turns, nowhere before every repository is planned,
\* and a slug means one worktree; a countdown removes the directories of the profile it was
\* armed on; and of the processes that took a worktree one removes it, the others find its
\* entry gone (exec_run, run_in_dirs_parallel, find_fuzzy, clean_overlay_delete, remove_inner).
THEOREM RightTargetsHold == CommandSpec => []RightTargets
<1>. DEFINE Inv == /\ command = "exec" => FleetIInv
                   /\ command = "clean" => JunkIInv
                   /\ command = "remove" => RemoveIInv
<1>1. CommandInit => Inv
  BY FleetInit, CleanInit, RemoveInit DEF CommandInit
<1>2. Inv /\ [CommandNext]_allvars => Inv'
  <2>1. CASE command = "exec"
    BY <2>1, ExecAlone, FleetStep, ExecRests
  <2>2. CASE command = "clean"
    BY <2>2, CleanAlone, CleanStep
  <2>3. CASE command = "remove"
    BY <2>3, RemoveAlone, RemoveStep
  <2>4. [CommandNext]_allvars => command' = command
    BY DEF CommandNext, OnlyIn, allvars
  <2>. QED BY <2>1, <2>2, <2>3, <2>4
<1>3. Inv => RightTargets
  <2>1. FleetIInv => Exec!FleetTypeOK /\ Exec!EveryTargetOnce /\ Exec!SlugsMeanOne
    BY FleetIsOnce, FoundIsMeant DEF FleetIInv, Exec!FleetTypeOK
  <2>2. JunkIInv => Clean!CleanTypeOK /\ Clean!RemovesTheArmedProfile
    BY DEF JunkIInv, CleanIInv
  <2>. QED BY <2>1, <2>2, RemoveHolds DEF RightTargets
<1>. HIDE DEF Inv
<1>. QED BY <1>1, <1>2, <1>3, PTL DEF CommandSpec

\* A --fix that nobody else gets in between of dropped what it says it dropped and left what
\* it says is left, whatever shape the keys have; a doctor that exits with 0 had nothing to
\* find, unless somebody was at work meanwhile; and a `when` expression that is one evaluates
\* to what it means, however long (purge_orphan_branch_config, exit_code, evaluate_when).
THEOREM HousekeepingIsSound ==
  ASSUME "purge" \notin Windows
  PROVE  CommandSpec => []HousekeepingHolds
<1>. DEFINE Inv == command = "house" => Tidy!KeptInv
<1>1. CommandInit => Inv
  BY TidyInit, TidyAssumed, Tidy!KeptInit DEF CommandInit
<1>2. Inv /\ [CommandNext]_allvars => Inv'
  <2>1. CASE command = "house"
    BY <2>1, HouseAlone, TidySteps
  <2>2. [CommandNext]_allvars => command' = command
    BY DEF CommandNext, OnlyIn, allvars
  <2>. QED BY <2>1, <2>2
<1>3. Inv => HousekeepingHolds
  BY TidyHolds, TidyAssumed, Tidy!KeptImplies DEF HousekeepingHolds
<1>. HIDE DEF Inv
<1>. QED BY <1>1, <1>2, <1>3, PTL DEF CommandSpec

\* While daemons are started one at a time, or none ever leaves its file, a
\* daemon that serves is the one behind the path (clear_stale_socket, serve).
THEOREM ServesSafe ==
  ASSUME OneAtATime \/ ~Leaves
  PROVE  CommandSpec => []PathInv
<1>1. CommandInit => PathIInv
  BY PathInit DEF CommandInit
<1>2. PathIInv /\ [CommandNext]_allvars => PathIInv'
  BY DaemonAlone, PathStep
<1>3. PathIInv => PathInv
  BY DEF PathIInv, BoundAtPath, Bound, ServesAtPath, PathInv
<1>. QED BY <1>1, <1>2, <1>3, PTL DEF CommandSpec

\* And one that is asked to start runs, or is refused for one that is alive
\* (clear_stale_socket, serve).
THEOREM RefusedRightly ==
  ASSUME OneAtATime \/ ~Leaves
  PROVE  CommandSpec => StartsOrIsRefusedForALiveOne
<1>1. CommandInit => PathIInv
  BY PathInit DEF CommandInit
<1>2. PathIInv /\ [CommandNext]_allvars => PathIInv'
  BY DaemonAlone, PathStep
<1>3. ASSUME PathIInv, [CommandNext]_allvars PROVE RefusedForALiveOne
  BY <1>3, DaemonAlone, PathRefuses
<1>4. CommandSpec => [][RefusedForALiveOne]_vars
  BY <1>1, <1>2, <1>3, PTL DEF CommandSpec
<1>. QED BY <1>4 DEF RefusedForALiveOne, StartsOrIsRefusedForALiveOne
=============================================================================
