------------------------------- MODULE TuiProofs -------------------------------
(* The parts of the TUI with a state of their own, for every value of the constants; and
   its mutating operations, for every table of worktrees, every set of pull requests and
   any choice of the operations the list starts: a view holds its mutation until the
   result lands, one mutation runs at a time beside a merge, and a quit neither abandons
   a worker nor lets another one start.                                                  *)
EXTENDS Screens, MutationFlow, SequenceTheorems, TLAPS

-----------------------------------------------------------------------------
(* Agent sessions. *)

\* What the pool is walked for besides is no worktree's, and claude's own.
LEMMA MoreIsClaudes ==
  ASSUME NEW h, NEW rows
  PROVE  /\ Agents!Collected(h, rows, FALSE) \subseteq Agents!Collected(h, rows, TRUE)
         /\ \A i \in Agents!Collected(h, rows, TRUE) \ Agents!Collected(h, rows, FALSE) :
                i \in Agents!ById(h) /\ Agents!RanAt(h, rows, i) = {}
BY DEF Agents!Collected, Agents!ClaudeScan, Agents!ById, Agents!RanAt

LEMMA SameSummary ==
  ASSUME NEW h, NEW rows, NEW pins
  PROVE  Agents!DetectAll(h, rows, pins) = Agents!DetectWithSessions(h, rows, pins).map
<1>. DEFINE few == Agents!Collected(h, rows, FALSE)
            all == Agents!Collected(h, rows, TRUE)
            Of(found) == Agents!Overlaid(h, Agents!Summarized(h, rows, found), found, pins)
<1>1. Of(few) = [p \in rows |-> {i \in few : p \in Agents!RanAt(h, rows, i)} \cup (pins[p] \cap (few \cup Agents!ById(h)))]
  BY DEF Agents!Overlaid, Agents!Summarized
<1>2. Of(all) = [p \in rows |-> {i \in all : p \in Agents!RanAt(h, rows, i)} \cup (pins[p] \cap (all \cup Agents!ById(h)))]
  BY DEF Agents!Overlaid, Agents!Summarized
<1>3. \A p \in rows : {i \in few : p \in Agents!RanAt(h, rows, i)} = {i \in all : p \in Agents!RanAt(h, rows, i)}
  <2>. HIDE DEF few, all
  <2>. QED BY MoreIsClaudes DEF few, all
<1>4. few \cup Agents!ById(h) = all \cup Agents!ById(h)
  <2>. HIDE DEF few, all
  <2>. QED BY MoreIsClaudes DEF few, all
<1>5. Of(few) = Of(all)
  <2>. HIDE DEF few, all
  <2>1. \A p \in rows : {i \in few : p \in Agents!RanAt(h, rows, i)} \cup (pins[p] \cap (few \cup Agents!ById(h)))
                        = {i \in all : p \in Agents!RanAt(h, rows, i)} \cup (pins[p] \cap (all \cup Agents!ById(h)))
    BY <1>3, <1>4, Zenon
  <2>. QED BY <2>1, <1>1, <1>2
<1>. QED BY <1>5 DEF Agents!DetectAll, Agents!DetectWithSessions

LEMMA DetectTyped ==
  ASSUME NEW h, NEW rows, NEW pins \in [rows -> SUBSET Sessions], NEW sweep \in BOOLEAN
  PROVE  /\ Agents!DetectAll(h, rows, pins) \in [rows -> SUBSET Sessions]
         /\ Agents!Collected(h, rows, sweep) \subseteq Sessions
<1>1. \A s : Agents!Collected(h, rows, s) \subseteq Sessions
  BY DEF Agents!Collected, Agents!ClaudeScan, Agents!CodexScan, Agents!OpencodeScan, Agents!VibeScan
<1>. QED BY <1>1 DEF Agents!DetectAll, Agents!Overlaid, Agents!Summarized

\* A session that nobody pinned is found where it ran, or where claude's name for the
\* place it ran in is a worktree's and of no other.
LEMMA FoundWhereItRan ==
  ASSUME NEW h, NEW rows, NEW p \in rows,
         NEW i \in Agents!DetectAll(h, rows, [q \in rows |-> {}])[p]
  PROVE  \/ h.files[i].cwd = p
         \/ /\ h.files[i].kind = "claude" /\ h.files[i].cwd \notin rows
            /\ Slug[h.files[i].cwd] = Slug[p]
<1>1. p \in Agents!RanAt(h, rows, i)
  BY DEF Agents!DetectAll, Agents!Overlaid, Agents!Summarized
<1>. QED BY <1>1 DEF Agents!RanAt, Agents!ClaudeAt, Agents!Unique

AgentRows == UNION {[S -> Twigs \cup {Agents!Detached}] : S \in SUBSET Places}
AgentPins == UNION {[S -> SUBSET Sessions] : S \in SUBSET Places}

\* A detection under way is of the rows that are shown, and has read their pins or not.
RunIsOfTheRows ==
    run # Agents!NoRun =>
        /\ run = [rows |-> app.rows, pool |-> run.pool, at |-> run.at, pins |-> run.pins]
        /\ run.pool \in BOOLEAN /\ run.at \in {"spawned", "read"}
        /\ run.at = "read" => run.pins \in [DOMAIN app.rows -> SUBSET Sessions]

\* A pin that this TUI made, and that stands, is stored,
PinsAreStored ==
    \A b \in Twigs, i \in Sessions :
        /\ mine[<<b, i>>] = "in" => i \in stored[b]
        /\ mine[<<b, i>>] = "out" => i \notin stored[b]

\* and it is among those that a detection under way has read, unless what it has read will
\* not be taken.
RunReadThePins ==
    run # Agents!NoRun /\ run.at = "read" /\ ~ app.redetectWanted =>
        \A p \in DOMAIN app.rows, i \in Sessions :
            app.rows[p] \in Twigs =>
                /\ mine[<<app.rows[p], i>>] = "in" => i \in run.pins[p]
                /\ mine[<<app.rows[p], i>>] = "out" => i \notin run.pins[p]

WaitsAtThePrompt == app.waits => app.view = "input"

\* What the daemon keeps is what a detection found.
SlotIsADetection ==
    slot # Agents!NoSlot =>
        /\ slot = [rows |-> slot.rows, pins |-> slot.pins, pool |-> slot.pool, fresh |-> slot.fresh,
                   of |-> slot.of, map |-> slot.map, all |-> slot.all]
        /\ slot.map = Agents!DetectAll(slot.of, slot.rows, slot.pins)
        /\ slot.pool => slot.all = Agents!Collected(slot.of, slot.rows, TRUE)

\* Inductive: the run's invariant and what it rests on.
AgentsIInv ==
    /\ Agents!AgentsTypeOK /\ Agents!OwnPinsStand /\ Agents!PoolIsOnItsWay /\ Agents!AnswersItsQuestion
    /\ RunIsOfTheRows /\ PinsAreStored /\ RunReadThePins /\ WaitsAtThePrompt /\ SlotIsADetection

\* Two parts of the invariant hold of every state.
LEMMA FoundInEveryState == Agents!ShownWhereItRan /\ Agents!SummaryIsTheSame
BY FoundWhereItRan, SameSummary DEF Agents!ShownWhereItRan, Agents!SummaryIsTheSame

LEMMA AppIs ==
  Agents!App = [rows : AgentRows, workspace : BOOLEAN, snapshot : AgentPins, fresh : BOOLEAN,
                all : SUBSET Sessions, pins : AgentPins, poolWanted : BOOLEAN, redetectWanted : BOOLEAN,
                view : {"list", "rows", "input"}, target : Places, shown : SUBSET Sessions,
                up : BOOLEAN, waits : BOOLEAN]
BY DEF Agents!App, Agents!Views, AgentRows, AgentPins

LEMMA RowsAre ==
  ASSUME NEW rs \in AgentRows
  PROVE  DOMAIN rs \subseteq Places /\ rs \in [DOMAIN rs -> Twigs \cup {Agents!Detached}]
BY DEF AgentRows

LEMMA PinsAre ==
  ASSUME NEW S \in SUBSET Places, NEW ps \in [S -> SUBSET Sessions]
  PROVE  ps \in AgentPins
BY DEF AgentPins

LEMMA PinsAreFunctions ==
  ASSUME NEW ps \in AgentPins
  PROVE  DOMAIN ps \subseteq Places /\ ps \in [DOMAIN ps -> SUBSET Sessions]
BY DEF AgentPins

LEMMA ExistingTyped ==
  ASSUME heads \in [Places -> Twigs \cup {Agents!Detached, Agents!Absent}]
  PROVE  /\ Agents!Existing \in AgentRows
         /\ DOMAIN Agents!Existing \subseteq Places
         /\ \A p \in DOMAIN Agents!Existing : Agents!Existing[p] = heads[p]
<1>. DEFINE S == {q \in Places : heads[q] # Agents!Absent}
<1>1. Agents!Existing \in [S -> Twigs \cup {Agents!Detached}]
  BY DEF Agents!Existing
<1>. QED BY <1>1 DEF AgentRows, Agents!Existing

LEMMA PinsOfTyped ==
  ASSUME stored \in [Twigs -> SUBSET (Sessions \cup {Agents!Bare})], NEW rs \in AgentRows
  PROVE  Agents!PinsOf(rs) \in [DOMAIN rs -> SUBSET Sessions]
<1>1. \A p \in DOMAIN rs : rs[p] \in Twigs \cup {Agents!Detached}
  BY RowsAre
<1>. QED BY <1>1 DEF Agents!PinsOf

\* The pins of the rows, read now, have those this TUI made.
LEMMA PinsOfStand ==
  ASSUME PinsAreStored, NEW rs \in AgentRows, NEW p \in DOMAIN rs, NEW i \in Sessions, rs[p] \in Twigs
  PROVE  /\ mine[<<rs[p], i>>] = "in" => i \in Agents!PinsOf(rs)[p]
         /\ mine[<<rs[p], i>>] = "out" => i \notin Agents!PinsOf(rs)[p]
BY AgentsAssumption DEF PinsAreStored, Agents!PinsOf, Agents!Detached, Agents!Bare

LEMMA AgentsInitHolds == Agents!AgentsInit => AgentsIInv
<1>. SUFFICES ASSUME Agents!AgentsInit PROVE AgentsIInv
  OBVIOUS
<1>1. home.files \in [Sessions -> Agents!Session \cup {Agents!Gone}] /\ home.database \in BOOLEAN
      /\ stored \in [Twigs -> SUBSET (Sessions \cup {Agents!Bare})]
      /\ heads \in [Places -> Twigs \cup {Agents!Detached, Agents!Absent}]
  BY WorldsAssumption DEF Agents!AgentsInit
<1>2. <<>> \in AgentRows /\ <<>> \in AgentPins
  <2>1. \A S : <<>> \in [1 .. 0 -> S]
    BY EmptySeq, LenProperties
  <2>2. 1 .. 0 = {}
    OBVIOUS
  <2>3. \A S : <<>> \in [{} -> S]
    BY <2>1, <2>2
  <2>4. {} \in SUBSET Places
    OBVIOUS
  <2>5. \A X : [{} -> X] \in {[S -> X] : S \in SUBSET Places}
    BY <2>4, Zenon
  <2>6. \A X : <<>> \in UNION {[S -> X] : S \in SUBSET Places}
    BY <2>3, <2>5, Zenon
  <2>. QED BY <2>6, Zenon DEF AgentRows, AgentPins
<1>3. Agents!Nowhere \in Agents!App
  BY <1>2, AppIs, AgentsAssumption DEF Agents!Nowhere
<1>4. app \in Agents!App
  BY <1>1, <1>3, ExistingTyped, AppIs DEF Agents!AgentsInit
<1>5. app.pins = <<>> /\ ~ app.waits
  <2>1. Agents!Nowhere.pins = <<>> /\ Agents!Nowhere.waits = FALSE
    BY DEF Agents!Nowhere
  <2>2. CASE app = Agents!Nowhere
    BY <2>1, <2>2
  <2>3. CASE app # Agents!Nowhere
    <3>1. PICK w \in BOOLEAN :
             app = [Agents!Nowhere EXCEPT !.rows = Agents!Existing, !.workspace = w, !.up = TRUE]
      BY <2>3 DEF Agents!AgentsInit
    <3>2. app.pins = Agents!Nowhere.pins /\ app.waits = Agents!Nowhere.waits
      BY <3>1, <1>3, AppIs
    <3>. QED BY <2>1, <3>2
  <2>. QED BY <2>2, <2>3
<1>6. Agents!OwnPinsStand /\ PinsAreStored
  BY <1>5 DEF Agents!OwnPinsStand, PinsAreStored, Agents!AgentsInit
<1>7. Agents!AgentsTypeOK
  <2>1. mine \in [Twigs \X Sessions -> {"in", "out", "none"}]
    BY DEF Agents!AgentsInit
  <2>2. events = 0 /\ run = Agents!NoRun
    BY Zenon DEF Agents!AgentsInit
  <2>3. events \in 0 .. MaxEvents
    BY <2>2, AgentsAssumption
  <2>. QED BY <1>1, <1>4, <2>1, <2>2, <2>3 DEF Agents!AgentsTypeOK
<1>8. Agents!PoolIsOnItsWay /\ Agents!AnswersItsQuestion /\ RunIsOfTheRows /\ RunReadThePins
      /\ WaitsAtThePrompt /\ SlotIsADetection
  BY <1>5 DEF Agents!AgentsInit, Agents!PoolIsOnItsWay, Agents!AnswersItsQuestion, RunIsOfTheRows,
              RunReadThePins, WaitsAtThePrompt, SlotIsADetection
<1>. QED BY <1>6, <1>7, <1>8 DEF AgentsIInv

\* A step that leaves the rows, the run and the pins as they are.
LEMMA OnlyTheScreenMoves ==
  ASSUME AgentsIInv, UNCHANGED <<home, stored, heads, run, mine, slot, served, events>>,
         app' \in Agents!App, app'.rows = app.rows, app'.pins = app.pins,
         app'.redetectWanted = app.redetectWanted,
         app'.waits => app.waits /\ app'.poolWanted = app.poolWanted /\ app'.view = app.view
  PROVE  AgentsIInv'
<1>1. Agents!AgentsTypeOK'
  BY DEF AgentsIInv, Agents!AgentsTypeOK
<1>2. Agents!OwnPinsStand' /\ Agents!PoolIsOnItsWay' /\ WaitsAtThePrompt'
  BY DEF AgentsIInv, Agents!OwnPinsStand, Agents!PoolIsOnItsWay, WaitsAtThePrompt
<1>3. RunIsOfTheRows' /\ PinsAreStored' /\ RunReadThePins'
  BY DEF AgentsIInv, RunIsOfTheRows, PinsAreStored, RunReadThePins
<1>4. Agents!AnswersItsQuestion' /\ SlotIsADetection'
  BY DEF AgentsIInv, Agents!AnswersItsQuestion, SlotIsADetection
<1>. QED BY <1>1, <1>2, <1>3, <1>4 DEF AgentsIInv

\* The rebuilt rows of the overlay change nothing else.
LEMMA RebuiltTyped ==
  ASSUME NEW a \in Agents!App
  PROVE  /\ Agents!Rebuilt(a) \in Agents!App
         /\ Agents!Rebuilt(a).rows = a.rows /\ Agents!Rebuilt(a).pins = a.pins
         /\ Agents!Rebuilt(a).redetectWanted = a.redetectWanted /\ Agents!Rebuilt(a).waits = a.waits
         /\ Agents!Rebuilt(a).poolWanted = a.poolWanted /\ Agents!Rebuilt(a).view = a.view
<1>. DEFINE shown == IF a.target \in DOMAIN a.snapshot THEN a.snapshot[a.target] ELSE {}
<1>1. shown \in SUBSET Sessions
  BY AppIs, PinsAreFunctions
<1>2. [a EXCEPT !.shown = shown] \in Agents!App
  <2>. HIDE DEF shown
  <2>. QED BY <1>1, AppIs
<1>3. Agents!Rebuilt(a) = a \/ Agents!Rebuilt(a) = [a EXCEPT !.shown = shown]
  BY DEF Agents!Rebuilt
<1>. HIDE DEF shown
<1>. QED BY <1>2, <1>3, AppIs

LEMMA LookHolds == AgentsIInv /\ Agents!Look => AgentsIInv'
<1>. SUFFICES ASSUME AgentsIInv, Agents!Look PROVE AgentsIInv'
  OBVIOUS
<1>1. UNCHANGED <<home, stored, heads, app, mine, slot, served, events>> /\ run = Agents!NoRun
      /\ run' = [rows |-> app.rows, pool |-> FALSE, at |-> "spawned", pins |-> <<>>]
  BY DEF Agents!Look, Agents!world, Agents!daemon, Agents!Spawned
<1>2. Agents!AgentsTypeOK'
  BY <1>1 DEF AgentsIInv, Agents!AgentsTypeOK
<1>3. Agents!OwnPinsStand' /\ Agents!PoolIsOnItsWay' /\ WaitsAtThePrompt'
  BY <1>1 DEF AgentsIInv, Agents!OwnPinsStand, Agents!PoolIsOnItsWay, WaitsAtThePrompt
<1>4. RunIsOfTheRows' /\ PinsAreStored' /\ RunReadThePins'
  BY <1>1 DEF AgentsIInv, RunIsOfTheRows, PinsAreStored, RunReadThePins
<1>5. Agents!AnswersItsQuestion' /\ SlotIsADetection'
  BY <1>1 DEF AgentsIInv, Agents!AnswersItsQuestion, SlotIsADetection
<1>. QED BY <1>2, <1>3, <1>4, <1>5 DEF AgentsIInv

\* A detection that starts is of the rows, and has read nothing yet.
LEMMA StartedIs ==
  ASSUME NEW r, NEW rows, NEW e, r = [rows |-> rows, pool |-> TRUE, at |-> "spawned", pins |-> e]
  PROVE  /\ r = [rows |-> rows, pool |-> r.pool, at |-> r.at, pins |-> r.pins]
         /\ r.pool = TRUE /\ r.at = "spawned"
OBVIOUS

LEMMA StartedHolds ==
  ASSUME run' = Agents!NoRun
         \/ run' = [rows |-> app'.rows, pool |-> TRUE, at |-> "spawned", pins |-> <<>>]
  PROVE  RunIsOfTheRows' /\ RunReadThePins'
<1>1. CASE run' = Agents!NoRun
  BY <1>1 DEF RunIsOfTheRows, RunReadThePins
<1>2. CASE run' = [rows |-> app'.rows, pool |-> TRUE, at |-> "spawned", pins |-> <<>>]
  <2>1. /\ run' = [rows |-> app'.rows, pool |-> run'.pool, at |-> run'.at, pins |-> run'.pins]
        /\ run'.pool = TRUE /\ run'.at = "spawned"
    BY <1>2, StartedIs, Zenon
  <2>2. RunIsOfTheRows'
    BY <2>1 DEF RunIsOfTheRows
  <2>3. RunReadThePins'
    BY <2>1 DEF RunReadThePins
  <2>. QED BY <2>2, <2>3
<1>. QED BY <1>1, <1>2

LEMMA ReadRun ==
  ASSUME NEW r, NEW e, r = [rows |-> r.rows, pool |-> r.pool, at |-> r.at, pins |-> r.pins]
  PROVE  [r EXCEPT !.at = "read", !.pins = e] = [rows |-> r.rows, pool |-> r.pool, at |-> "read", pins |-> e]
<1>. DEFINE R == [rows : {r.rows}, pool : {r.pool}, at : {r.at, "read"}, pins : {r.pins, e}]
            x == [r EXCEPT !.at = "read", !.pins = e]
<1>1. r \in R
  OBVIOUS
<1>2. x \in R
  BY <1>1
<1>3. x.rows = r.rows /\ x.pool = r.pool /\ x.at = "read" /\ x.pins = e
  BY <1>1
<1>. HIDE DEF x
<1>4. x = [rows |-> x.rows, pool |-> x.pool, at |-> x.at, pins |-> x.pins]
  BY <1>2
<1>5. x = [rows |-> r.rows, pool |-> r.pool, at |-> "read", pins |-> e]
  BY <1>3, <1>4
<1>. QED BY <1>5 DEF x

LEMMA ReadPinsHolds == AgentsIInv /\ Agents!ReadPins => AgentsIInv'
<1>. SUFFICES ASSUME AgentsIInv, Agents!ReadPins PROVE AgentsIInv'
  OBVIOUS
<1>. DEFINE ps == Agents!PinsOf(app.rows)
<1>1. UNCHANGED <<home, stored, heads, app, mine, slot, served, events>> /\ run # Agents!NoRun
      /\ run' = [rows |-> app.rows, pool |-> run.pool, at |-> "read", pins |-> ps]
  <2>1. run = [rows |-> app.rows, pool |-> run.pool, at |-> run.at, pins |-> run.pins]
    BY DEF AgentsIInv, RunIsOfTheRows, Agents!ReadPins
  <2>2. run' = [run EXCEPT !.at = "read", !.pins = Agents!PinsOf(run.rows)]
    BY DEF Agents!ReadPins
  <2>3. run.rows = app.rows
    BY <2>1
  <2>. HIDE DEF ps
  <2>4. run' = [run EXCEPT !.at = "read", !.pins = ps]
    BY <2>2, <2>3 DEF ps
  <2>6. run' = [rows |-> app.rows, pool |-> run.pool, at |-> "read", pins |-> ps]
    <3>1. run = [rows |-> run.rows, pool |-> run.pool, at |-> run.at, pins |-> run.pins]
      BY <2>1, <2>3
    <3>2. [run EXCEPT !.at = "read", !.pins = ps] = [rows |-> run.rows, pool |-> run.pool, at |-> "read", pins |-> ps]
      BY <3>1, ReadRun, Zenon
    <3>. QED BY <2>3, <2>4, <3>2, Zenon
  <2>. QED BY <2>6 DEF Agents!ReadPins, Agents!world, Agents!daemon
<1>2. app.rows \in AgentRows /\ stored \in [Twigs -> SUBSET (Sessions \cup {Agents!Bare})]
  BY AppIs DEF AgentsIInv, Agents!AgentsTypeOK
<1>3. ps \in [DOMAIN app.rows -> SUBSET Sessions]
  BY <1>2, PinsOfTyped
<1>4. \A p \in DOMAIN app.rows, i \in Sessions : app.rows[p] \in Twigs =>
         /\ mine[<<app.rows[p], i>>] = "in" => i \in ps[p]
         /\ mine[<<app.rows[p], i>>] = "out" => i \notin ps[p]
  BY <1>2, PinsOfStand DEF AgentsIInv
<1>. HIDE DEF ps
<1>5. Agents!AgentsTypeOK'
  BY <1>1 DEF AgentsIInv, Agents!AgentsTypeOK, Agents!NoRun
<1>6. Agents!OwnPinsStand' /\ WaitsAtThePrompt'
  BY <1>1 DEF AgentsIInv, Agents!OwnPinsStand, WaitsAtThePrompt
<1>7. RunIsOfTheRows' /\ PinsAreStored' /\ RunReadThePins' /\ run'.pool = run.pool
  BY <1>1, <1>3, <1>4 DEF AgentsIInv, RunIsOfTheRows, PinsAreStored, RunReadThePins
<1>8. Agents!AnswersItsQuestion' /\ SlotIsADetection'
  BY <1>1 DEF AgentsIInv, Agents!AnswersItsQuestion, SlotIsADetection
<1>9. run' # Agents!NoRun
  BY <1>1 DEF Agents!NoRun
<1>10. Agents!PoolIsOnItsWay'
  BY <1>1, <1>7, <1>9 DEF AgentsIInv, Agents!PoolIsOnItsWay
<1>. QED BY <1>5, <1>6, <1>7, <1>8, <1>10 DEF AgentsIInv

LEMMA ScreenKeysHold ==
  ASSUME AgentsIInv, Agents!Elapse \/ (\E p \in Places : Agents!Open(p)) \/ Agents!Close \/ Agents!CancelInput
  PROVE  AgentsIInv'
<1>1. app \in Agents!App
  BY DEF AgentsIInv, Agents!AgentsTypeOK
<1>2. CASE Agents!Elapse
  <2>1. app' = [app EXCEPT !.fresh = FALSE]
        /\ UNCHANGED <<home, stored, heads, run, mine, slot, served, events>>
    BY <1>2 DEF Agents!Elapse, Agents!world, Agents!daemon
  <2>2. app' \in Agents!App /\ app'.rows = app.rows /\ app'.pins = app.pins
        /\ app'.redetectWanted = app.redetectWanted /\ app'.waits = app.waits
        /\ app'.poolWanted = app.poolWanted /\ app'.view = app.view
    BY <1>1, <2>1, AppIs
  <2>. QED BY <2>1, <2>2, OnlyTheScreenMoves
<1>3. CASE \E p \in Places : Agents!Open(p)
  <2>1. PICK p \in Places : Agents!Open(p)
    BY <1>3
  <2>. DEFINE a == [app EXCEPT !.view = "rows", !.target = p]
  <2>2. app' = Agents!Rebuilt(a) /\ app.view = "list"
        /\ UNCHANGED <<home, stored, heads, run, mine, slot, served, events>>
    BY <2>1 DEF Agents!Open, Agents!world, Agents!daemon
  <2>3. a \in Agents!App /\ a.rows = app.rows /\ a.pins = app.pins
        /\ a.redetectWanted = app.redetectWanted /\ a.waits = app.waits
    BY <1>1, AppIs
  <2>4. ~ app.waits
    BY <2>2 DEF AgentsIInv, WaitsAtThePrompt
  <2>. HIDE DEF a
  <2>5. app' \in Agents!App /\ app'.rows = app.rows /\ app'.pins = app.pins
        /\ app'.redetectWanted = app.redetectWanted /\ app'.waits = app.waits
    BY <2>2, <2>3, RebuiltTyped
  <2>. QED BY <2>2, <2>4, <2>5, OnlyTheScreenMoves
<1>4. CASE Agents!Close
  <2>1. app' = [app EXCEPT !.view = "list", !.shown = {}] /\ app.view = "rows"
        /\ UNCHANGED <<home, stored, heads, run, mine, slot, served, events>>
    BY <1>4 DEF Agents!Close, Agents!world, Agents!daemon
  <2>2. app' \in Agents!App /\ app'.rows = app.rows /\ app'.pins = app.pins
        /\ app'.redetectWanted = app.redetectWanted /\ app'.waits = app.waits
    BY <1>1, <2>1, AppIs
  <2>3. ~ app.waits
    BY <2>1 DEF AgentsIInv, WaitsAtThePrompt
  <2>. QED BY <2>1, <2>2, <2>3, OnlyTheScreenMoves
<1>5. CASE Agents!CancelInput
  <2>1. app' = [app EXCEPT !.view = "rows", !.waits = FALSE]
        /\ UNCHANGED <<home, stored, heads, run, mine, slot, served, events>>
    BY <1>5 DEF Agents!CancelInput, Agents!world, Agents!daemon
  <2>2. app' \in Agents!App /\ app'.rows = app.rows /\ app'.pins = app.pins
        /\ app'.redetectWanted = app.redetectWanted /\ ~ app'.waits
    BY <1>1, <2>1, AppIs
  <2>. QED BY <2>1, <2>2, OnlyTheScreenMoves
<1>. QED BY <1>2, <1>3, <1>4, <1>5

LEMMA OpenInputHolds == AgentsIInv /\ Agents!OpenInput => AgentsIInv'
<1>. SUFFICES ASSUME AgentsIInv, Agents!OpenInput PROVE AgentsIInv'
  OBVIOUS
<1>. DEFINE a == [app EXCEPT !.view = "input", !.waits = TRUE]
<1>1. app \in Agents!App
  BY DEF AgentsIInv, Agents!AgentsTypeOK
<1>2. UNCHANGED <<home, stored, heads, mine, slot, served, events>>
  BY DEF Agents!OpenInput, Agents!world, Agents!daemon
<1>3. a \in Agents!App /\ a.rows = app.rows /\ a.pins = app.pins /\ a.view = "input"
      /\ a.redetectWanted = app.redetectWanted
  BY <1>1, AppIs
<1>4. \/ run # Agents!NoRun /\ run' = run /\ app' = [a EXCEPT !.poolWanted = TRUE]
      \/ run = Agents!NoRun /\ app' = a
         /\ run' = [rows |-> app.rows, pool |-> TRUE, at |-> "spawned", pins |-> <<>>]
  BY DEF Agents!OpenInput, Agents!Spawned
<1>. HIDE DEF a
<1>5. [a EXCEPT !.poolWanted = TRUE] \in Agents!App /\ [a EXCEPT !.poolWanted = TRUE].rows = app.rows
      /\ [a EXCEPT !.poolWanted = TRUE].pins = app.pins /\ [a EXCEPT !.poolWanted = TRUE].view = "input"
      /\ [a EXCEPT !.poolWanted = TRUE].redetectWanted = app.redetectWanted
      /\ [a EXCEPT !.poolWanted = TRUE].poolWanted
  BY <1>3, AppIs
<1>6. app' \in Agents!App /\ app'.rows = app.rows /\ app'.pins = app.pins /\ app'.view = "input"
      /\ app'.redetectWanted = app.redetectWanted
  BY <1>3, <1>4, <1>5
<1>7. \/ run # Agents!NoRun /\ run' = run /\ app'.poolWanted
      \/ run = Agents!NoRun
         /\ run' = [rows |-> app.rows, pool |-> TRUE, at |-> "spawned", pins |-> <<>>]
  BY <1>4, <1>5
<1>8. Agents!AgentsTypeOK'
  BY <1>2, <1>6, <1>7 DEF AgentsIInv, Agents!AgentsTypeOK
<1>9. Agents!OwnPinsStand' /\ WaitsAtThePrompt'
  BY <1>2, <1>6 DEF AgentsIInv, Agents!OwnPinsStand, WaitsAtThePrompt
<1>10. Agents!PoolIsOnItsWay'
  BY <1>7 DEF Agents!PoolIsOnItsWay, Agents!NoRun
<1>11. RunIsOfTheRows' /\ PinsAreStored' /\ RunReadThePins'
  <2>1. PinsAreStored'
    BY <1>2 DEF AgentsIInv, PinsAreStored
  <2>2. CASE run # Agents!NoRun
    <3>1. run' = run
      BY <1>7, <2>2
    <3>. QED BY <1>2, <1>6, <2>1, <3>1 DEF AgentsIInv, RunIsOfTheRows, RunReadThePins
  <2>3. CASE run = Agents!NoRun
    <3>1. run' = [rows |-> app'.rows, pool |-> TRUE, at |-> "spawned", pins |-> <<>>]
      BY <1>6, <1>7, <2>3
    <3>. QED BY <2>1, <3>1, StartedHolds
  <2>. QED BY <2>2, <2>3
<1>12. Agents!AnswersItsQuestion' /\ SlotIsADetection'
  BY <1>2 DEF AgentsIInv, Agents!AnswersItsQuestion, SlotIsADetection
<1>. QED BY <1>8, <1>9, <1>10, <1>11, <1>12 DEF AgentsIInv

LEMMA DetectionLandHolds == AgentsIInv /\ Agents!Land => AgentsIInv'
<1>. SUFFICES ASSUME AgentsIInv, Agents!Land PROVE AgentsIInv'
  OBVIOUS
<1>. DEFINE rs == DOMAIN run.rows
            with == Agents!DetectWithSessions(home, rs, run.pins)
            map == IF run.pool THEN with.map ELSE Agents!DetectAll(home, rs, run.pins)
            all == IF run.pool THEN with.all ELSE app.all
            kept == IF app.redetectWanted THEN app.pins ELSE run.pins
            waits == app.waits /\ ~ run.pool
            a == [app EXCEPT !.snapshot = map, !.fresh = ~ app.redetectWanted, !.all = all,
                             !.poolWanted = FALSE, !.redetectWanted = FALSE, !.pins = kept, !.waits = waits]
<1>1. app \in Agents!App /\ run # Agents!NoRun /\ run.at = "read"
      /\ UNCHANGED <<home, stored, heads, mine, slot, served, events>>
  BY DEF AgentsIInv, Agents!AgentsTypeOK, Agents!Land, Agents!world, Agents!daemon
<1>2. run.rows = app.rows /\ run.pool \in BOOLEAN /\ run.pins \in [DOMAIN app.rows -> SUBSET Sessions]
  BY <1>1 DEF AgentsIInv, RunIsOfTheRows
<1>3. app' = Agents!Rebuilt(a)
  BY DEF Agents!Land
<1>4. run' = IF app.poolWanted /\ ~ run.pool /\ app.view = "input"
             THEN [rows |-> app.rows, pool |-> TRUE, at |-> "spawned", pins |-> <<>>] ELSE Agents!NoRun
  BY DEF Agents!Land, Agents!Spawned
<1>5. app.rows \in AgentRows /\ app.pins \in AgentPins /\ app.all \in SUBSET Sessions
  BY <1>1, AppIs
<1>6. rs \in SUBSET Places /\ run.pins \in [rs -> SUBSET Sessions]
  BY <1>2, <1>5, RowsAre
<1>7. map \in AgentPins /\ all \in SUBSET Sessions /\ kept \in AgentPins /\ waits \in BOOLEAN
  <2>. HIDE DEF rs
  <2>1. Agents!DetectAll(home, rs, run.pins) \in AgentPins /\ run.pins \in AgentPins
    BY <1>6, DetectTyped, PinsAre
  <2>2. with.map = Agents!DetectAll(home, rs, run.pins)
    BY SameSummary
  <2>3. with.all \in SUBSET Sessions
    BY <1>6, DetectTyped DEF Agents!DetectWithSessions
  <2>. QED BY <1>1, <1>2, <1>5, <2>1, <2>2, <2>3, AppIs
<1>. HIDE DEF map, all, kept, waits, with, rs
<1>8. a \in Agents!App /\ a.rows = app.rows /\ a.pins = kept /\ ~ a.redetectWanted /\ a.waits = waits
      /\ a.view = app.view
  BY <1>1, <1>7, AppIs
<1>. HIDE DEF a
<1>9. app' \in Agents!App /\ app'.rows = app.rows /\ app'.pins = kept /\ ~ app'.redetectWanted
      /\ app'.waits = waits /\ app'.view = app.view
  BY <1>3, <1>8, RebuiltTyped
<1>10. Agents!AgentsTypeOK'
  BY <1>1, <1>4, <1>9 DEF AgentsIInv, Agents!AgentsTypeOK
<1>11. Agents!OwnPinsStand'
  <2>1. CASE app.redetectWanted
    BY <1>1, <1>9, <2>1 DEF kept, AgentsIInv, Agents!OwnPinsStand
  <2>2. CASE ~ app.redetectWanted
    <3>1. app'.pins = run.pins
      BY <1>9, <2>2 DEF kept
    <3>2. DOMAIN app'.rows = DOMAIN app.rows
      BY <1>9
    <3>. QED BY <1>1, <1>9, <2>2, <3>1, <3>2 DEF AgentsIInv, RunReadThePins, Agents!OwnPinsStand
  <2>. QED BY <2>1, <2>2
<1>12. WaitsAtThePrompt'
  BY <1>9 DEF AgentsIInv, WaitsAtThePrompt, waits
<1>13. Agents!PoolIsOnItsWay'
  BY <1>4, <1>9 DEF AgentsIInv, WaitsAtThePrompt, Agents!PoolIsOnItsWay, waits, Agents!NoRun
<1>14. RunIsOfTheRows' /\ PinsAreStored' /\ RunReadThePins'
  <2>1. run' = Agents!NoRun \/ run' = [rows |-> app'.rows, pool |-> TRUE, at |-> "spawned", pins |-> <<>>]
    BY <1>4, <1>9
  <2>2. RunIsOfTheRows' /\ RunReadThePins'
    BY <2>1, StartedHolds
  <2>. QED BY <1>1, <2>2 DEF AgentsIInv, PinsAreStored
<1>15. Agents!AnswersItsQuestion' /\ SlotIsADetection'
  BY <1>1 DEF AgentsIInv, Agents!AnswersItsQuestion, SlotIsADetection
<1>. QED BY <1>10, <1>11, <1>12, <1>13, <1>14, <1>15 DEF AgentsIInv

\* A listing lands.
LEMMA RefreshHolds == AgentsIInv /\ Agents!Refresh => AgentsIInv'
<1>. SUFFICES ASSUME AgentsIInv, Agents!Refresh PROVE AgentsIInv'
  OBVIOUS
<1>. DEFINE ex == Agents!Existing
            moved == {p \in Places : p \notin DOMAIN app.rows \/ p \notin DOMAIN ex \/ app.rows[p] # ex[p]}
            Of(rows) == {rows[p] : p \in moved \cap DOMAIN rows}
<1>1. app \in Agents!App /\ heads \in [Places -> Twigs \cup {Agents!Detached, Agents!Absent}]
      /\ mine \in [Twigs \X Sessions -> {"in", "out", "none"}]
  BY DEF AgentsIInv, Agents!AgentsTypeOK
<1>2. UNCHANGED <<home, stored, heads, slot, served, events>> /\ run' = Agents!NoRun
      /\ app' = [app EXCEPT !.rows = ex, !.fresh = FALSE, !.waits = FALSE]
  BY DEF Agents!Refresh, Agents!world, Agents!daemon
<1>3. mine' = [c \in Twigs \X Sessions |-> IF c[1] \in Of(app.rows) \cup Of(ex) THEN "none" ELSE mine[c]]
  BY DEF Agents!Refresh
<1>4. ex \in AgentRows
  BY <1>1, ExistingTyped
<1>5. app.rows \in AgentRows /\ DOMAIN app.rows \subseteq Places /\ DOMAIN ex \subseteq Places
  BY <1>1, <1>4, AppIs, RowsAre
<1>. HIDE DEF ex
<1>6. app' \in Agents!App /\ app'.rows = ex /\ app'.pins = app.pins /\ ~ app'.waits
  BY <1>1, <1>2, <1>4, AppIs
<1>7. mine' \in [Twigs \X Sessions -> {"in", "out", "none"}]
  BY <1>1, <1>3
<1>8. \A b \in Twigs, i \in Sessions : mine'[<<b, i>>] = "none" \/ (mine'[<<b, i>>] = mine[<<b, i>>])
  BY <1>3
<1>9. \A p \in DOMAIN ex, i \in Sessions : ex[p] \in Twigs =>
         mine'[<<ex[p], i>>] = "none"
         \/ (p \in DOMAIN app.rows /\ app.rows[p] = ex[p] /\ mine'[<<ex[p], i>>] = mine[<<ex[p], i>>])
  <2>. SUFFICES ASSUME NEW p \in DOMAIN ex, NEW i \in Sessions, ex[p] \in Twigs
                PROVE  mine'[<<ex[p], i>>] = "none"
                       \/ (p \in DOMAIN app.rows /\ app.rows[p] = ex[p] /\ mine'[<<ex[p], i>>] = mine[<<ex[p], i>>])
    OBVIOUS
  <2>1. CASE p \in moved
    <3>1. ex[p] \in Of(ex)
      BY <2>1
    <3>. HIDE DEF Of
    <3>2. <<ex[p], i>> \in Twigs \X Sessions /\ <<ex[p], i>>[1] = ex[p]
      OBVIOUS
    <3>. QED BY <1>3, <3>1, <3>2
  <2>2. CASE p \notin moved
    BY <1>5, <1>8, <2>2
  <2>. QED BY <2>1, <2>2
<1>. HIDE DEF Of, moved
<1>10. Agents!AgentsTypeOK'
  BY <1>1, <1>2, <1>6, <1>7 DEF AgentsIInv, Agents!AgentsTypeOK
<1>11. Agents!OwnPinsStand'
  BY <1>6, <1>9 DEF AgentsIInv, Agents!OwnPinsStand
<1>12. PinsAreStored'
  BY <1>2, <1>8 DEF AgentsIInv, PinsAreStored
<1>13. Agents!PoolIsOnItsWay' /\ WaitsAtThePrompt' /\ RunIsOfTheRows' /\ RunReadThePins'
  BY <1>2, <1>6 DEF Agents!PoolIsOnItsWay, WaitsAtThePrompt, RunIsOfTheRows, RunReadThePins
<1>14. Agents!AnswersItsQuestion' /\ SlotIsADetection'
  BY <1>2 DEF AgentsIInv, Agents!AnswersItsQuestion, SlotIsADetection
<1>. QED BY <1>10, <1>11, <1>12, <1>13, <1>14 DEF AgentsIInv

\* The TUI pins a session, or takes a pin.
LEMMA PinsHold ==
  ASSUME AgentsIInv, NEW i \in Sessions, NEW how \in {"in", "out"}, Agents!Pins(i, "rows", how)
  PROVE  AgentsIInv'
<1>. DEFINE b == app.rows[app.target]
            read == [p \in DOMAIN app.rows |-> IF app.rows[p] = Agents!Detached THEN {}
                                               ELSE stored'[app.rows[p]] \ {Agents!Bare}]
            a == [app EXCEPT !.view = "rows", !.waits = FALSE]
            c == [a EXCEPT !.pins = read]
<1>1. app \in Agents!App /\ stored \in [Twigs -> SUBSET (Sessions \cup {Agents!Bare})]
      /\ mine \in [Twigs \X Sessions -> {"in", "out", "none"}]
  BY DEF AgentsIInv, Agents!AgentsTypeOK
<1>2. app.rows \in AgentRows /\ app.rows \in [DOMAIN app.rows -> Twigs \cup {Agents!Detached}]
      /\ DOMAIN app.rows \subseteq Places
  BY <1>1, AppIs, RowsAre
<1>3. app.target \in DOMAIN app.rows /\ b \in Twigs
  BY <1>2 DEF Agents!Pins, Agents!CurrentBranch
<1>4. UNCHANGED <<home, heads, events, run, slot, served>>
      /\ mine' = [mine EXCEPT ![<<b, i>>] = how]
      /\ stored' = IF how = "in" THEN Agents!Added(b, i) ELSE Agents!Removed(b, i)
  BY <1>3 DEF Agents!Pins, Agents!CurrentBranch, Agents!daemon
<1>5. app' = Agents!Rebuilt(Agents!Repinned([app EXCEPT !.view = "rows", !.waits = @ /\ FALSE], read))
  BY DEF Agents!Pins
<1>6. /\ stored' \in [Twigs -> SUBSET (Sessions \cup {Agents!Bare})]
      /\ \A x \in Twigs \ {b} : stored'[x] = stored[x]
      /\ stored'[b] = IF how = "in" THEN stored[b] \cup {i} ELSE stored[b] \ {i}
  BY <1>1, <1>3, <1>4 DEF Agents!Added, Agents!Removed
<1>. HIDE DEF b
<1>7. PinsAreStored'
  <2>. SUFFICES ASSUME NEW x \in Twigs, NEW j \in Sessions
                PROVE  /\ mine'[<<x, j>>] = "in" => j \in stored'[x]
                       /\ mine'[<<x, j>>] = "out" => j \notin stored'[x]
    BY DEF PinsAreStored
  <2>1. /\ mine[<<x, j>>] = "in" => j \in stored[x]
        /\ mine[<<x, j>>] = "out" => j \notin stored[x]
    BY DEF AgentsIInv, PinsAreStored
  <2>2. mine'[<<x, j>>] = IF x = b /\ j = i THEN how ELSE mine[<<x, j>>]
    <3>1. <<x, j>> \in Twigs \X Sessions /\ (<<x, j>> = <<b, i>> <=> x = b /\ j = i)
      OBVIOUS
    <3>. QED BY <1>1, <1>4, <3>1
  <2>3. CASE x # b
    BY <1>6, <2>1, <2>2, <2>3
  <2>4. CASE x = b /\ j # i
    <3>1. mine'[<<x, j>>] = mine[<<x, j>>]
      BY <2>2, <2>4
    <3>2. stored'[x] = stored[x] \cup {i} \/ stored'[x] = stored[x] \ {i}
      BY <1>6, <2>4
    <3>3. j \in stored'[x] <=> j \in stored[x]
      BY <2>4, <3>2
    <3>. QED BY <2>1, <3>1, <3>3
  <2>5. CASE x = b /\ j = i
    <3>1. mine'[<<x, j>>] = how
      BY <2>2, <2>5
    <3>2. stored'[x] = IF how = "in" THEN stored[x] \cup {i} ELSE stored[x] \ {i}
      BY <1>6, <2>5
    <3>3. (how = "in" => j \in stored'[x]) /\ (how # "in" => j \notin stored'[x])
      BY <2>5, <3>2
    <3>. QED BY <3>1, <3>3
  <2>. QED BY <2>3, <2>4, <2>5
<1>8. read \in [DOMAIN app.rows -> SUBSET Sessions] /\ read \in AgentPins
  <2>1. read \in [DOMAIN app.rows -> SUBSET Sessions]
    BY <1>2, <1>6
  <2>. QED BY <1>2, <2>1, PinsAre
<1>9. \A p \in DOMAIN app.rows, j \in Sessions : app.rows[p] \in Twigs =>
         /\ mine'[<<app.rows[p], j>>] = "in" => j \in read[p]
         /\ mine'[<<app.rows[p], j>>] = "out" => j \notin read[p]
  BY <1>7, AgentsAssumption DEF PinsAreStored, Agents!Detached, Agents!Bare
<1>10. a \in Agents!App /\ a = [app EXCEPT !.view = "rows", !.waits = @ /\ FALSE]
       /\ a.rows = app.rows /\ a.view = "rows" /\ a.waits = FALSE
  BY <1>1, AppIs
<1>. HIDE DEF read, a
<1>11. c \in Agents!App /\ c.rows = app.rows /\ c.pins = read /\ c.waits = FALSE
  BY <1>8, <1>10, AppIs
<1>. HIDE DEF c
<1>12. /\ run # Agents!NoRun => Agents!Repinned(a, read) = [c EXCEPT !.redetectWanted = TRUE]
       /\ run = Agents!NoRun => Agents!Repinned(a, read) = [c EXCEPT !.fresh = FALSE]
  BY DEF Agents!Repinned, c
<1>13. /\ Agents!Repinned(a, read) \in Agents!App /\ Agents!Repinned(a, read).rows = app.rows
       /\ Agents!Repinned(a, read).pins = read /\ Agents!Repinned(a, read).waits = FALSE
       /\ run # Agents!NoRun => Agents!Repinned(a, read).redetectWanted
  BY <1>11, <1>12, AppIs
<1>14. /\ app' \in Agents!App /\ app'.rows = app.rows /\ app'.pins = read /\ app'.waits = FALSE
       /\ run # Agents!NoRun => app'.redetectWanted
  BY <1>5, <1>10, <1>13, RebuiltTyped
<1>15. mine' \in [Twigs \X Sessions -> {"in", "out", "none"}]
  BY <1>1, <1>4
<1>16. Agents!AgentsTypeOK'
  BY <1>1, <1>4, <1>6, <1>14, <1>15 DEF AgentsIInv, Agents!AgentsTypeOK
<1>17. Agents!OwnPinsStand'
  BY <1>9, <1>14 DEF Agents!OwnPinsStand
<1>18. Agents!PoolIsOnItsWay' /\ WaitsAtThePrompt' /\ RunIsOfTheRows' /\ RunReadThePins'
  BY <1>4, <1>14 DEF AgentsIInv, Agents!PoolIsOnItsWay, WaitsAtThePrompt, RunIsOfTheRows, RunReadThePins
<1>19. Agents!AnswersItsQuestion' /\ SlotIsADetection'
  BY <1>4 DEF AgentsIInv, Agents!AnswersItsQuestion, SlotIsADetection
<1>. QED BY <1>7, <1>16, <1>17, <1>18, <1>19 DEF AgentsIInv

\* Others pin, or take pins: what this TUI made of that branch no longer stands.
LEMMA OthersHold ==
  ASSUME AgentsIInv, UNCHANGED <<app, run, slot, served>>,
         home'.files \in [Sessions -> Agents!Session \cup {Agents!Gone}], home'.database \in BOOLEAN,
         stored' \in [Twigs -> SUBSET (Sessions \cup {Agents!Bare})],
         heads' \in [Places -> Twigs \cup {Agents!Detached, Agents!Absent}],
         events' \in 0 .. MaxEvents,
         mine' \in [Twigs \X Sessions -> {"in", "out", "none"}],
         \A b \in Twigs, i \in Sessions :
            mine'[<<b, i>>] = "none" \/ (stored'[b] = stored[b] /\ mine'[<<b, i>>] = mine[<<b, i>>])
  PROVE  AgentsIInv'
<1>1. Agents!AgentsTypeOK'
  BY DEF AgentsIInv, Agents!AgentsTypeOK
<1>2. Agents!OwnPinsStand' /\ Agents!PoolIsOnItsWay' /\ WaitsAtThePrompt'
  BY DEF AgentsIInv, Agents!OwnPinsStand, Agents!PoolIsOnItsWay, WaitsAtThePrompt
<1>3. RunIsOfTheRows' /\ PinsAreStored' /\ RunReadThePins'
  BY DEF AgentsIInv, RunIsOfTheRows, PinsAreStored, RunReadThePins
<1>4. Agents!AnswersItsQuestion' /\ SlotIsADetection'
  BY DEF AgentsIInv, Agents!AnswersItsQuestion, SlotIsADetection
<1>. QED BY <1>1, <1>2, <1>3, <1>4 DEF AgentsIInv

LEMMA CliHolds ==
  ASSUME AgentsIInv, NEW b \in Twigs, NEW s \in SUBSET (Sessions \cup {Agents!Bare}),
         Agents!Others, stored' = [stored EXCEPT ![b] = s], Agents!Nobodys(b),
         UNCHANGED <<home, heads, app, run, slot, served>>
  PROVE  AgentsIInv'
<1>1. /\ home.files \in [Sessions -> Agents!Session \cup {Agents!Gone}] /\ home.database \in BOOLEAN
      /\ stored \in [Twigs -> SUBSET (Sessions \cup {Agents!Bare})]
      /\ heads \in [Places -> Twigs \cup {Agents!Detached, Agents!Absent}]
      /\ mine \in [Twigs \X Sessions -> {"in", "out", "none"}] /\ events \in 0 .. MaxEvents
  BY DEF AgentsIInv, Agents!AgentsTypeOK
<1>2. stored' \in [Twigs -> SUBSET (Sessions \cup {Agents!Bare})]
      /\ \A x \in Twigs \ {b} : stored'[x] = stored[x]
  BY <1>1
<1>3. events' \in 0 .. MaxEvents
  BY <1>1, AgentsAssumption DEF Agents!Others
<1>4. mine' = [c \in Twigs \X Sessions |-> IF c[1] = b THEN "none" ELSE mine[c]]
  BY DEF Agents!Nobodys
<1>5. mine' \in [Twigs \X Sessions -> {"in", "out", "none"}]
  BY <1>1, <1>4
<1>6. \A x \in Twigs, i \in Sessions :
         mine'[<<x, i>>] = "none" \/ (stored'[x] = stored[x] /\ mine'[<<x, i>>] = mine[<<x, i>>])
  <2>. SUFFICES ASSUME NEW x \in Twigs, NEW i \in Sessions
                PROVE  mine'[<<x, i>>] = "none" \/ (stored'[x] = stored[x] /\ mine'[<<x, i>>] = mine[<<x, i>>])
    OBVIOUS
  <2>1. <<x, i>> \in Twigs \X Sessions /\ <<x, i>>[1] = x
    OBVIOUS
  <2>2. mine'[<<x, i>>] = IF x = b THEN "none" ELSE mine[<<x, i>>]
    BY <1>4, <2>1
  <2>. QED BY <1>2, <2>2
<1>. QED BY <1>1, <1>2, <1>3, <1>5, <1>6, OthersHold

LEMMA OutsideHolds ==
  ASSUME AgentsIInv,
         \/ \E p \in Places : Agents!CliDetachAll(p)
         \/ \E p \in Places, i \in Sessions : Agents!CliAttach(p, i) \/ Agents!CliDetach(p, i)
         \/ \E p \in Places, b \in Twigs \cup {Agents!Detached, Agents!Absent} : Agents!Checkout(p, b)
         \/ \E h \in Touched : Agents!Touch(h)
  PROVE  AgentsIInv'
<1>1. /\ home.files \in [Sessions -> Agents!Session \cup {Agents!Gone}] /\ home.database \in BOOLEAN
      /\ stored \in [Twigs -> SUBSET (Sessions \cup {Agents!Bare})]
      /\ heads \in [Places -> Twigs \cup {Agents!Detached, Agents!Absent}]
      /\ mine \in [Twigs \X Sessions -> {"in", "out", "none"}] /\ events \in 0 .. MaxEvents
  BY DEF AgentsIInv, Agents!AgentsTypeOK
<1>2. \A p \in DOMAIN Agents!Existing : p \in Places /\ heads[p] # Agents!Absent
  BY DEF Agents!Existing
<1>3. \A p \in DOMAIN Agents!Existing : heads[p] # Agents!Detached => heads[p] \in Twigs
  BY <1>1, <1>2
<1>4. ASSUME NEW p \in Places, Agents!CliDetachAll(p) PROVE AgentsIInv'
  <2>1. /\ heads[p] \in Twigs /\ Agents!Others /\ stored' = [stored EXCEPT ![heads[p]] = {}]
        /\ Agents!Nobodys(heads[p]) /\ UNCHANGED <<home, heads, app, run, slot, served>>
    BY <1>3, <1>4 DEF Agents!CliDetachAll, Agents!Cleared, Agents!daemon
  <2>. QED BY <2>1, CliHolds
<1>5. ASSUME NEW p \in Places, NEW i \in Sessions, Agents!CliAttach(p, i) PROVE AgentsIInv'
  <2>1. /\ heads[p] \in Twigs /\ Agents!Others /\ stored' = [stored EXCEPT ![heads[p]] = @ \cup {i}]
        /\ Agents!Nobodys(heads[p]) /\ UNCHANGED <<home, heads, app, run, slot, served>>
    BY <1>3, <1>5 DEF Agents!CliAttach, Agents!Added, Agents!daemon
  <2>2. stored[heads[p]] \cup {i} \in SUBSET (Sessions \cup {Agents!Bare})
    BY <1>1, <2>1
  <2>. QED BY <2>1, <2>2, CliHolds
<1>6. ASSUME NEW p \in Places, NEW i \in Sessions, Agents!CliDetach(p, i) PROVE AgentsIInv'
  <2>1. /\ heads[p] \in Twigs /\ Agents!Others /\ stored' = [stored EXCEPT ![heads[p]] = @ \ {i}]
        /\ Agents!Nobodys(heads[p]) /\ UNCHANGED <<home, heads, app, run, slot, served>>
    BY <1>3, <1>6 DEF Agents!CliDetach, Agents!Removed, Agents!daemon
  <2>2. stored[heads[p]] \ {i} \in SUBSET (Sessions \cup {Agents!Bare})
    BY <1>1, <2>1
  <2>. QED BY <2>1, <2>2, CliHolds
<1>7. ASSUME NEW p \in Places, NEW b \in Twigs \cup {Agents!Detached, Agents!Absent}, Agents!Checkout(p, b)
      PROVE  AgentsIInv'
  <2>1. heads' = [heads EXCEPT ![p] = b] /\ events' = events + 1 /\ events < MaxEvents
        /\ UNCHANGED <<home, stored, app, run, mine, slot, served>>
    BY <1>7 DEF Agents!Checkout, Agents!Others, Agents!daemon
  <2>2. heads' \in [Places -> Twigs \cup {Agents!Detached, Agents!Absent}] /\ events' \in 0 .. MaxEvents
    BY <1>1, <2>1, AgentsAssumption
  <2>. QED BY <1>1, <2>1, <2>2, OthersHold
<1>8. ASSUME NEW h \in Touched, Agents!Touch(h) PROVE AgentsIInv'
  <2>1. home' = h /\ events' = events + 1 /\ events < MaxEvents
        /\ UNCHANGED <<stored, heads, app, run, mine, slot, served>>
    BY <1>8 DEF Agents!Touch, Agents!Others, Agents!daemon
  <2>2. home'.files \in [Sessions -> Agents!Session \cup {Agents!Gone}] /\ home'.database \in BOOLEAN
    BY <2>1, WorldsAssumption
  <2>3. events' \in 0 .. MaxEvents
    BY <1>1, <2>1, AgentsAssumption
  <2>. QED BY <1>1, <2>1, <2>2, <2>3, OthersHold
<1>. QED BY <1>4, <1>5, <1>6, <1>7, <1>8

\* What the daemon keeps moves alone.
LEMMA OnlyTheDaemonMoves ==
  ASSUME AgentsIInv, UNCHANGED <<home, stored, heads, app, run, mine, events>>,
         SlotIsADetection', Agents!AnswersItsQuestion'
  PROVE  AgentsIInv'
<1>1. Agents!AgentsTypeOK'
  BY DEF AgentsIInv, Agents!AgentsTypeOK
<1>2. Agents!OwnPinsStand' /\ Agents!PoolIsOnItsWay' /\ WaitsAtThePrompt'
  BY DEF AgentsIInv, Agents!OwnPinsStand, Agents!PoolIsOnItsWay, WaitsAtThePrompt
<1>3. RunIsOfTheRows' /\ PinsAreStored' /\ RunReadThePins'
  BY DEF AgentsIInv, RunIsOfTheRows, PinsAreStored, RunReadThePins
<1>. QED BY <1>1, <1>2, <1>3 DEF AgentsIInv

LEMMA AgedIs ==
  ASSUME NEW s, NEW f,
         s = [rows |-> s.rows, pins |-> s.pins, pool |-> s.pool, fresh |-> s.fresh,
              of |-> s.of, map |-> s.map, all |-> s.all]
  PROVE  [s EXCEPT !.fresh = f] = [rows |-> s.rows, pins |-> s.pins, pool |-> s.pool, fresh |-> f,
                                   of |-> s.of, map |-> s.map, all |-> s.all]
<1>. DEFINE S == [rows : {s.rows}, pins : {s.pins}, pool : {s.pool}, fresh : {s.fresh, f},
                  of : {s.of}, map : {s.map}, all : {s.all}]
            x == [s EXCEPT !.fresh = f]
<1>1. s \in S
  OBVIOUS
<1>2. x \in S /\ x.fresh = f
  BY <1>1
<1>3. x.rows = s.rows /\ x.pins = s.pins /\ x.pool = s.pool /\ x.of = s.of /\ x.map = s.map /\ x.all = s.all
  BY <1>2
<1>. HIDE DEF x
<1>4. x = [rows |-> x.rows, pins |-> x.pins, pool |-> x.pool, fresh |-> x.fresh,
           of |-> x.of, map |-> x.map, all |-> x.all]
  BY <1>2
<1>5. x = [rows |-> s.rows, pins |-> s.pins, pool |-> s.pool, fresh |-> f,
           of |-> s.of, map |-> s.map, all |-> s.all]
  BY <1>2, <1>3, <1>4
<1>. QED BY <1>5 DEF x

\* A detection, kept.
Kept(s) ==
    /\ s = [rows |-> s.rows, pins |-> s.pins, pool |-> s.pool, fresh |-> s.fresh,
            of |-> s.of, map |-> s.map, all |-> s.all]
    /\ s.map = Agents!DetectAll(s.of, s.rows, s.pins)
    /\ s.pool => s.all = Agents!Collected(s.of, s.rows, TRUE)

LEMMA SlotKept == SlotIsADetection <=> (slot # Agents!NoSlot => Kept(slot))
BY DEF SlotIsADetection, Kept

LEMMA DaemonHolds ==
  ASSUME AgentsIInv, (\E pool \in BOOLEAN : Agents!Serve(pool)) \/ Agents!SlotElapses
  PROVE  AgentsIInv'
<1>1. ASSUME NEW pool \in BOOLEAN, Agents!Serve(pool) PROVE AgentsIInv'
  <2>. DEFINE rows == DOMAIN Agents!Existing
              pins == Agents!PinsOf(Agents!Existing)
              with == Agents!DetectWithSessions(home, rows, pins)
              map == IF pool THEN with.map ELSE Agents!DetectAll(home, rows, pins)
              all == IF pool THEN with.all ELSE {}
              anew == [rows |-> rows, pins |-> pins, pool |-> pool, fresh |-> TRUE, of |-> home,
                       map |-> map, all |-> all]
  <2>1. /\ slot' = IF Agents!Answers(rows, pins, pool) THEN slot ELSE anew
        /\ served' = [rows |-> rows, pins |-> pins, pool |-> pool, of |-> slot'.of,
                      map |-> slot'.map, all |-> slot'.all]
        /\ UNCHANGED <<home, stored, heads, app, run, mine, events>>
    BY <1>1 DEF Agents!Serve, Agents!world
  <2>. HIDE DEF rows, pins
  <2>2. map = Agents!DetectAll(home, rows, pins)
    BY SameSummary
  <2>3. pool => all = Agents!Collected(home, rows, TRUE)
    BY DEF Agents!DetectWithSessions
  <2>. HIDE DEF with, map, all
  <2>4. Kept(slot') /\ slot'.rows = rows /\ slot'.pins = pins /\ (pool => slot'.pool)
    <3>1. CASE Agents!Answers(rows, pins, pool)
      <4>1. slot # Agents!NoSlot /\ slot' = slot
        BY <2>1, <3>1 DEF Agents!Answers
      <4>2. Kept(slot)
        BY <4>1, SlotKept DEF AgentsIInv
      <4>3. slot.rows = rows /\ slot.pins = pins /\ (pool => slot.pool)
        BY <3>1 DEF Agents!Answers
      <4>. QED BY <4>1, <4>2, <4>3
    <3>2. CASE ~ Agents!Answers(rows, pins, pool)
      <4>1. slot' = [rows |-> rows, pins |-> pins, pool |-> pool, fresh |-> TRUE, of |-> home,
                     map |-> map, all |-> all]
        BY <2>1, <3>2
      <4>2. slot'.rows = rows /\ slot'.pins = pins /\ slot'.pool = pool /\ slot'.fresh = TRUE
            /\ slot'.of = home /\ slot'.map = map /\ slot'.all = all
        BY <4>1
      <4>3. slot' = [rows |-> slot'.rows, pins |-> slot'.pins, pool |-> slot'.pool, fresh |-> slot'.fresh,
                     of |-> slot'.of, map |-> slot'.map, all |-> slot'.all]
        BY <4>1, <4>2
      <4>4. slot'.map = Agents!DetectAll(slot'.of, slot'.rows, slot'.pins)
        BY <2>2, <4>2
      <4>5. slot'.pool => slot'.all = Agents!Collected(slot'.of, slot'.rows, TRUE)
        BY <2>3, <4>2
      <4>6. Kept(slot')
        BY <4>3, <4>4, <4>5, Zenon DEF Kept
      <4>. QED BY <4>2, <4>6
    <3>. QED BY <3>1, <3>2
  <2>. HIDE DEF anew
  <2>5. SlotIsADetection'
    BY <2>4 DEF Kept, SlotIsADetection
  <2>6. Agents!AnswersItsQuestion'
    <3>1. served'.rows = rows /\ served'.pins = pins /\ served'.pool = pool /\ served'.of = slot'.of
          /\ served'.map = slot'.map /\ served'.all = slot'.all
      BY <2>1
    <3>2. slot'.map = Agents!DetectAll(slot'.of, rows, pins)
          /\ (pool => slot'.all = Agents!Collected(slot'.of, rows, TRUE))
      BY <2>4 DEF Kept
    <3>. QED BY <3>1, <3>2 DEF Agents!AnswersItsQuestion
  <2>. QED BY <2>1, <2>5, <2>6, OnlyTheDaemonMoves
<1>2. ASSUME Agents!SlotElapses PROVE AgentsIInv'
  <2>1. slot # Agents!NoSlot /\ slot' = [slot EXCEPT !.fresh = FALSE] /\ served' = Agents!NoSlot
        /\ UNCHANGED <<home, stored, heads, app, run, mine, events>>
    BY <1>2 DEF Agents!SlotElapses, Agents!world
  <2>2. Kept(slot)
    BY <2>1, SlotKept DEF AgentsIInv
  <2>3. slot' = [rows |-> slot.rows, pins |-> slot.pins, pool |-> slot.pool, fresh |-> FALSE,
                 of |-> slot.of, map |-> slot.map, all |-> slot.all]
    <3>1. slot = [rows |-> slot.rows, pins |-> slot.pins, pool |-> slot.pool, fresh |-> slot.fresh,
                  of |-> slot.of, map |-> slot.map, all |-> slot.all]
      BY <2>2 DEF Kept
    <3>2. [slot EXCEPT !.fresh = FALSE] = [rows |-> slot.rows, pins |-> slot.pins, pool |-> slot.pool,
                  fresh |-> FALSE, of |-> slot.of, map |-> slot.map, all |-> slot.all]
      BY <3>1, AgedIs, Zenon
    <3>. QED BY <2>1, <3>2
  <2>4. slot'.rows = slot.rows /\ slot'.pins = slot.pins /\ slot'.pool = slot.pool /\ slot'.fresh = FALSE
        /\ slot'.of = slot.of /\ slot'.map = slot.map /\ slot'.all = slot.all
    BY <2>3
  <2>5. SlotIsADetection'
    BY <2>2, <2>3, <2>4 DEF Kept, SlotIsADetection
  <2>6. Agents!AnswersItsQuestion'
    BY <2>1 DEF Agents!AnswersItsQuestion
  <2>. QED BY <2>1, <2>5, <2>6, OnlyTheDaemonMoves
<1>. QED BY <1>1, <1>2

LEMMA AgentsStepHolds == AgentsIInv /\ Agents!AgentsNext => AgentsIInv'
<1>. SUFFICES ASSUME AgentsIInv, Agents!AgentsNext PROVE AgentsIInv'
  OBVIOUS
<1>1. ASSUME NEW i \in Sessions, Agents!Attach(i) \/ Agents!SubmitInput(i) \/ Agents!Detach(i)
      PROVE  AgentsIInv'
  <2>1. Agents!Pins(i, "rows", "in") \/ Agents!Pins(i, "rows", "out")
    BY <1>1 DEF Agents!Attach, Agents!SubmitInput, Agents!Detach
  <2>. QED BY <2>1, PinsHold
<1>2. CASE \/ \E p \in Places : Agents!CliDetachAll(p)
           \/ \E p \in Places, i \in Sessions : Agents!CliAttach(p, i) \/ Agents!CliDetach(p, i)
           \/ \E p \in Places, b \in Twigs \cup {Agents!Detached, Agents!Absent} : Agents!Checkout(p, b)
           \/ \E h \in Touched : Agents!Touch(h)
  BY <1>2, OutsideHolds
<1>3. CASE Agents!Elapse \/ (\E p \in Places : Agents!Open(p)) \/ Agents!Close \/ Agents!CancelInput
  BY <1>3, ScreenKeysHold
<1>4. CASE (\E pool \in BOOLEAN : Agents!Serve(pool)) \/ Agents!SlotElapses
  BY <1>4, DaemonHolds
<1>5. CASE Agents!Look \/ Agents!ReadPins \/ Agents!Land \/ Agents!Refresh \/ Agents!OpenInput
  BY <1>5, LookHolds, ReadPinsHolds, DetectionLandHolds, RefreshHolds, OpenInputHolds
<1>. QED BY <1>1, <1>2, <1>3, <1>4, <1>5, Zenon DEF Agents!AgentsNext

\* While the agents are at work their invariant holds.
ScreenIInv == screen = "agents" => AgentsIInv

\* For any worktrees, sessions, pins, acts of others and files: a session nobody pinned is shown where it ran and with or
\* without the pool alike (`scan_impl`, `attach_agents_inner`), a pin the TUI made is not put back by a detection that read the
\* pins before it (`apply_agent_snapshot`), a prompt that waits for the pool has it on its way (`refresh_agent_pool`), and the
\* daemon answers what a detection over the same rows and pins found (`detect_cached`).
THEOREM AgentsStayTheRows == ScreenSpec => []AgentsAreTheRows
<1>1. ScreenInit => ScreenIInv
  BY AgentsInitHolds DEF ScreenInit, ScreenIInv
<1>2. ScreenIInv /\ [ScreenNext]_screenVars => ScreenIInv'
  <2>. SUFFICES ASSUME ScreenIInv, [ScreenNext]_screenVars, screen' = "agents" PROVE AgentsIInv'
    BY DEF ScreenIInv
  <2>1. CASE OnlyIn("agents") /\ Agents!AgentsNext
    BY <2>1, AgentsStepHolds DEF OnlyIn, ScreenIInv
  <2>2. CASE UNCHANGED screenVars
    <3>1. UNCHANGED <<home, stored, heads, app, run, mine, slot, served, events, screen>>
      BY <2>2 DEF screenVars, agentsVars
    <3>2. AgentsIInv
      BY <3>1 DEF ScreenIInv
    <3>3. Agents!AgentsTypeOK'
      BY <3>1, <3>2 DEF AgentsIInv, Agents!AgentsTypeOK
    <3>. QED BY <3>1, <3>2, <3>3, OnlyTheScreenMoves DEF AgentsIInv, Agents!AgentsTypeOK
  <2>3. \A x : OnlyIn(x) => screen = x /\ screen' = x
    BY DEF OnlyIn
  <2>. QED BY <2>1, <2>2, <2>3 DEF ScreenNext
<1>3. ScreenIInv => AgentsAreTheRows
  BY FoundInEveryState DEF ScreenIInv, AgentsIInv, AgentsAreTheRows, Agents!AgentsInv
<1>. QED BY <1>1, <1>2, <1>3, PTL DEF ScreenSpec

-----------------------------------------------------------------------------
(* The mutating operations, and quitting. *)

\* A merge is confirmed in a modal that is open and answers, so it never overlaps a
\* mutation that holds its view; without this the result of a merge could take it away.
MergeTakesNoView == "merge" \in InFlight => InFlight \cap {"create", "edit", "delete"} = {}

\* Inductive: the run's invariant, and what keeps a merge away from the views of others.
IInv == ModalInv /\ MergeTakesNoView /\ QuitAbandonsNothing

USE DEF InFlight

LEMMA InitHolds == Init => IInv
BY PrAssumption, CountdownAssumption
   DEF Init, IInv, ModalInv, TypeOK, Views, ModalHoldsItsMutation, DeleteBatchIsHeld,
       OneMutationBesidesMerge, MergeTakesNoView, QuitAbandonsNothing

\* A step that starts and ends no run, and takes no view from one that holds it.
LEMMA NoRunMoves ==
  ASSUME IInv, TypeOK', jobs' = jobs,
         view' = view \/ InFlight \cap {"delete", "create", "edit"} = {},
         pendingDelete' = pendingDelete \/ "delete" \notin InFlight,
         exit' = "quit" => exit = "quit" \/ jobs = {}
  PROVE  IInv'
<1>1. ModalHoldsItsMutation'
  BY DEF IInv, ModalInv, ModalHoldsItsMutation
<1>2. DeleteBatchIsHeld'
  BY DEF IInv, ModalInv, DeleteBatchIsHeld
<1>3. OneMutationBesidesMerge' /\ MergeTakesNoView' /\ QuitAbandonsNothing'
  BY DEF IInv, ModalInv, OneMutationBesidesMerge, MergeTakesNoView, QuitAbandonsNothing
<1>. QED BY <1>1, <1>2, <1>3 DEF IInv, ModalInv

\* A mutation that starts alone, in the view that holds it.
LEMMA StartsAlone ==
  ASSUME IInv, TypeOK', InFlight = {}, NEW j \in Job, jobs' = jobs \cup {j},
         view' = view, exit' = "no",
         j.kind = "delete" => view = "confirm" /\ pendingDelete' = j.targets /\ j.targets # {},
         j.kind \in {"create", "edit"} => view = j.kind
  PROVE  IInv'
<1>1. jobs' = {j}
  OBVIOUS
<1>. QED BY <1>1 DEF IInv, ModalInv, ModalHoldsItsMutation, DeleteBatchIsHeld,
              OneMutationBesidesMerge, MergeTakesNoView, QuitAbandonsNothing

\* A run that ends; one that holds the screen is alone.
LEMMA Ends ==
  ASSUME IInv, TypeOK', NEW j \in jobs, jobs' = jobs \ {j}, exit' = "no",
         \/ j.kind \in {"create", "edit", "delete"}
         \/ j.kind = "merge" /\ pendingDelete' = pendingDelete
         \/ j.kind \notin {"create", "edit", "delete", "merge"} /\ pendingDelete' = pendingDelete
  PROVE  IInv'
<1>1. InFlight' \subseteq InFlight /\ j.kind \in InFlight
  OBVIOUS
<1>2. OneMutationBesidesMerge' /\ MergeTakesNoView' /\ QuitAbandonsNothing'
  BY <1>1 DEF IInv, ModalInv, OneMutationBesidesMerge, MergeTakesNoView, QuitAbandonsNothing
<1>3. InFlight' \cap {"create", "edit", "delete"} = {}
  BY <1>1 DEF IInv, ModalInv, OneMutationBesidesMerge, MergeTakesNoView
<1>4. ModalHoldsItsMutation' /\ DeleteBatchIsHeld'
  BY <1>3 DEF ModalHoldsItsMutation, DeleteBatchIsHeld
<1>. QED BY <1>2, <1>4 DEF IInv, ModalInv

-----------------------------------------------------------------------------
\* Every step keeps the types; a worker's record is one of Job.
LEMMA WorkerType ==
  ASSUME NEW k \in Kinds, NEW T \in SUBSET Worktrees, NEW p \in PullRequests \cup {NoPr}
  PROVE  Worker(k, T, p) \in Job
BY DEF Worker, Job

LEMMA ConfirmTypes ==
  ASSUME TypeOK
  PROVE  ConfirmDelete \subseteq Job /\ ConfirmMerge \subseteq Job
<1>1. Worker("delete", pendingDelete, NoPr) \in Job
  BY WorkerType DEF TypeOK, Kinds
<1>2. Worker("merge", {}, pendingMerge) \in Job
  BY WorkerType DEF TypeOK, Kinds
<1>. QED BY <1>1, <1>2 DEF ConfirmDelete, ConfirmMerge, TypeOK

LEMMA LandTypes == ASSUME TypeOK, NEW j \in jobs, Land(j) PROVE TypeOK'
<1>1. j \in Job /\ j.targets \subseteq Worktrees
  BY DEF TypeOK, Job
<1>2. jobs' \subseteq Job /\ UNCHANGED <<deleteBranch, noteDirty, quitting, exit>>
  BY DEF Land, loop, TypeOK
<1>3. CASE \E ok \in BOOLEAN : LandCreate(ok) \/ LandBootstrap(ok) \/ LandEdit(ok)
  BY <1>2, <1>3 DEF LandCreate, LandBootstrap, LandEdit, TypeOK, modal, Views
<1>4. CASE \E failed \in SUBSET j.targets : LandDelete(j.targets, failed)
  BY <1>1, <1>2, <1>4 DEF LandDelete, TypeOK, Views
<1>5. CASE \E ok \in BOOLEAN : LandMerge(ok)
  BY <1>2, <1>5 DEF LandMerge, TypeOK, Views
<1>6. CASE UNCHANGED <<view, modal, listed>>
  BY <1>2, <1>6 DEF TypeOK, modal
<1>. QED BY <1>3, <1>4, <1>5, <1>6 DEF Land

LEMMA KeepsTypes == TypeOK /\ [Next]_vars => TypeOK'
<1>. SUFFICES ASSUME TypeOK, [Next]_vars PROVE TypeOK'
  OBVIOUS
<1>. USE DEF TypeOK, Views, modal, loop
<1>1. CASE OpenDelete
  BY <1>1 DEF OpenDelete
<1>2. CASE OpenMerge
  BY <1>2 DEF OpenMerge
<1>3. CASE OpenNote \/ TypeNote \/ CloseNote \/ CloseRich \/ CloseReport
  BY <1>3 DEF OpenNote, TypeNote, CloseNote, CloseRich, CloseReport
<1>4. ASSUME NEW v \in Views, OpenView(v) PROVE TypeOK'
  BY <1>4 DEF OpenView
<1>5. ASSUME NEW k \in Kinds, CancelForm(k) \/ SubmitForm(k) \/ RequestFromList(k)
      PROVE  TypeOK'
  <2>1. Worker(k, {}, NoPr) \in Job
    BY WorkerType
  <2>. QED BY <1>5, <2>1 DEF CancelForm, SubmitForm, RequestFromList
<1>6. CASE FireNow \/ CountdownElapses
  BY <1>6, ConfirmTypes DEF FireNow, CountdownElapses
<1>7. CASE Arm \/ CountdownLapses \/ CycleMethod \/ ToggleDeleteBranch \/ Dismiss
  BY <1>7 DEF Arm, CountdownLapses, CycleMethod, ToggleDeleteBranch, Dismiss
<1>8. CASE \E j \in jobs : Land(j)
  BY <1>8, LandTypes
<1>9. CASE AskQuit \/ Leave \/ UNCHANGED vars
  BY <1>9 DEF AskQuit, Leave, vars
<1>. QED BY <1>1, <1>2, <1>3, <1>4, <1>5, <1>6, <1>7, <1>8, <1>9 DEF Next

-----------------------------------------------------------------------------
\* The modal starts a delete alone, and a merge beside what holds no view.
LEMMA DeleteStarts ==
  ASSUME IInv, TypeOK', Looping, view = "confirm", jobs' = ConfirmDelete,
         UNCHANGED <<view, pendingDelete, exit>>
  PROVE  IInv'
<1>1. CASE jobs' = jobs
  BY <1>1, NoRunMoves DEF Looping
<1>2. CASE jobs' # jobs
  <2>1. InFlight = {} /\ pendingDelete # {} /\ jobs' = jobs \cup {Worker("delete", pendingDelete, NoPr)}
    BY <1>2 DEF ConfirmDelete, MayStart
  <2>2. Worker("delete", pendingDelete, NoPr) \in Job
    BY WorkerType DEF IInv, ModalInv, TypeOK, Kinds
  <2>. QED BY <2>1, <2>2, StartsAlone DEF Worker, Looping
<1>. QED BY <1>1, <1>2

LEMMA MergeStarts ==
  ASSUME IInv, TypeOK', Looping, view = "confirm", Answers, jobs' = ConfirmMerge,
         UNCHANGED <<view, pendingDelete, exit>>
  PROVE  IInv'
<1>1. CASE jobs' = jobs
  BY <1>1, NoRunMoves DEF Looping
<1>2. CASE jobs' = jobs \cup {Worker("merge", {}, pendingMerge)}
  <2>1. Worker("merge", {}, pendingMerge).kind = "merge"
    BY DEF Worker
  <2>2. InFlight' = InFlight \cup {"merge"}
    BY <1>2, <2>1
  <2>3. InFlight \cap {"create", "edit", "delete"} = {}
    BY DEF IInv, ModalInv, ModalHoldsItsMutation, Answers
  <2>4. ModalHoldsItsMutation' /\ MergeTakesNoView' /\ QuitAbandonsNothing'
    BY <2>2, <2>3 DEF ModalHoldsItsMutation, MergeTakesNoView, QuitAbandonsNothing, Looping
  <2>5. DeleteBatchIsHeld' /\ OneMutationBesidesMerge'
    BY <1>2, <2>1 DEF IInv, ModalInv, DeleteBatchIsHeld, OneMutationBesidesMerge
  <2>. QED BY <2>4, <2>5 DEF IInv, ModalInv
<1>. QED BY <1>1, <1>2 DEF ConfirmMerge

LEMMA LandHolds == ASSUME IInv, TypeOK', NEW j \in jobs, Land(j) PROVE IInv'
<1>1. jobs' = jobs \ {j} /\ exit' = "no"
  BY DEF Land, Looping, loop
<1>2. CASE j.kind \in {"create", "edit", "delete"}
  BY <1>1, <1>2, Ends
<1>3. CASE j.kind \notin {"create", "edit", "delete"}
  <2>. pendingDelete' = pendingDelete
    BY <1>3 DEF Land, LandBootstrap, LandMerge, modal
  <2>. QED BY <1>1, <1>3, Ends
<1>. QED BY <1>2, <1>3

LEMMA StepHolds == IInv /\ [Next]_vars => IInv'
<1>. SUFFICES ASSUME IInv, [Next]_vars PROVE IInv'
  OBVIOUS
<1>. TypeOK'
  BY KeepsTypes DEF IInv, ModalInv
<1>. DEFINE Unheld == InFlight \cap {"delete", "create", "edit"} = {}
<1>1. view \in {"list", "rich", "note", "report"} => Unheld
  BY DEF IInv, ModalInv, ModalHoldsItsMutation
<1>2. CASE OpenDelete \/ OpenMerge \/ OpenNote \/ TypeNote \/ CloseNote \/ CloseRich \/ CloseReport
  <2>1. Unheld /\ jobs' = jobs /\ exit' # "quit"
    BY <1>1, <1>2 DEF OpenDelete, OpenMerge, OpenNote, TypeNote, CloseNote, CloseRich,
                      CloseReport, Key, Looping, loop
  <2>. QED BY <2>1, NoRunMoves
<1>3. ASSUME NEW v \in Views, OpenView(v) PROVE IInv'
  <2>1. Unheld /\ jobs' = jobs /\ exit' # "quit"
    BY <1>1, <1>3 DEF OpenView, Key, Looping, loop
  <2>. QED BY <2>1, NoRunMoves
<1>4. ASSUME NEW k \in Kinds, CancelForm(k) PROVE IInv'
  <2>1. Unheld
    BY <1>4 DEF CancelForm, MayCancelForm, IInv, ModalInv, ModalHoldsItsMutation
  <2>2. jobs' = jobs /\ exit' # "quit"
    BY <1>4 DEF CancelForm, Key, Looping, loop
  <2>. QED BY <2>1, <2>2, NoRunMoves
<1>5. ASSUME NEW k \in Kinds, SubmitForm(k) \/ RequestFromList(k) PROVE IInv'
  <2>1. InFlight = {} /\ jobs' = jobs \cup {Worker(k, {}, NoPr)} /\ view' = view /\ exit' = "no"
    BY <1>5 DEF SubmitForm, RequestFromList, MayStart, Key, Looping, loop
  <2>2. k # "delete" /\ (k \in {"create", "edit"} => view = k)
    BY <1>5, ListMutationsAssumption DEF SubmitForm, RequestFromList
  <2>3. Worker(k, {}, NoPr) \in Job /\ Worker(k, {}, NoPr).kind = k
    BY WorkerType DEF Worker
  <2>. QED BY <2>1, <2>2, <2>3, StartsAlone
<1>6. CASE FireNow
  <2>1. Looping /\ view = "confirm" /\ Answers /\ UNCHANGED <<view, pendingDelete, exit>>
    BY <1>6 DEF FireNow, Key, loop
  <2>2. jobs' = ConfirmDelete \/ jobs' = ConfirmMerge
    BY <1>6 DEF FireNow
  <2>. QED BY <2>1, <2>2, DeleteStarts, MergeStarts
<1>7. CASE CountdownElapses
  BY <1>7, DeleteStarts DEF CountdownElapses, loop
<1>8. CASE Arm \/ CountdownLapses \/ CycleMethod \/ ToggleDeleteBranch
  <2>1. UNCHANGED <<view, pendingDelete, jobs, exit>>
    BY <1>8 DEF Arm, CountdownLapses, CycleMethod, ToggleDeleteBranch, modal, loop
  <2>. QED BY <2>1, NoRunMoves
<1>9. CASE Dismiss
  <2>1. Unheld
    BY <1>9 DEF Dismiss, Answers, IInv, ModalInv, ModalHoldsItsMutation
  <2>2. jobs' = jobs /\ exit' # "quit"
    BY <1>9 DEF Dismiss, Key, Looping, loop
  <2>. QED BY <2>1, <2>2, NoRunMoves
<1>10. CASE \E j \in jobs : Land(j)
  BY <1>10, LandHolds
<1>11. CASE AskQuit \/ UNCHANGED vars
  <2>1. UNCHANGED <<view, pendingDelete, jobs, exit>>
    BY <1>11 DEF AskQuit, modal, vars, loop
  <2>. QED BY <2>1, NoRunMoves
<1>12. CASE Leave
  <2>1. jobs = {} /\ UNCHANGED <<view, pendingDelete, jobs>>
    BY <1>12 DEF Leave, CanQuitNow, modal
  <2>. QED BY <2>1, NoRunMoves
<1>. QED BY <1>2, <1>3, <1>4, <1>5, <1>6, <1>7, <1>8, <1>9, <1>10, <1>11, <1>12 DEF Next

\* What runs holds its view and its batch, and mutations do not overlap but for a merge,
\* in every behaviour (confirm_fire, has_mutating_task_in_flight, drain_task_results).
THEOREM ModalSafe == Spec => []ModalInv
<1>1. IInv => ModalInv
  BY DEF IInv
<1>. QED BY InitHolds, StepHolds, <1>1, PTL DEF Spec

\* While a quit waits, no step starts a run: keys are dropped, the countdown finds a run
\* in flight, and a result only takes its own away (run_app, can_quit_now).
LEMMA QuitStartsNothing ==
  ASSUME IInv, [Next]_vars, quitting
  PROVE  jobs' \subseteq jobs
<1>1. CASE CountdownElapses
  <2>1. InFlight # {}
    BY <1>1 DEF CountdownElapses, Looping, CanQuitNow
  <2>. QED BY <1>1, <2>1 DEF CountdownElapses, ConfirmDelete, MayStart
<1>2. CASE \E j \in jobs : Land(j)
  BY <1>2 DEF Land
<1>3. CASE CountdownLapses \/ Leave \/ UNCHANGED vars
  BY <1>3 DEF CountdownLapses, Leave, vars
<1>4. ~ Key
  BY DEF Key
<1>. QED BY <1>1, <1>2, <1>3, <1>4
         DEF Next, OpenDelete, OpenMerge, OpenNote, TypeNote, CloseNote, CloseRich, CloseReport,
             OpenView, CancelForm, SubmitForm, RequestFromList, FireNow, Arm, CycleMethod,
             ToggleDeleteBranch, Dismiss, AskQuit

\* A quit waits for every worker and lets none start.
THEOREM QuitIsSafe == Spec => QuitIsClean
<1>1. IInv => QuitAbandonsNothing
  BY DEF IInv
<1>2. ASSUME IInv, [Next]_vars PROVE [quitting => jobs' \subseteq jobs]_vars
  BY <1>2, QuitStartsNothing
<1>. QED BY InitHolds, StepHolds, <1>1, <1>2, PTL
         DEF Spec, QuitIsClean, NothingStartsWhileQuitting
=============================================================================
