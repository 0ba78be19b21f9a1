---------------------------- MODULE DaemonProofs ----------------------------
(* The slots of a daemon, for every number of clients and every cap: the
   counter counts the threads, so the cap holds and nobody is refused while a
   slot is free.                                                           *)
EXTENDS Daemon, FiniteSetTheorems, TLAPS

\* The part of TypeOK the counting needs, and where a refused connection is.
Places ==
  /\ pc \in [Clients -> Working \cup {"out", "backlog", "ended"}]
  /\ refusing \in Clients \cup {Nobody}
  /\ refusing # Nobody => pc[refusing] = "backlog"

Refused == IF refusing = Nobody THEN 0 ELSE 1

\* Inductive: what is counted is served or being refused, never over the cap,
\* and who is being refused found it full.
IInv == Places /\ SlotsCounted /\ CapHolds

\* Served is finite, so it has a cardinality.
LEMMA ServedFinite == IsFiniteSet(Served) /\ Cardinality(Served) \in Nat
<1>1. Served \subseteq Clients
  BY DEF Served
<1>2. IsFiniteSet(Served)
  BY <1>1, FS_Subset, ClientsAssumption
<1>. QED BY <1>2, FS_CardinalityType

\* A step of a thread that keeps its slot changes none of the counting.
LEMMA KeepsSlots ==
  ASSUME IInv, UNCHANGED <<active, refusing>>,
         pc' \in [Clients -> Working \cup {"out", "backlog", "ended"}],
         refusing # Nobody => pc'[refusing] = "backlog",
         \A c \in Clients : pc[c] \in Working <=> pc'[c] \in Working
  PROVE  IInv'
<1>1. Served' = Served
  BY DEF Served
<1>2. Cardinality(Served)' = Cardinality(Served)
  BY <1>1
<1>. QED BY <1>2 DEF IInv, Places, SlotsCounted, CapHolds

\* A thread that goes from one place of its own to another keeps its slot.
LEMMA Moves ==
  ASSUME IInv, UNCHANGED <<active, refusing>>, NEW c \in Clients,
         NEW place \in Working, pc[c] \in Working,
         pc' = [pc EXCEPT ![c] = place]
  PROVE  IInv'
<1>1. pc' \in [Clients -> Working \cup {"out", "backlog", "ended"}]
  BY DEF IInv, Places
<1>2. refusing # Nobody => refusing # c /\ pc'[refusing] = "backlog"
  BY DEF IInv, Places, Working
<1>3. \A d \in Clients : pc[d] \in Working <=> pc'[d] \in Working
  BY DEF IInv, Places
<1>. QED BY <1>1, <1>2, <1>3, KeepsSlots

\* Nor does a step that leaves the places alone.
LEMMA Stays == ASSUME IInv, UNCHANGED <<active, refusing, pc>> PROVE IInv'
<1>. Served' = Served
  BY DEF Served
<1>. QED BY DEF IInv, Places, SlotsCounted, CapHolds

LEMMA InitCounts == Init => IInv
<1>. SUFFICES ASSUME Init PROVE IInv
  OBVIOUS
<1>1. Places
  BY ClientsAssumption DEF Init, Places
<1>2. Served = {}
  BY DEF Init, Served, Working
<1>3. Cardinality(Served) = 0
  BY <1>2, FS_EmptySet
<1>. QED BY <1>1, <1>3, CapAssumption DEF Init, IInv, SlotsCounted, CapHolds

\* Counting one more connection: it is served, or it is the one being refused.
LEMMA AcceptCounts == ASSUME IInv, NEW c \in Clients, Accept(c) PROVE IInv'
<1>. USE ServedFinite, CapAssumption, ClientsAssumption
<1>1. c \notin Served /\ refusing = Nobody /\ pc[c] = "backlog"
  BY DEF Accept, Served, Working
<1>2. active = Cardinality(Served)
  BY <1>1 DEF IInv, SlotsCounted
<1>3. CASE HasSlot
  <2>1. pc' = [pc EXCEPT ![c] = "reading"] /\ active' = active + 1 /\ refusing' = Nobody
    BY <1>1, <1>3 DEF Accept
  <2>2. Served' = Served \cup {c}
    BY <2>1 DEF Served, Working, IInv, Places
  <2>3. Cardinality(Served') = Cardinality(Served) + 1
    BY <2>2, <1>1, FS_AddElement
  <2>4. Places'
    BY <2>1 DEF IInv, Places, Working
  <2>5. SlotsCounted' /\ CapHolds'
    BY <2>1, <2>3, <1>2, <1>3 DEF SlotsCounted, CapHolds, HasSlot
  <2>. QED BY <2>4, <2>5 DEF IInv
<1>4. CASE ~HasSlot
  <2>1. pc' = pc /\ active' = active + 1 /\ refusing' = c
    BY <1>4 DEF Accept
  <2>2. Served' = Served
    BY <2>1 DEF Served
  <2>3. Cardinality(Served') = Cardinality(Served)
    BY <2>2
  <2>. QED BY <2>1, <2>3, <1>1, <1>2 DEF IInv, Places, SlotsCounted, CapHolds
<1>. QED BY <1>3, <1>4

\* Uncounting the refused connection, which no thread serves.
LEMMA RefuseCounts == ASSUME IInv, Refuse PROVE IInv'
<1>. USE ServedFinite, ClientsAssumption
<1>1. refusing \in Clients /\ pc[refusing] = "backlog" /\ refusing # Nobody
  BY DEF Refuse, IInv, Places
<1>2. pc' = [pc EXCEPT ![refusing] = "ended"] /\ active' = active - 1 /\ refusing' = Nobody
  BY DEF Refuse
<1>3. Served' = Served
  BY <1>1, <1>2 DEF Served, Working, IInv, Places
<1>4. Cardinality(Served') = Cardinality(Served)
  BY <1>3
<1>5. Places'
  BY <1>1, <1>2 DEF IInv, Places
<1>6. SlotsCounted' /\ CapHolds'
  BY <1>1, <1>2, <1>4 DEF IInv, SlotsCounted, CapHolds
<1>. QED BY <1>5, <1>6 DEF IInv

\* A thread that ends gives back its own slot.
LEMMA DropCounts == ASSUME IInv, NEW c \in Clients, DropGuard(c) PROVE IInv'
<1>. USE ServedFinite, ClientsAssumption, CapAssumption
<1>1. pc' = [pc EXCEPT ![c] = "ended"] /\ active' = active - 1
      /\ refusing' = refusing /\ pc[c] = "ending"
  BY DEF DropGuard, Goto, acceptVars
<1>2. c \in Served
  BY <1>1 DEF Served, Working
<1>3. Served' = Served \ {c}
  BY <1>1 DEF Served, Working, IInv, Places
<1>4. Cardinality(Served') = Cardinality(Served) - 1
  BY <1>2, <1>3, FS_RemoveElement
<1>5. Places'
  BY <1>1 DEF IInv, Places
<1>6. SlotsCounted' /\ CapHolds'
  BY <1>1, <1>4 DEF IInv, SlotsCounted, CapHolds
<1>. QED BY <1>5, <1>6 DEF IInv

\* The end of the accept loop takes the backlog, which holds no slot.
LEMMA StopCounts == ASSUME IInv, Stop PROVE IInv'
<1>1. refusing = Nobody /\ UNCHANGED <<active, refusing>>
      /\ pc' = [d \in Clients |-> IF pc[d] = "backlog" THEN "ended" ELSE pc[d]]
  BY DEF Stop
<1>2. pc' \in [Clients -> Working \cup {"out", "backlog", "ended"}]
  BY <1>1 DEF IInv, Places
<1>3. \A d \in Clients : pc[d] \in Working <=> pc'[d] \in Working
  BY <1>1 DEF Working
<1>. QED BY <1>1, <1>2, <1>3, KeepsSlots

LEMMA ConnectCounts == ASSUME IInv, NEW c \in Clients, Connect(c) PROVE IInv'
<1>1. pc' = [pc EXCEPT ![c] = "backlog"] /\ pc[c] = "out" /\ UNCHANGED <<active, refusing>>
  BY DEF Connect, acceptVars
<1>2. pc' \in [Clients -> Working \cup {"out", "backlog", "ended"}]
  BY <1>1 DEF IInv, Places
<1>3. \A d \in Clients : pc[d] \in Working <=> pc'[d] \in Working
  BY <1>1 DEF IInv, Places, Working
<1>4. refusing # Nobody => pc'[refusing] = "backlog"
  BY <1>1 DEF IInv, Places
<1>. QED BY <1>1, <1>2, <1>3, <1>4, KeepsSlots

\* Where a line leads, and where a poll does, is a place of the thread.
LEMMA LeadsOn == (\A line : After(line) \in Working) /\ PollAgain \in Working
<1>1. ASSUME NEW line PROVE After(line) \in Working
  <2>1. CASE Owed(line)
    BY <2>1 DEF After, Working, Owed
  <2>2. CASE line = "subscribe"
    BY <2>2 DEF After, Working, Owed
  <2>3. CASE line = "binary"
    BY <2>3 DEF After, Working, Owed
  <2>4. CASE ~Owed(line) /\ line # "subscribe" /\ line # "binary"
    BY <2>4 DEF After, Working, Owed
  <2>. QED BY <2>1, <2>2, <2>3, <2>4
<1>2. PollAgain \in Working
  BY DEF PollAgain, Working
<1>. QED BY <1>1, <1>2

LEMMA ThreadCounts ==
  ASSUME IInv, NEW c \in Clients,
         \/ Thread(c) \/ ReadPart(c) \/ Deadline(c) \/ Panic(c) \/ ScanOk(c) \/ ScanFails(c)
  PROVE  IInv'
<1>1. CASE DropGuard(c)
  BY <1>1, DropCounts
<1>2. CASE ReadLine(c)
  <2>1. /\ UNCHANGED <<active, refusing>> /\ pc[c] \in Working
        /\ pc' = [pc EXCEPT ![c] = After(sent[c][read[c] + 1])]
    BY <1>2 DEF ReadLine, Goto, Working, acceptVars
  <2>. QED BY <2>1, LeadsOn, Moves
<1>3. CASE ReadPart(c)
  <2>1. UNCHANGED <<active, refusing>> /\ pc[c] \in Working
    BY <1>3 DEF ReadPart, Working, acceptVars
  <2>2. CASE UNCHANGED pc
    BY <2>1, <2>2, Stays
  <2>3. CASE pc' = [pc EXCEPT ![c] = "ending"]
    <3>1. "ending" \in Working
      BY DEF Working
    <3>. QED BY <2>1, <2>3, <3>1, Moves
  <2>. QED BY <1>3, <2>2, <2>3 DEF ReadPart, Goto
<1>4. CASE ReadEnd(c) \/ WriteFails(c) \/ Deadline(c) \/ Panic(c)
  <2>1. /\ UNCHANGED <<active, refusing>> /\ pc[c] \in Working
        /\ pc' = [pc EXCEPT ![c] = "ending"]
    BY <1>4 DEF ReadEnd, WriteFails, Deadline, Panic, Goto, Working, acceptVars
  <2>2. "ending" \in Working
    BY DEF Working
  <2>. QED BY <2>1, <2>2, Moves
<1>5. CASE AnswerLine(c)
  <2>1. /\ UNCHANGED <<active, refusing>> /\ pc[c] \in Working
        /\ pc' = [pc EXCEPT ![c] = "reading"]
    BY <1>5 DEF AnswerLine, Goto, Working, acceptVars
  <2>2. "reading" \in Working
    BY DEF Working
  <2>. QED BY <2>1, <2>2, Moves
<1>6. CASE Tick(c)
  <2>1. /\ UNCHANGED <<active, refusing>> /\ pc[c] \in Working
        /\ pc' = [pc EXCEPT ![c] = "scanning"]
    BY <1>6 DEF Tick, Goto, Working, acceptVars
  <2>2. "scanning" \in Working
    BY DEF Working
  <2>. QED BY <2>1, <2>2, Moves
<1>7. CASE ScanFails(c) \/ PushList(c)
  <2>1. /\ UNCHANGED <<active, refusing>> /\ pc[c] \in Working
        /\ pc' = [pc EXCEPT ![c] = PollAgain]
    BY <1>7 DEF ScanFails, PushList, Goto, Working, acceptVars
  <2>. QED BY <2>1, LeadsOn, Moves
<1>8. CASE ScanOk(c)
  <2>1. UNCHANGED <<active, refusing>> /\ pc[c] \in Working
    BY <1>8 DEF ScanOk, Working, acceptVars
  <2>2. PICK place \in {"pushing", PollAgain} : pc' = [pc EXCEPT ![c] = place]
    BY <1>8 DEF ScanOk, Goto
  <2>3. place \in Working
    BY LeadsOn DEF Working
  <2>. QED BY <2>1, <2>2, <2>3, Moves
<1>. QED BY <1>1, <1>2, <1>3, <1>4, <1>5, <1>6, <1>7, <1>8 DEF Thread

LEMMA StepCounts == IInv /\ [Next]_vars => IInv'
<1>. SUFFICES ASSUME IInv, [Next]_vars PROVE IInv'
  OBVIOUS
<1>1. CASE Shutdown \/ (\E l \in Lists : Change(l)) \/ UNCHANGED vars
  <2>1. UNCHANGED <<active, refusing, pc>>
    BY <1>1 DEF Shutdown, Change, vars, acceptVars
  <2>. QED BY <2>1, Stays
<1>2. CASE Refuse
  BY <1>2, RefuseCounts
<1>3. CASE Stop
  BY <1>3, StopCounts
<1>4. ASSUME NEW c \in Clients, Client(c) PROVE IInv'
  <2>1. CASE Connect(c)
    BY <2>1, ConnectCounts
  <2>2. CASE Dribble(c) \/ Take(c) \/ Hangup(c) \/ \E line \in Lines : Send(c, line)
    <3>1. UNCHANGED <<active, refusing, pc>>
      BY <2>2 DEF Dribble, Take, Hangup, Send, acceptVars
    <3>. QED BY <3>1, Stays
  <2>. QED BY <1>4, <2>1, <2>2 DEF Client
<1>5. ASSUME NEW c \in Clients, Accept(c) PROVE IInv'
  BY <1>5, AcceptCounts
<1>6. ASSUME NEW c \in Clients,
             \/ Thread(c) \/ ReadPart(c) \/ Deadline(c) \/ Panic(c) \/ ScanOk(c) \/ ScanFails(c)
      PROVE  IInv'
  BY <1>6, ThreadCounts
<1>. QED BY <1>1, <1>2, <1>3, <1>4, <1>5, <1>6 DEF Next

\* The counter is the number of threads and the cap holds, for every cap and
\* any finite number of clients (ActiveGuard, the accept loop of serve).
THEOREM SlotsSafe == Spec => []SlotsInv
<1>1. IInv => SlotsInv
  BY DEF IInv, SlotsInv
<1>. QED BY InitCounts, StepCounts, <1>1, PTL DEF Spec

\* A connection is turned away only when every slot is taken by a thread.
THEOREM RefusalJustified == Spec => RefusedOnlyWhenFull
<1>1. ASSUME IInv, [Next]_vars
      PROVE  [refusing' \notin {refusing, Nobody} => Cardinality(Served) = MaxConnections]_vars
  <2>. SUFFICES ASSUME refusing' \notin {refusing, Nobody}
                PROVE  Cardinality(Served) = MaxConnections
    OBVIOUS
  <2>1. PICK c \in Clients : Accept(c) /\ ~HasSlot
    <3>1. ~UNCHANGED refusing /\ ~Refuse
      BY DEF Refuse
    <3>2. ASSUME NEW c \in Clients, \/ Client(c) \/ Thread(c) \/ ReadPart(c) \/ Deadline(c)
                                    \/ Panic(c) \/ ScanOk(c) \/ ScanFails(c)
          PROVE  UNCHANGED refusing
      BY <3>2 DEF Client, Connect, Dribble, Take, Hangup, Send, Thread, ReadLine, ReadEnd,
                  AnswerLine, WriteFails, PushList, Tick, DropGuard, ReadPart, Deadline,
                  Panic, ScanOk, ScanFails, acceptVars
    <3>3. Shutdown \/ Stop \/ (\E l \in Lists : Change(l)) \/ UNCHANGED vars => UNCHANGED refusing
      BY DEF Shutdown, Stop, Change, vars, acceptVars
    <3>4. PICK c \in Clients : Accept(c)
      BY <1>1, <3>1, <3>2, <3>3 DEF Next
    <3>. QED BY <3>1, <3>4 DEF Accept
  <2>2. refusing = Nobody
    BY <2>1 DEF Accept
  <2>3. active = Cardinality(Served)
    BY <1>1, <2>2, ServedFinite DEF IInv, SlotsCounted
  <2>. QED BY <1>1, <2>1, <2>3, ServedFinite, CapAssumption DEF IInv, CapHolds, HasSlot
<1>. QED BY InitCounts, StepCounts, <1>1, PTL DEF Spec, RefusedOnlyWhenFull
-----------------------------------------------------------------------------
(* What a connection is written.  StreamInv says nothing of a thread between
   its scan and its push, nor of how the last list relates to the last line;
   a step keeps it only with both.                                         *)

\* No stream yet: the request loop, or before it.
Asking(c) == pc[c] \in {"out", "backlog", "reading", "answering"}

AnsweredSoFar(c) ==
  /\ pc[c] \in {"out", "backlog", "reading"} => Answered(c, 1..read[c])
  /\ pc[c] = "answering" =>
       read[c] >= 1 /\ Answered(c, 1..(read[c] - 1)) /\ Owed(sent[c][read[c]])

\* Only a push moves last, and last is what the newest line says.
LastIsWritten(c) ==
  /\ Asking(c) => last[c] = NoList
  /\ last[c] = NoList => \A i \in DOMAIN written[c] : IsAnswer(c, i)
  /\ last[c] # NoList => written[c] # <<>> /\ written[c][Len(written[c])] = Push(last[c])

\* What is about to be pushed was scanned, and is news.
ScanIsNews(c) ==
  pc[c] = "pushing" =>
    scan[c] \in past /\ (last[c] # NoList => Differ(last[c], scan[c]))

Newsworthy(c) == \A i \in DOMAIN written[c] : ~IsAnswer(c, i) =>
  /\ written[c][i].of \in past
  /\ i < Len(written[c]) =>
       ~IsAnswer(c, i + 1) /\ Differ(written[c][i].of, written[c][i + 1].of)

Good(c) == AnsweredSoFar(c) /\ LastIsWritten(c) /\ ScanIsNews(c) /\ Newsworthy(c)

\* Everything of TypeOK but the counter, which is the counting's.
Typed ==
  /\ world \in Lists /\ past \in SUBSET Lists /\ changes \in 0..MaxChanges
  /\ shutdown \in BOOLEAN /\ up \in BOOLEAN
  /\ closed \in [Clients -> BOOLEAN] /\ dribble \in [Clients -> BOOLEAN]
  /\ sent \in [Clients -> Seq(Lines)] /\ written \in [Clients -> Seq(Messages)]
  /\ read \in [Clients -> Nat] /\ \A c \in Clients : read[c] <= Len(sent[c])
  /\ taken \in [Clients -> Nat] /\ \A c \in Clients : taken[c] <= Len(written[c])
  /\ scan \in [Clients -> Lists \cup {NoList}] /\ last \in [Clients -> Lists \cup {NoList}]

LEMMA TypeSplits == Typed /\ IInv => TypeOK
<1>. SUFFICES ASSUME Typed, IInv PROVE TypeOK
  OBVIOUS
<1>1. active \in Nat
  BY ServedFinite DEF IInv, SlotsCounted
<1>. QED BY <1>1 DEF Typed, IInv, Places, TypeOK

\* Inductive.
SInv == IInv /\ Typed /\ world \in past /\ \A c \in Clients : Good(c)

LEMMA StreamHolds == SInv => StreamInv
<1>. SUFFICES ASSUME SInv PROVE StreamInv
  OBVIOUS
<1>1. AnswersInOrder
  BY DEF SInv, Good, AnsweredSoFar, AnswersInOrder
<1>2. PushesAreNews
  BY DEF SInv, Good, Newsworthy, PushesAreNews
<1>. QED BY <1>1, <1>2, TypeSplits DEF SInv, StreamInv, RequestsInv

LEMMA InitTypes == Init => Typed
<1>. SUFFICES ASSUME Init PROVE Typed
  OBVIOUS
<1>1. world \in Lists /\ past \in SUBSET Lists /\ changes \in 0..MaxChanges
  BY ChangesAssumption DEF Init
<1>2. /\ sent \in [Clients -> Seq(Lines)] /\ written \in [Clients -> Seq(Messages)]
      /\ read \in [Clients -> Nat] /\ \A c \in Clients : read[c] <= Len(sent[c])
      /\ taken \in [Clients -> Nat] /\ \A c \in Clients : taken[c] <= Len(written[c])
  BY DEF Init
<1>3. /\ shutdown \in BOOLEAN /\ up \in BOOLEAN
      /\ closed \in [Clients -> BOOLEAN] /\ dribble \in [Clients -> BOOLEAN]
      /\ scan \in [Clients -> Lists \cup {NoList}] /\ last \in [Clients -> Lists \cup {NoList}]
  BY DEF Init
<1>. QED BY <1>1, <1>2, <1>3 DEF Typed

LEMMA InitStreams == Init => SInv
<1>. SUFFICES ASSUME Init PROVE SInv
  OBVIOUS
<1>1. ASSUME NEW c \in Clients PROVE Good(c)
  <2>1. /\ pc[c] = "out" /\ read[c] = 0 /\ written[c] = <<>> /\ last[c] = NoList
        /\ DOMAIN written[c] = {} /\ 1..read[c] = {}
    BY DEF Init
  <2>. QED BY <2>1 DEF Good, AnsweredSoFar, Answered, LastIsWritten, ScanIsNews, Newsworthy
<1>. QED BY <1>1, InitTypes, InitCounts DEF Init, SInv

-----------------------------------------------------------------------------
(* Types. *)

LEMMA AcceptorTypes ==
  ASSUME Typed, Shutdown \/ Refuse \/ Stop \/ \E l \in Lists : Change(l)
  PROVE  Typed'
<1>1. CASE Shutdown \/ Refuse \/ Stop
  BY <1>1 DEF Typed, Shutdown, Refuse, Stop, worldVars, clientVars, streamVars
<1>2. ASSUME NEW l \in Lists, Change(l) PROVE Typed'
  BY <1>2, ChangesAssumption DEF Typed, Change, acceptVars, clientVars, streamVars
<1>. QED BY <1>1, <1>2

LEMMA AppendLonger ==
  ASSUME NEW S, NEW s \in Seq(S), NEW e \in S
  PROVE  /\ Append(s, e) \in Seq(S) /\ Len(Append(s, e)) = Len(s) + 1
         /\ Len(s) \in Nat /\ DOMAIN s = 1..Len(s)
         /\ DOMAIN Append(s, e) = 1..(Len(s) + 1)
         /\ \A i \in DOMAIN s : Append(s, e)[i] = s[i]
         /\ Append(s, e)[Len(s) + 1] = e
OBVIOUS

LEMMA ClientTypes == ASSUME Typed, NEW c \in Clients, Client(c) PROVE Typed'
<1>1. CASE Connect(c) \/ Dribble(c) \/ Hangup(c)
  BY <1>1 DEF Typed, Connect, Dribble, Hangup, worldVars, acceptVars, clientVars, streamVars
<1>2. CASE Take(c)
  BY <1>2 DEF Typed, Take, worldVars, acceptVars, streamVars
<1>3. ASSUME NEW line \in Lines, Send(c, line) PROVE Typed'
  <2>1. /\ sent' = [sent EXCEPT ![c] = Append(@, line)]
        /\ dribble' = [dribble EXCEPT ![c] = FALSE]
        /\ UNCHANGED <<worldVars, acceptVars, closed, read, written, taken, streamVars>>
    BY <1>3 DEF Send
  <2>2. sent' \in [Clients -> Seq(Lines)]
    BY <2>1 DEF Typed
  <2>3. \A d \in Clients : Len(sent[d]) <= Len(sent'[d])
    BY <2>1, AppendLonger DEF Typed
  <2>4. \A d \in Clients : read'[d] <= Len(sent'[d])
    BY <2>1, <2>2, <2>3 DEF Typed
  <2>. QED BY <2>1, <2>2, <2>4 DEF Typed, worldVars, acceptVars, streamVars
<1>. QED BY <1>1, <1>2, <1>3 DEF Client

LEMMA ThreadTypes ==
  ASSUME SInv, NEW c \in Clients,
         \/ Thread(c) \/ ReadPart(c) \/ Deadline(c) \/ Panic(c) \/ ScanOk(c) \/ ScanFails(c)
  PROVE  Typed'
<1>. USE DEF SInv
<1>1. CASE \/ ReadEnd(c) \/ WriteFails(c) \/ Tick(c) \/ DropGuard(c)
           \/ ReadPart(c) \/ Deadline(c) \/ Panic(c) \/ ScanFails(c)
  BY <1>1 DEF Typed, ReadEnd, WriteFails, Tick, DropGuard, ReadPart, Deadline, Panic, ScanFails,
              worldVars, acceptVars, clientVars, streamVars
<1>2. CASE ScanOk(c)
  BY <1>2 DEF Typed, ScanOk, worldVars, acceptVars, clientVars
<1>3. CASE ReadLine(c)
  BY <1>3 DEF Typed, ReadLine, worldVars, acceptVars, clientVars, streamVars
<1>4. ASSUME NEW m \in Messages, written' = [written EXCEPT ![c] = Append(@, m)],
             UNCHANGED <<worldVars, acceptVars, clientVars, read>>,
             /\ scan' \in [Clients -> Lists \cup {NoList}]
             /\ last' \in [Clients -> Lists \cup {NoList}]
      PROVE  Typed'
  <2>1. written' \in [Clients -> Seq(Messages)]
    BY <1>4 DEF Typed
  <2>2. \A d \in Clients : Len(written[d]) <= Len(written'[d])
    BY <1>4, AppendLonger DEF Typed
  <2>3. \A d \in Clients : taken'[d] <= Len(written'[d])
    BY <1>4, <2>1, <2>2 DEF Typed, clientVars
  <2>. QED BY <1>4, <2>1, <2>3 DEF Typed, worldVars, acceptVars, clientVars
<1>5. CASE AnswerLine(c)
  <2>1. Answer(read[c]) \in Messages
    BY DEF Typed, Answer, Messages
  <2>. QED BY <1>4, <1>5, <2>1 DEF AnswerLine, Typed, streamVars
<1>6. CASE PushList(c)
  <2>1. scan[c] \in Lists
    BY <1>6 DEF PushList, Good, ScanIsNews, Typed
  <2>2. Push(scan[c]) \in Messages
    BY <2>1 DEF Push, Messages
  <2>. QED BY <1>4, <1>6, <2>1, <2>2 DEF PushList, Typed
<1>. QED BY <1>1, <1>2, <1>3, <1>5, <1>6 DEF Thread

LEMMA StepTypes == ASSUME SInv, [Next]_vars PROVE Typed'
<1>1. CASE Shutdown \/ Refuse \/ Stop \/ \E l \in Lists : Change(l)
  BY <1>1, AcceptorTypes DEF SInv
<1>2. ASSUME NEW c \in Clients, Client(c) PROVE Typed'
  BY <1>2, ClientTypes DEF SInv
<1>3. ASSUME NEW c \in Clients, Accept(c) PROVE Typed'
  BY <1>3 DEF SInv, Typed, Accept, worldVars, clientVars, streamVars
<1>4. CASE UNCHANGED vars
  BY <1>4 DEF SInv, Typed, vars, worldVars, acceptVars, clientVars, streamVars
<1>. QED BY <1>1, <1>2, <1>3, <1>4, ThreadTypes DEF Next

-----------------------------------------------------------------------------
(* What a step does to the lines of a client. *)

\* Requests that were read stay what they were.
Kept(d) == \A k \in 1..Len(sent[d]) : sent'[d][k] = sent[d][k]

\* A client whose thread does nothing, or is only now to start.
LEMMA Untouched ==
  ASSUME SInv, NEW d \in Clients, past \subseteq past', Kept(d),
         pc'[d] = pc[d] \/ {pc[d], pc'[d]} \subseteq {"out", "backlog", "reading"},
         UNCHANGED <<read[d], written[d], scan[d], last[d]>>
  PROVE  Good(d)'
<1>1. Good(d) /\ read[d] \in Nat /\ read[d] <= Len(sent[d]) /\ Len(sent[d]) \in Nat
  BY DEF SInv, Typed
<1>2. ASSUME NEW r \in Nat, r <= Len(sent[d]), Answered(d, 1..r)
      PROVE  Answered(d, 1..r)'
  <2>1. \A k \in 1..r : sent'[d][k] = sent[d][k]
    BY <1>1, <1>2 DEF Kept
  <2>. QED BY <1>2, <2>1 DEF Answered, IsAnswer
<1>3. AnsweredSoFar(d)'
  <2>1. CASE pc[d] \in {"out", "backlog", "reading"}
    BY <1>1, <1>2, <2>1 DEF Good, AnsweredSoFar
  <2>2. CASE pc[d] = "answering"
    <3>1. read[d] - 1 \in Nat /\ read[d] - 1 <= Len(sent[d]) /\ read[d] \in 1..Len(sent[d])
      BY <1>1, <2>2 DEF Good, AnsweredSoFar
    <3>2. Answered(d, 1..(read[d] - 1))'
      BY <1>1, <1>2, <2>2, <3>1 DEF Good, AnsweredSoFar
    <3>. QED BY <1>1, <2>2, <3>1, <3>2 DEF Good, AnsweredSoFar, Kept
  <2>. QED BY <2>1, <2>2 DEF AnsweredSoFar
<1>4. LastIsWritten(d)' /\ ScanIsNews(d)'
  BY <1>1 DEF Good, LastIsWritten, ScanIsNews, Asking, IsAnswer
<1>5. Newsworthy(d)'
  BY <1>1 DEF Good, Newsworthy, IsAnswer
<1>. QED BY <1>3, <1>4, <1>5 DEF Good

\* A thread that is not, or no longer, in the request loop and has no list in
\* hand owes nothing.
LEMMA Leaves ==
  ASSUME SInv, NEW c \in Clients, pc'[c] \in {"scanning", "waiting", "ending", "ended"},
         UNCHANGED <<past, written[c], last[c]>>
  PROVE  Good(c)'
<1>1. Good(c)
  BY DEF SInv
<1>2. AnsweredSoFar(c)' /\ ScanIsNews(c)'
  BY DEF AnsweredSoFar, ScanIsNews
<1>3. LastIsWritten(c)'
  BY <1>1 DEF Good, LastIsWritten, Asking, IsAnswer
<1>4. Newsworthy(c)'
  BY <1>1 DEF Good, Newsworthy, IsAnswer
<1>. QED BY <1>2, <1>3, <1>4 DEF Good

\* The request loop goes on to a line that is owed nothing.
LEMMA ReadGood == ASSUME SInv, NEW c \in Clients, ReadLine(c) PROVE Good(c)'
<1>. DEFINE line == sent[c][read[c] + 1]
<1>1. /\ pc[c] = "reading" /\ read[c] \in Nat /\ read[c] < Len(sent[c]) /\ Len(sent[c]) \in Nat
      /\ read'[c] = read[c] + 1 /\ pc'[c] = After(line)
      /\ UNCHANGED <<past, sent, written, scan, last>>
  BY DEF ReadLine, SInv, Typed, IInv, Places, Goto, worldVars, clientVars, streamVars
<1>2. Good(c) /\ Answered(c, 1..read[c])
  BY <1>1 DEF SInv, Good, AnsweredSoFar
<1>3. CASE After(line) \in {"scanning", "ending"}
  BY <1>1, <1>3, Leaves
<1>. PICK r \in Nat : r = read[c]
  BY <1>1
<1>4. CASE Owed(line)
  <2>1. After(line) = "answering"
    BY <1>4 DEF After, Owed
  <2>2. Answered(c, 1..r)'
    BY <1>1, <1>2 DEF Answered, IsAnswer
  <2>3. AnsweredSoFar(c)'
    <3>1. read'[c] - 1 = r /\ read'[c] >= 1 /\ sent'[c][read'[c]] = line
      BY <1>1
    <3>. QED BY <1>1, <1>4, <2>1, <2>2, <3>1 DEF AnsweredSoFar
  <2>4. LastIsWritten(c)' /\ ScanIsNews(c)' /\ Newsworthy(c)'
    BY <1>1, <1>2, <2>1 DEF Good, LastIsWritten, ScanIsNews, Newsworthy, Asking, IsAnswer
  <2>. QED BY <2>3, <2>4 DEF Good
<1>5. CASE After(line) = "reading" /\ ~Owed(line)
  <2>1. Answered(c, 1..(r + 1))'
    <3>1. 1..(r + 1) = 1..r \cup {r + 1}
      OBVIOUS
    <3>. QED BY <1>1, <1>2, <1>5, <3>1 DEF Answered, IsAnswer
  <2>2. AnsweredSoFar(c)'
    BY <1>1, <1>5, <2>1 DEF AnsweredSoFar
  <2>3. LastIsWritten(c)' /\ ScanIsNews(c)' /\ Newsworthy(c)'
    BY <1>1, <1>2, <1>5 DEF Good, LastIsWritten, ScanIsNews, Newsworthy, Asking, IsAnswer
  <2>. QED BY <2>2, <2>3 DEF Good
<1>6. Owed(line) \/ (After(line) \in {"scanning", "ending", "reading"} /\ ~Owed(line))
  <2>1. CASE line = "subscribe"
    BY <2>1 DEF After, Owed
  <2>2. CASE line = "binary"
    BY <2>2 DEF After, Owed
  <2>3. CASE ~Owed(line) /\ line # "subscribe" /\ line # "binary"
    BY <2>3 DEF After
  <2>. QED BY <2>1, <2>2, <2>3
<1>. QED BY <1>3, <1>4, <1>5, <1>6

\* The answer goes behind the answers already written.
LEMMA AnswerGood == ASSUME SInv, NEW c \in Clients, AnswerLine(c) PROVE Good(c)'
<1>. DEFINE n == Len(written[c])
            r == read[c]
<1>1. /\ pc[c] = "answering" /\ pc'[c] = "reading"
      /\ written'[c] = Append(written[c], Answer(r))
      /\ UNCHANGED <<past, sent, read, scan, last>>
  BY DEF AnswerLine, SInv, Typed, IInv, Places, Goto, worldVars, clientVars, streamVars
<1>2. /\ Good(c) /\ r \in Nat /\ r >= 1 /\ Answered(c, 1..(r - 1)) /\ Owed(sent[c][r])
      /\ last[c] = NoList /\ \A i \in DOMAIN written[c] : IsAnswer(c, i)
  BY <1>1 DEF SInv, Typed, Good, AnsweredSoFar, LastIsWritten, Asking
<1>3. Answer(r) \in Messages /\ Answer(r).kind = "answer" /\ Answer(r).of = r
  BY <1>2 DEF Answer, Messages
<1>4. /\ n \in Nat /\ DOMAIN written[c] = 1..n /\ DOMAIN written'[c] = 1..(n + 1)
      /\ \A i \in 1..n : written'[c][i] = written[c][i]
      /\ written'[c][n + 1] = Answer(r)
  <2>1. written[c] \in Seq(Messages)
    BY DEF SInv, Typed
  <2>. QED BY <1>1, <1>3, <2>1, AppendLonger
<1>5. \A i \in 1..(n + 1) : i \in 1..n \/ i = n + 1
  BY <1>4
<1>6. \A i \in 1..n : IsAnswer(c, i) /\ written[c][i].of \in 1..(r - 1) /\ Owed(sent[c][written[c][i].of])
  BY <1>2, <1>4 DEF Answered
<1>7. \A i \in 1..(n + 1) : IsAnswer(c, i)'
  BY <1>3, <1>4, <1>5, <1>6 DEF IsAnswer
<1>8. Answered(c, 1..r)'
  <2>1. ASSUME NEW i \in 1..(n + 1)
        PROVE  written'[c][i].of \in 1..r /\ Owed(sent'[c][written'[c][i].of])
    <3>1. CASE i \in 1..n
      BY <1>1, <1>2, <1>4, <1>6, <3>1
    <3>2. CASE i = n + 1
      BY <1>1, <1>2, <1>3, <1>4, <3>2
    <3>. QED BY <1>5, <3>1, <3>2
  <2>2. \A i, j \in 1..(n + 1) : i < j => written'[c][i].of < written'[c][j].of
    <3>. SUFFICES ASSUME NEW i \in 1..(n + 1), NEW j \in 1..(n + 1), i < j
                  PROVE  written'[c][i].of < written'[c][j].of
      OBVIOUS
    <3>1. i \in 1..n
      BY <1>4
    <3>2. CASE j \in 1..n
      BY <1>2, <1>4, <1>6, <3>1, <3>2 DEF Answered
    <3>3. CASE j = n + 1
      <4>1. written'[c][j].of = r
        BY <1>3, <1>4, <3>3
      <4>2. written'[c][i].of \in 1..(r - 1)
        BY <1>4, <1>6, <3>1
      <4>. QED BY <1>2, <4>1, <4>2
    <3>. QED BY <1>5, <3>2, <3>3
  <2>3. ASSUME NEW k \in 1..r, Owed(sent[c][k])
        PROVE  \E i \in 1..(n + 1) : written'[c][i] = Answer(k)
    <3>1. CASE k = r
      BY <1>4, <3>1
    <3>2. CASE k # r
      <4>1. k \in 1..(r - 1)
        BY <1>2, <3>2
      <4>2. PICK i \in 1..n : written[c][i] = Answer(k)
        BY <1>2, <1>4, <2>3, <4>1 DEF Answered
      <4>. QED BY <1>4, <4>2
    <3>. QED BY <3>1, <3>2
  <2>. QED BY <1>1, <1>4, <2>1, <2>2, <2>3 DEF Answered
<1>. QED BY <1>1, <1>2, <1>4, <1>7, <1>8
         DEF Good, AnsweredSoFar, LastIsWritten, ScanIsNews, Newsworthy, Asking

\* A scan is handed on only when it is news.
LEMMA ScanGood == ASSUME SInv, NEW c \in Clients, ScanOk(c) PROVE Good(c)'
<1>1. /\ pc[c] = "scanning" /\ world \in past /\ Good(c)
      /\ UNCHANGED <<past, sent, read, written, last>>
  BY DEF ScanOk, SInv, worldVars, clientVars
<1>2. CASE last[c] = NoList \/ Differ(last[c], world)
  <2>1. pc'[c] = "pushing" /\ scan'[c] = world
    BY <1>2 DEF ScanOk, SInv, Typed, IInv, Places, Goto
  <2>2. AnsweredSoFar(c)' /\ ScanIsNews(c)'
    BY <1>1, <1>2, <2>1 DEF AnsweredSoFar, ScanIsNews, Differ
  <2>. QED BY <1>1, <2>1, <2>2 DEF Good, LastIsWritten, Newsworthy, Asking, IsAnswer
<1>3. CASE ~(last[c] = NoList \/ Differ(last[c], world))
  <2>1. pc'[c] \in {"ending", "waiting"}
    BY <1>3 DEF ScanOk, SInv, IInv, Places, Goto, PollAgain
  <2>. QED BY <1>1, <2>1, Leaves
<1>. QED BY <1>2, <1>3

\* What is pushed follows answers, or a push it differs from.
LEMMA PushGood == ASSUME SInv, NEW c \in Clients, PushList(c) PROVE Good(c)'
<1>. DEFINE n == Len(written[c])
            m == Push(scan[c])
<1>1. /\ pc[c] = "pushing" /\ pc'[c] \in {"ending", "waiting"}
      /\ written'[c] = Append(written[c], m)
      /\ last'[c] = scan[c]
      /\ UNCHANGED <<past, sent, read>>
  BY DEF PushList, SInv, Typed, IInv, Places, Goto, PollAgain, worldVars, clientVars
<1>2. /\ Good(c) /\ scan[c] \in past /\ scan[c] \in Lists
      /\ last[c] # NoList => Differ(last[c], scan[c])
  BY <1>1 DEF SInv, Typed, Good, ScanIsNews
<1>3. m \in Messages /\ m.kind = "push" /\ m.of = scan[c] /\ scan[c] # NoList
  BY <1>2, ListAssumption DEF Push, Messages, Lists
<1>4. /\ n \in Nat /\ DOMAIN written[c] = 1..n /\ DOMAIN written'[c] = 1..(n + 1)
      /\ \A i \in 1..n : written'[c][i] = written[c][i]
      /\ written'[c][n + 1] = m /\ Len(written'[c]) = n + 1
      /\ written[c] # <<>> => n >= 1
  <2>1. written[c] \in Seq(Messages)
    BY DEF SInv, Typed
  <2>. QED BY <1>1, <1>3, <2>1, AppendLonger
<1>5. LastIsWritten(c)'
  <2>1. last'[c] # NoList /\ written'[c] # <<>> /\ ~Asking(c)'
    BY <1>1, <1>3, <1>4 DEF Asking
  <2>. QED BY <1>1, <1>4, <2>1 DEF LastIsWritten
<1>6. Newsworthy(c)'
  <2>1. SUFFICES ASSUME NEW i \in 1..(n + 1), ~IsAnswer(c, i)'
                 PROVE  /\ written'[c][i].of \in past
                        /\ i < n + 1 => /\ ~IsAnswer(c, i + 1)'
                                        /\ Differ(written'[c][i].of, written'[c][i + 1].of)
    BY <1>1, <1>4 DEF Newsworthy, Differ, IsAnswer
  <2>2. CASE i = n + 1
    BY <1>2, <1>3, <1>4, <2>2
  <2>3. CASE i \in 1..n
    <3>1. ~IsAnswer(c, i) /\ written'[c][i] = written[c][i]
      BY <1>4, <2>1, <2>3 DEF IsAnswer
    <3>2. /\ written[c][i].of \in past
          /\ i < n => ~IsAnswer(c, i + 1) /\ Differ(written[c][i].of, written[c][i + 1].of)
      BY <1>2, <1>4, <2>3, <3>1 DEF Good, Newsworthy
    <3>3. CASE i < n
      <4>1. i + 1 \in 1..n
        BY <1>4, <2>3, <3>3
      <4>. QED BY <1>4, <3>1, <3>2, <3>3, <4>1 DEF IsAnswer
    <3>4. CASE i = n
      <4>1. last[c] # NoList /\ written[c][n] = Push(last[c])
        BY <1>2, <1>4, <2>3, <3>1, <3>4 DEF Good, LastIsWritten
      <4>2. written[c][n].of = last[c]
        BY <4>1 DEF Push
      <4>. QED BY <1>2, <1>3, <1>4, <3>1, <3>2, <3>4, <4>1, <4>2 DEF IsAnswer
    <3>. QED BY <1>4, <2>3, <3>3, <3>4
  <2>. QED BY <1>4, <2>2, <2>3
<1>7. AnsweredSoFar(c)' /\ ScanIsNews(c)'
  BY <1>1 DEF AnsweredSoFar, ScanIsNews
<1>. QED BY <1>5, <1>6, <1>7 DEF Good

\* A thread's step, for its own client.
LEMMA ThreadGood ==
  ASSUME SInv, NEW c \in Clients,
         \/ Thread(c) \/ ReadPart(c) \/ Deadline(c) \/ Panic(c) \/ ScanOk(c) \/ ScanFails(c)
  PROVE  Good(c)'
<1>1. CASE ReadPart(c)
  <2>1. UNCHANGED <<past, sent, read, written, scan, last>>
    BY <1>1 DEF ReadPart, worldVars, streamVars
  <2>2. CASE UNCHANGED pc
    <3>1. past \subseteq past' /\ Kept(c)
      BY <2>1 DEF Kept
    <3>. QED BY <2>1, <2>2, <3>1, Untouched
  <2>3. CASE Goto(c, "ending")
    BY <2>1, <2>3, Leaves DEF Goto, SInv, IInv, Places
  <2>. QED BY <1>1, <2>2, <2>3 DEF ReadPart
<1>2. CASE ReadEnd(c) \/ WriteFails(c) \/ Deadline(c) \/ Panic(c) \/ Tick(c) \/ DropGuard(c) \/ ScanFails(c)
  <2>1. UNCHANGED <<past, written, last>>
    BY <1>2 DEF ReadEnd, WriteFails, Deadline, Panic, Tick, DropGuard, ScanFails, worldVars, streamVars
  <2>2. pc'[c] \in {"scanning", "waiting", "ending", "ended"}
    BY <1>2 DEF ReadEnd, WriteFails, Deadline, Panic, Tick, DropGuard, ScanFails, Goto, PollAgain,
                SInv, IInv, Places
  <2>. QED BY <2>1, <2>2, Leaves
<1>. QED BY <1>1, <1>2, ReadGood, AnswerGood, PushGood, ScanGood DEF Thread

\* No thread touches what another one's client is written.
LEMMA OthersKept ==
  ASSUME SInv, NEW c \in Clients, NEW d \in Clients, d # c,
         \/ Thread(c) \/ ReadPart(c) \/ Deadline(c) \/ Panic(c) \/ ScanOk(c) \/ ScanFails(c)
  PROVE  Good(d)'
<1>1. UNCHANGED <<past, sent>>
  BY DEF Thread, ReadLine, ReadEnd, AnswerLine, WriteFails, PushList, Tick, DropGuard, ReadPart,
         Deadline, Panic, ScanOk, ScanFails, worldVars, clientVars
<1>2. UNCHANGED <<pc[d], read[d], written[d], scan[d], last[d]>>
  BY DEF Thread, ReadLine, ReadEnd, AnswerLine, WriteFails, PushList, Tick, DropGuard, ReadPart,
         Deadline, Panic, ScanOk, ScanFails, Goto, streamVars, SInv, IInv, Places, Typed
<1>3. past \subseteq past' /\ Kept(d)
  BY <1>1 DEF Kept
<1>. QED BY <1>2, <1>3, Untouched

\* The clients, the repository and the accept loop write nothing.
LEMMA RestKept ==
  ASSUME SInv, NEW d \in Clients,
         \/ Shutdown \/ Refuse \/ Stop \/ UNCHANGED vars
         \/ \E l \in Lists : Change(l)
         \/ \E c \in Clients : Client(c) \/ Accept(c)
  PROVE  Good(d)'
<1>1. past \subseteq past' /\ UNCHANGED <<read, written, scan, last>>
  BY DEF Shutdown, Refuse, Stop, Change, Client, Connect, Dribble, Take, Hangup, Send, Accept,
         vars, worldVars, streamVars
<1>2. Kept(d)
  <2>1. CASE UNCHANGED sent
    BY <2>1 DEF Kept
  <2>2. ASSUME NEW c \in Clients, NEW line \in Lines, Send(c, line) PROVE Kept(d)
    <3>1. sent[d] \in Seq(Lines) /\ (d = c => sent'[d] = Append(sent[d], line))
          /\ (d # c => sent'[d] = sent[d])
      BY <2>2 DEF Send, SInv, Typed
    <3>. QED BY <3>1, AppendLonger DEF Kept
  <2>. QED BY <2>1, <2>2 DEF Shutdown, Refuse, Stop, Change, Client, Connect, Dribble, Take, Hangup,
                             Accept, vars, clientVars
<1>3. CASE pc'[d] = "ended" /\ UNCHANGED past
  BY <1>1, <1>3, Leaves
<1>4. CASE pc'[d] = pc[d] \/ {pc[d], pc'[d]} \subseteq {"out", "backlog", "reading"}
  BY <1>1, <1>2, <1>4, Untouched
<1>5. CASE Refuse \/ Stop
  <2>1. UNCHANGED past
    BY <1>5 DEF Refuse, Stop, worldVars
  <2>2. pc'[d] = "ended" \/ pc'[d] = pc[d]
    BY <1>5 DEF Refuse, Stop, SInv, IInv, Places
  <2>. QED BY <1>3, <1>4, <2>1, <2>2
<1>6. ASSUME NEW c \in Clients, Client(c) \/ Accept(c) PROVE Good(d)'
  <2>1. pc'[d] = pc[d] \/ {pc[d], pc'[d]} \subseteq {"out", "backlog", "reading"}
    BY <1>6 DEF Client, Connect, Dribble, Take, Hangup, Send, Accept, SInv, IInv, Places
  <2>. QED BY <1>4, <2>1
<1>7. CASE Shutdown \/ UNCHANGED vars \/ \E l \in Lists : Change(l)
  <2>1. UNCHANGED pc
    BY <1>7 DEF Shutdown, Change, vars
  <2>. QED BY <1>4, <2>1
<1>. QED BY <1>5, <1>6, <1>7

LEMMA StepStreams == SInv /\ [Next]_vars => SInv'
<1>. SUFFICES ASSUME SInv, [Next]_vars PROVE SInv'
  OBVIOUS
<1>1. IInv' /\ Typed'
  BY StepCounts, StepTypes DEF SInv
<1>2. world' \in past'
  <2>1. UNCHANGED worldVars \/ \E l \in Lists : Change(l)
    BY DEF Next, vars, Shutdown, Refuse, Stop, Client, Connect, Dribble, Take, Hangup, Send, Accept,
           Thread, ReadLine, ReadEnd, AnswerLine, WriteFails, PushList, Tick, DropGuard, ReadPart,
           Deadline, Panic, ScanOk, ScanFails
  <2>. QED BY <2>1 DEF SInv, worldVars, Change
<1>3. ASSUME NEW d \in Clients PROVE Good(d)'
  <2>1. ASSUME NEW c \in Clients,
               \/ Thread(c) \/ ReadPart(c) \/ Deadline(c) \/ Panic(c) \/ ScanOk(c) \/ ScanFails(c)
        PROVE  Good(d)'
    BY <2>1, ThreadGood, OthersKept
  <2>. QED BY <2>1, RestKept DEF Next
<1>. QED BY <1>1, <1>2, <1>3 DEF SInv

\* Whatever its clients send, take or break off, and however often scans fail,
\* the daemon answers what it owes once and in order, and after the first push
\* writes only lists that were real and are news (handle_connection,
\* handle_line, stream_subscription, next_subscription_push).
THEOREM StreamsSafe == Spec => []StreamInv
BY InitStreams, StepStreams, StreamHolds, PTL DEF Spec
=============================================================================
