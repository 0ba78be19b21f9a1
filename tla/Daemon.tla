------------------------------- MODULE Daemon -------------------------------
(* One running `gwm daemon` on unix (src/src/daemon.rs): the accept loop, the
   slots it hands out, and one thread per connection, which answers request
   lines until a `subscribe` turns it into a stream of worktrees.changed.

   A worktree list is a record of its rows (the fields worktrees_differ
   compares) and its notes (the one it does not).  A request line is its kind.
   What a connection wrote stays in written, so that the number of lines its
   client has taken gives what fills the socket.                           *)
EXTENDS Naturals, Sequences, FiniteSets

CONSTANTS
  Clients,         \* connections, each made once
  Nobody,          \* no connection
  Readers,         \* the clients that keep reading what they are sent
  MaxConnections,  \* ServeOptions::max_connections
  Lines,           \* the kinds of lines clients send
  Rows, Notes,     \* what a worktree list can say
  NoList,          \* no list: before the first snapshot
  Talkers,         \* the clients that send lines; the others only take up room
  MaxSends,        \* bound: complete lines each of them sends
  MaxChanges,      \* bound: changes of the repository
  OutCap           \* lines a socket holds for a client that does not read

ASSUME CapAssumption == MaxConnections \in Nat
ASSUME ClientsAssumption == IsFiniteSet(Clients) /\ Nobody \notin Clients
ASSUME ChangesAssumption == MaxChanges \in Nat
ASSUME ListAssumption == NoList \notin [rows : Rows, notes : Notes]

VARIABLES
  world,     \* the worktree list a scan finds
  past,      \* every list the repository ever had
  changes,   \* how often it changed
  shutdown,  \* the flag serve and its threads share
  up,        \* the accept loop runs
  active,    \* the counter of ActiveGuard
  refusing,  \* the connection counted past the cap and not yet uncounted
  pc,        \* where each connection is
  closed,    \* the client has closed its end
  sent,      \* the complete lines each client sent
  read,      \* how many of them were read as requests
  dribble,   \* bytes of an unfinished line wait after them
  written,   \* the lines written to each client
  taken,     \* how many of them the client has read
  scan,      \* the list a thread is about to push
  last       \* the list it pushed last

worldVars == <<world, past, changes>>
acceptVars == <<shutdown, up, refusing>>
clientVars == <<closed, sent, dribble, taken>>
streamVars == <<scan, last>>
vars == <<worldVars, acceptVars, active, pc, clientVars, read, written, streamVars>>

Lists == [rows : Rows, notes : Notes]

\* The threads that hold a slot: an ActiveGuard lives as long as its thread.
Working == {"reading", "answering", "scanning", "pushing", "waiting", "ending"}
Served == {c \in Clients : pc[c] \in Working}
Streaming(c) == pc[c] \in {"scanning", "pushing", "waiting"}

Answer(i) == [kind |-> "answer", of |-> i]
Push(l) == [kind |-> "push", of |-> l]
Messages == [kind : {"answer"}, of : Nat] \cup [kind : {"push"}, of : Lists]

\* The lines to which handle_line owes an answer: not a notification, which
\* has no id, and not a blank.
Owed(line) == line \in {"list", "junk"}

-----------------------------------------------------------------------------
TypeOK ==
  /\ world \in Lists /\ past \in SUBSET Lists /\ changes \in 0..MaxChanges
  /\ shutdown \in BOOLEAN /\ up \in BOOLEAN
  /\ active \in Nat
  /\ refusing \in Clients \cup {Nobody}
  /\ pc \in [Clients -> Working \cup {"out", "backlog", "ended"}]
  /\ closed \in [Clients -> BOOLEAN]
  /\ sent \in [Clients -> Seq(Lines)] /\ written \in [Clients -> Seq(Messages)]
  /\ read \in [Clients -> Nat] /\ \A c \in Clients : read[c] <= Len(sent[c])
  /\ taken \in [Clients -> Nat] /\ \A c \in Clients : taken[c] <= Len(written[c])
  /\ scan \in [Clients -> Lists \cup {NoList}] /\ last \in [Clients -> Lists \cup {NoList}]
  /\ dribble \in [Clients -> BOOLEAN]

Init ==
  /\ world \in Lists /\ past = {world} /\ changes = 0
  /\ shutdown = FALSE /\ up = TRUE
  /\ active = 0
  /\ refusing = Nobody
  /\ pc = [c \in Clients |-> "out"]
  /\ closed = [c \in Clients |-> FALSE]
  /\ sent = [c \in Clients |-> <<>>]
  /\ read = [c \in Clients |-> 0]
  /\ dribble = [c \in Clients |-> FALSE]
  /\ written = [c \in Clients |-> <<>>]
  /\ taken = [c \in Clients |-> 0]
  /\ scan = [c \in Clients |-> NoList]
  /\ last = [c \in Clients |-> NoList]

-----------------------------------------------------------------------------
\* The clients and the repository.

Connected(c) == pc[c] # "out" /\ ~closed[c]

Connect(c) ==
  /\ up /\ pc[c] = "out"
  /\ pc' = [pc EXCEPT ![c] = "backlog"]
  /\ UNCHANGED <<worldVars, acceptVars, active, clientVars, read, written, streamVars>>

Send(c, line) ==
  /\ c \in Talkers /\ Connected(c) /\ Len(sent[c]) < MaxSends
  /\ sent' = [sent EXCEPT ![c] = Append(@, line)]
  /\ dribble' = [dribble EXCEPT ![c] = FALSE]
  /\ UNCHANGED <<worldVars, acceptVars, active, pc, closed, read, written, taken, streamVars>>

\* Some bytes of a line, without its end: any number of times.
Dribble(c) ==
  /\ Connected(c) /\ ~dribble[c]
  /\ dribble' = [dribble EXCEPT ![c] = TRUE]
  /\ UNCHANGED <<worldVars, acceptVars, active, pc, closed, sent, read, written, taken, streamVars>>

Take(c) ==
  /\ ~closed[c] /\ taken[c] < Len(written[c])
  /\ taken' = [taken EXCEPT ![c] = @ + 1]
  /\ UNCHANGED <<worldVars, acceptVars, active, pc, closed, sent, dribble, read, written, streamVars>>

Hangup(c) ==
  /\ Connected(c)
  /\ closed' = [closed EXCEPT ![c] = TRUE]
  /\ UNCHANGED <<worldVars, acceptVars, active, pc, sent, dribble, taken, read, written, streamVars>>

Change(l) ==
  /\ changes < MaxChanges /\ l # world
  /\ world' = l /\ past' = past \cup {l} /\ changes' = changes + 1
  /\ UNCHANGED <<acceptVars, active, pc, clientVars, read, written, streamVars>>

Shutdown ==
  /\ shutdown' = TRUE
  /\ UNCHANGED <<worldVars, up, refusing, active, pc, clientVars, read, written, streamVars>>

-----------------------------------------------------------------------------
\* The accept loop.

\* Slip: the last slot is never given.
HasSlotStrict == active + 1 < MaxConnections

\* fetch_add, and the comparison with what it returned.
HasSlot == active + 1 <= MaxConnections

Accept(c) ==
  /\ up /\ ~shutdown /\ refusing = Nobody /\ pc[c] = "backlog"
  /\ active' = active + 1
  /\ IF HasSlot
       THEN pc' = [pc EXCEPT ![c] = "reading"] /\ UNCHANGED refusing
       ELSE refusing' = c /\ UNCHANGED pc
  /\ UNCHANGED <<worldVars, shutdown, up, clientVars, read, written, streamVars>>

\* Past the cap: fetch_sub, and the stream is dropped.
Refuse ==
  /\ refusing # Nobody
  /\ active' = active - 1
  /\ pc' = [pc EXCEPT ![refusing] = "ended"]
  /\ refusing' = Nobody
  /\ UNCHANGED <<worldVars, shutdown, up, clientVars, read, written, streamVars>>

\* The loop sees the flag; the listener goes, and its backlog with it.
Stop ==
  /\ up /\ shutdown /\ refusing = Nobody
  /\ up' = FALSE
  /\ pc' = [c \in Clients |-> IF pc[c] = "backlog" THEN "ended" ELSE pc[c]]
  /\ UNCHANGED <<worldVars, shutdown, refusing, active, clientVars, read, written, streamVars>>

-----------------------------------------------------------------------------
\* A connection's thread.

Goto(c, place) == pc' = [pc EXCEPT ![c] = place]
Room(c) == Len(written[c]) - taken[c] < OutCap

\* Slip: a notification is answered.
AfterEcho(line) ==
  CASE Owed(line) \/ line = "notice" -> "answering"
    [] line = "subscribe" -> "scanning"
    [] line = "binary" -> "ending"
    [] OTHER -> "reading"

\* One whole line: answered, passed over, or the start of a stream.
After(line) ==
  CASE Owed(line) -> "answering"
    [] line = "subscribe" -> "scanning"
    [] line = "binary" -> "ending"
    [] OTHER -> "reading"

ReadLine(c) ==
  /\ pc[c] = "reading" /\ read[c] < Len(sent[c])
  /\ read' = [read EXCEPT ![c] = @ + 1]
  /\ Goto(c, After(sent[c][read[c] + 1]))
  /\ UNCHANGED <<worldVars, acceptVars, active, clientVars, written, streamVars>>

\* An unfinished line: buffered, or past max_line_len.
ReadPart(c) ==
  /\ pc[c] = "reading" /\ read[c] = Len(sent[c]) /\ dribble[c]
  /\ dribble' = [dribble EXCEPT ![c] = FALSE]
  /\ \/ UNCHANGED pc
     \/ Goto(c, "ending")
  /\ UNCHANGED <<worldVars, acceptVars, active, closed, sent, taken, read, written, streamVars>>

\* Slip: only SO_RCVTIMEO, which every byte that arrives starts anew.
DeadlineSilent(c) ==
  /\ pc[c] = "reading" /\ read[c] = Len(sent[c]) /\ ~dribble[c]
  /\ Goto(c, "ending")
  /\ UNCHANGED <<worldVars, acceptVars, active, clientVars, read, written, streamVars>>

\* The line's whole budget has passed, whatever dribbled in meanwhile.
Deadline(c) ==
  /\ pc[c] = "reading" /\ read[c] = Len(sent[c])
  /\ Goto(c, "ending")
  /\ UNCHANGED <<worldVars, acceptVars, active, clientVars, read, written, streamVars>>

\* End of file, or a reset that loses what was not read yet.
ReadEnd(c) ==
  /\ pc[c] \in {"reading", "waiting"} /\ closed[c]
  /\ Goto(c, "ending")
  /\ UNCHANGED <<worldVars, acceptVars, active, clientVars, read, written, streamVars>>

\* handle_line and the write of its answer, which waits for room.
AnswerLine(c) ==
  /\ pc[c] = "answering" /\ ~closed[c] /\ Room(c)
  /\ written' = [written EXCEPT ![c] = Append(@, Answer(read[c]))]
  /\ Goto(c, "reading")
  /\ UNCHANGED <<worldVars, acceptVars, active, clientVars, read, streamVars>>

WriteFails(c) ==
  /\ pc[c] \in {"answering", "pushing"} /\ closed[c]
  /\ Goto(c, "ending")
  /\ UNCHANGED <<worldVars, acceptVars, active, clientVars, read, written, streamVars>>

\* worktrees_differ: the notes are not compared.
Differ(a, b) == a.rows # b.rows
\* The top of the stream's loop.
PollAgain == IF shutdown THEN "ending" ELSE "waiting"

\* Slip: what is seen is remembered before it is compared.
ScanOkRemembers(c) ==
  /\ pc[c] = "scanning"
  /\ last' = [last EXCEPT ![c] = world]
  /\ IF last[c] = NoList
       THEN scan' = [scan EXCEPT ![c] = world] /\ Goto(c, "pushing")
       ELSE UNCHANGED scan /\ Goto(c, PollAgain)
  /\ UNCHANGED <<worldVars, acceptVars, active, clientVars, read, written>>

\* run_list and next_subscription_push.
ScanOk(c) ==
  /\ pc[c] = "scanning"
  /\ IF last[c] = NoList \/ Differ(last[c], world)
       THEN scan' = [scan EXCEPT ![c] = world] /\ Goto(c, "pushing")
       ELSE UNCHANGED scan /\ Goto(c, PollAgain)
  /\ UNCHANGED <<worldVars, acceptVars, active, clientVars, read, written, last>>

\* Slip: unwrap_or_default, an error read as an empty list.
ScanFailsEmpty(c) ==
  /\ pc[c] = "scanning" /\ last[c] # NoList
  /\ scan' = [scan EXCEPT ![c] = NoList]
  /\ Goto(c, "pushing")
  /\ UNCHANGED <<worldVars, acceptVars, active, clientVars, read, written, last>>

\* run_list returned an error: the poll says nothing.
ScanFails(c) ==
  /\ pc[c] = "scanning"
  /\ Goto(c, PollAgain)
  /\ UNCHANGED <<worldVars, acceptVars, active, clientVars, read, written, streamVars>>

PushList(c) ==
  /\ pc[c] = "pushing" /\ ~closed[c] /\ Room(c)
  /\ written' = [written EXCEPT ![c] = Append(@, Push(scan[c]))]
  /\ last' = [last EXCEPT ![c] = scan[c]]
  /\ scan' = [scan EXCEPT ![c] = NoList]
  /\ Goto(c, PollAgain)
  /\ UNCHANGED <<worldVars, acceptVars, active, clientVars, read>>

\* The read that waits for poll times out, or returns what the client says.
Tick(c) ==
  /\ pc[c] = "waiting" /\ ~closed[c]
  /\ Goto(c, "scanning")
  /\ UNCHANGED <<worldVars, acceptVars, active, clientVars, read, written, streamVars>>

\* Slip: the slot is given back at the end of the function, which a panic
\* does not reach.
PanicLeaks(c) ==
  /\ pc[c] \in {"answering", "scanning"}
  /\ Goto(c, "ended")
  /\ UNCHANGED <<worldVars, acceptVars, active, clientVars, read, written, streamVars>>

\* A panic in the code that builds an answer or a list unwinds the thread.
Panic(c) ==
  /\ pc[c] \in {"answering", "scanning"}
  /\ Goto(c, "ending")
  /\ UNCHANGED <<worldVars, acceptVars, active, clientVars, read, written, streamVars>>

\* The thread ends and drops its guard.
DropGuard(c) ==
  /\ pc[c] = "ending"
  /\ active' = active - 1
  /\ Goto(c, "ended")
  /\ UNCHANGED <<worldVars, acceptVars, clientVars, read, written, streamVars>>

Thread(c) ==
  \/ ReadLine(c) \/ ReadEnd(c) \/ AnswerLine(c) \/ WriteFails(c)
  \/ PushList(c) \/ Tick(c) \/ DropGuard(c)

Client(c) ==
  Connect(c) \/ Dribble(c) \/ Take(c) \/ Hangup(c) \/ \E line \in Lines : Send(c, line)

Next ==
  \/ Shutdown \/ Refuse \/ Stop
  \/ \E l \in Lists : Change(l)
  \/ \E c \in Clients : \/ Client(c) \/ Accept(c) \/ Thread(c)
                        \/ ReadPart(c) \/ Deadline(c) \/ Panic(c)
                        \/ ScanOk(c) \/ ScanFails(c)

Spec == Init /\ [][Next]_vars

\* Threads run, budgets run out, a scan that keeps being tried succeeds now and
\* then, and the readers read.  No client has to do anything else.
Fairness ==
  /\ WF_vars(Refuse) /\ WF_vars(Stop)
  /\ \A c \in Clients : /\ WF_vars(Accept(c)) /\ WF_vars(Thread(c))
                        /\ WF_vars(ReadPart(c)) /\ WF_vars(Deadline(c))
                        /\ WF_vars(ScanOk(c) \/ ScanFails(c)) /\ SF_vars(ScanOk(c))
  /\ \A c \in Readers : WF_vars(Take(c))

FairSpec == Spec /\ Fairness

-----------------------------------------------------------------------------
\* The counter is the number of threads alive, and one more while a connection
\* past the cap is being turned away: a slot is given back exactly once however
\* a thread ends (ActiveGuard::try_acquire, its Drop, the accept loop).
SlotsCounted == active = Cardinality(Served) + (IF refusing = Nobody THEN 0 ELSE 1)

\* There are never more threads than max_connections, although every accept
\* counts first and asks afterwards.
CapHolds == Cardinality(Served) <= MaxConnections

\* A slot is neither leaked nor handed out twice, so the cap is exact
\* (ActiveGuard in serve).
SlotsInv == SlotsCounted /\ CapHolds

\* Nobody is turned away while a slot is free.
RefusedOnlyWhenFull ==
  [][refusing' \notin {refusing, Nobody} => Cardinality(Served) = MaxConnections]_vars

\* The answers a client gets are those it is owed, in the order it asked, one
\* each: nothing for a notification or a blank line, nothing twice, none passed
\* over while its connection lives (handle_connection, handle_line).
IsAnswer(c, i) == written[c][i].kind = "answer"
Answered(c, requests) ==
  /\ \A i \in DOMAIN written[c] : IsAnswer(c, i) =>
        written[c][i].of \in requests /\ Owed(sent[c][written[c][i].of])
  /\ \A i, j \in DOMAIN written[c] : i < j /\ IsAnswer(c, i) /\ IsAnswer(c, j) =>
        written[c][i].of < written[c][j].of
  /\ \A k \in requests : Owed(sent[c][k]) =>
        \E i \in DOMAIN written[c] : written[c][i] = Answer(k)
AnswersInOrder ==
  \A c \in Clients :
    /\ pc[c] = "reading" => Answered(c, 1..read[c])
    /\ pc[c] = "answering" => Answered(c, 1..(read[c] - 1)) /\ Owed(sent[c][read[c]])

\* The sockets and threads are well typed, and requests get their answers in
\* order (handle_connection).
RequestsInv == TypeOK /\ AnswersInOrder

\* Nothing follows the first push but pushes, each a list the repository really
\* had (no phantom empty list for a scan that failed) and each other than the
\* one before it in something a subscriber is told of.
PushesAreNews ==
  \A c \in Clients : \A i \in DOMAIN written[c] : ~IsAnswer(c, i) =>
    /\ written[c][i].of \in past
    /\ i < Len(written[c]) =>
         ~IsAnswer(c, i + 1) /\ Differ(written[c][i].of, written[c][i + 1].of)

\* What a client is written, in its order: answers, then pushes that are news
\* (handle_connection, stream_subscription).
StreamInv == RequestsInv /\ PushesAreNews

\* A connection does not stay in the request loop for ever: a client that asks
\* nothing, or dribbles an endless line, loses its slot (read_request_line).
IdleReaped == \A c \in Clients : <>[](pc[c] # "reading")

\* A subscriber that reads is told of every state that lasts: what it has read
\* last is again and again the state of the repository, for as long as its
\* stream lives.
Told(c) == SelectSeq(SubSeq(written[c], 1, taken[c]), LAMBDA w : w.kind = "push")
Newest(c) == Told(c)[Len(Told(c))].of
UpToDate(c) == Told(c) # <<>> /\ ~Differ(Newest(c), world)
CatchesUp == \A c \in Readers : []<>(Streaming(c) => UpToDate(c))

\* Every client gets on: off its slot, or up to date (read_request_line,
\* next_subscription_push).
EveryClientGetsOn == IdleReaped /\ CatchesUp

\* What the comment on worktrees_differ says: every field but the age is
\* compared, so a subscriber learns of a changed note as well.
NotesCatchUp == \A c \in Readers : []<>(Streaming(c) => Told(c) # <<>> /\ Newest(c) = world)

\* What the comment in serve says: each connection thread observes the shared
\* flag and exits on its own.
ShutdownEndsThreads == shutdown ~> (Served = {})
=============================================================================
