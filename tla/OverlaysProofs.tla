----------------------------- MODULE OverlaysProofs -----------------------------
(***************************************************************************)
(* What holds of the TUI's views beside the list and of the task spine     *)
(* below them all.  Of the views of the forge, of the programs and of the  *)
(* notes: for any numbers of issues, pull requests, worktrees, programs    *)
(* and branches, and for texts of any length.  Of the task spine: for any  *)
(* kinds, groups and bounds, the type invariant, the inductive invariant   *)
(* IInv behind the two claims on runs, and the implementation of           *)
(* FreshView, from which NeverStale follows.                               *)
(***************************************************************************)
EXTENDS Overlays, AsyncTasks, FiniteSetTheorems, SequenceTheorems, TLAPS

-----------------------------------------------------------------------------
(* The task spine. *)

\* What each TaskRunner method returns is a runner.
LEMMA RunnerMethodsType ==
    ASSUME NEW r \in Runner, NEW k \in Kinds, NEW g \in Nat
    PROVE  /\ Requested(r, k) \in Runner
           /\ Invalidated(r, k) \in Runner
           /\ Completed(r, k, g) \in Runner
  BY DEF Runner, Requested, ClaimedGeneration, Invalidated, Completed

\* Invalidating a family of kinds returns a runner too, whatever the family.
LEMMA MatchingType ==
    ASSUME NEW r \in Runner, NEW K PROVE InvalidatedMatching(r, K) \in Runner
  BY DEF Runner, InvalidatedMatching

\* The state that Init describes is well typed.
LEMMA InitType == Init => TypeOK
  BY DEF Init, TypeOK, NewRunner, Runner, Worker, Message

\* No step leaves the types.
LEMMA NextType == TypeOK /\ [Next]_vars => TypeOK'
  <1> SUFFICES ASSUME TypeOK, [Next]_vars PROVE TypeOK'
    OBVIOUS
  <1> USE DEF TypeOK
  <1>1. CASE WorldMoves
    BY <1>1 DEF WorldMoves
  <1>2. ASSUME NEW k \in Kinds, Request(k) PROVE TypeOK'
    <2>1. runner' \in Runner
      BY <1>2, RunnerMethodsType DEF Request
    <2>2. ClaimedGeneration(runner, k) \in Nat
      BY DEF ClaimedGeneration, Runner
    <2>3. workers' \subseteq Worker
      BY <1>2, <2>2 DEF Request, Worker, Unread
    <2> QED
      BY <1>2, <2>1, <2>3 DEF Request
  <1>3. ASSUME NEW k \in Kinds, Invalidate(k) PROVE TypeOK'
    <2>1. runner' \in Runner
      BY <1>3, RunnerMethodsType DEF Invalidate
    <2> QED
      BY <1>3, <2>1 DEF Invalidate
  <1>4. ASSUME NEW w \in workers, WorkerReads(w) PROVE TypeOK'
    BY <1>4 DEF WorkerReads, Worker
  <1>5. ASSUME NEW w \in workers, WorkerSends(w) PROVE TypeOK'
    <2>1. w \in Message
      BY <1>5 DEF WorkerSends, Worker, Message
    <2> QED
      BY <1>5, <2>1 DEF WorkerSends
  <1>6. ASSUME NEW K \in Groups, InvalidateMatching(K) PROVE TypeOK'
    <2>1. runner' \in Runner
      BY <1>6, MatchingType DEF InvalidateMatching
    <2> QED
      BY <1>6, <2>1 DEF InvalidateMatching
  <1>7. CASE DrainResult
    <2> DEFINE m == Head(channel)
    <2>1. m \in Message /\ Tail(channel) \in Seq(Message)
      BY <1>7 DEF DrainResult
    <2>2. m.kind \in Kinds /\ m.generation \in Nat /\ m.asOf \in Nat
      BY <2>1 DEF Message
    <2>3. runner' \in Runner
      BY <1>7, <2>2, RunnerMethodsType DEF DrainResult
    <2> QED
      BY <1>7, <2>1, <2>2, <2>3 DEF DrainResult
  <1>8. CASE UNCHANGED vars
    BY <1>8 DEF vars
  <1> QED
    BY <1>1, <1>2, <1>3, <1>4, <1>5, <1>6, <1>7, <1>8 DEF Next

\* Type correctness of the spine: generations stay naturals, runs stay runs.
THEOREM TypeCorrect == Spec => []TypeOK
  BY InitType, NextType, PTL DEF Spec

-----------------------------------------------------------------------------
\* How a run's standing changes with the runner.  A claim that survives an
\* invalidation is that of another kind.
LEMMA ClaimsMove ==
    ASSUME NEW r \in Runner, NEW k \in Kinds, NEW j \in Kinds
    PROVE  /\ Requested(r, k).generation[j] = IF j = k THEN r.generation[j] + 1
                                                     ELSE r.generation[j]
           /\ Invalidated(r, k).generation[j] = IF j = k THEN r.generation[j] + 1
                                                       ELSE r.generation[j]
           /\ r.generation[j] \in Nat
           /\ Requested(r, k).running = r.running \cup {k}
           /\ Invalidated(r, k).running = r.running \ {k}
  BY DEF Runner, Requested, ClaimedGeneration, Invalidated

LEMMA CompletionMoves ==
    ASSUME NEW r \in Runner, NEW k, NEW g
    PROVE  /\ Completed(r, k, g).generation = r.generation
           /\ Completed(r, k, g).running =
                 IF g = r.generation[k] THEN r.running \ {k} ELSE r.running
  BY DEF Runner, Completed

LEMMA MatchingMoves ==
    ASSUME NEW r \in Runner, NEW K, NEW j \in Kinds
    PROVE  /\ InvalidatedMatching(r, K).generation[j] =
                 IF j \in K \cap r.running THEN r.generation[j] + 1 ELSE r.generation[j]
           /\ InvalidatedMatching(r, K).running = r.running \ K
           /\ r.generation[j] \in Nat
  BY DEF Runner, InvalidatedMatching

\* What a message carries.
LEMMA MessageFields ==
    ASSUME NEW c \in Seq(Message), NEW i \in 1 .. Len(c)
    PROVE  c[i].kind \in Kinds /\ c[i].generation \in Nat /\ c[i].asOf \in Nat
  <1>1. c[i] \in Message
    OBVIOUS
  <1> QED
    BY <1>1 DEF Message

\* Appending and dropping a message, index by index.
LEMMA ChannelMoves ==
    ASSUME NEW c \in Seq(Message), NEW m \in Message
    PROVE  /\ Len(Append(c, m)) = Len(c) + 1
           /\ \A i \in 1 .. Len(c) : Append(c, m)[i] = c[i] /\ c[i] \in Message
           /\ Append(c, m)[Len(c) + 1] = m
           /\ c # <<>> => /\ Head(c) = c[1]
                         /\ Len(c) >= 1
                         /\ Len(Tail(c)) = Len(c) - 1
                         /\ \A i \in 1 .. Len(Tail(c)) : Tail(c)[i] = c[i + 1]
  OBVIOUS

-----------------------------------------------------------------------------
\* Generations only grow, so a run claimed before it flew stays claimed.
LEMMA GenerationsGrow ==
    ASSUME TypeOK, [Next]_vars
    PROVE  \A j \in Kinds : /\ runner.generation[j] \in Nat
                            /\ runner'.generation[j] \in Nat
                            /\ runner'.generation[j] >= runner.generation[j]
  <1>r. runner \in Runner /\ runner' \in Runner
    BY NextType DEF TypeOK
  <1>0. \A j \in Kinds : runner.generation[j] \in Nat /\ runner'.generation[j] \in Nat
    BY <1>r DEF Runner
  <1> SUFFICES ASSUME NEW j \in Kinds
               PROVE  runner'.generation[j] >= runner.generation[j]
    BY <1>0
  <1>1. ASSUME NEW k \in Kinds, Request(k) \/ Invalidate(k)
        PROVE  runner'.generation[j] >= runner.generation[j]
    BY <1>1, <1>r, ClaimsMove DEF Request, Invalidate
  <1>2. ASSUME NEW K \in Groups, InvalidateMatching(K)
        PROVE  runner'.generation[j] >= runner.generation[j]
    BY <1>2, <1>r, MatchingMoves DEF InvalidateMatching
  <1>3. CASE DrainResult
    <2> DEFINE m == Head(channel)
    <2>1. runner' = Completed(runner, m.kind, m.generation)
      BY <1>3 DEF DrainResult
    <2>2. runner'.generation = runner.generation
      BY <2>1, <1>r DEF Completed, Runner
    <2> QED
      BY <2>2, <1>0
  <1>4. (WorldMoves \/ UNCHANGED vars
           \/ (\E w \in workers : WorkerReads(w) \/ WorkerSends(w)))
           => runner' = runner
    BY DEF WorldMoves, vars, WorkerReads, WorkerSends
  <1> QED
    BY <1>0, <1>1, <1>2, <1>3, <1>4 DEF Next

LEMMA ClaimedNext ==
    TypeOK /\ ClaimedBeforeFlight /\ [Next]_vars => ClaimedBeforeFlight'
  <1> SUFFICES ASSUME TypeOK, ClaimedBeforeFlight, [Next]_vars
               PROVE  ClaimedBeforeFlight'
    OBVIOUS
  <1> USE DEF TypeOK, ClaimedBeforeFlight
  <1>g. \A j \in Kinds : /\ runner.generation[j] \in Nat
                         /\ runner'.generation[j] \in Nat
                         /\ runner'.generation[j] >= runner.generation[j]
    BY GenerationsGrow
  <1>w. \A w \in workers : w.kind \in Kinds /\ w.generation \in Nat
    BY DEF Worker
  <1>c. \A i \in 1 .. Len(channel) :
           channel[i].kind \in Kinds /\ channel[i].generation \in Nat
    BY MessageFields
  <1>m. ASSUME NEW run, run.kind \in Kinds, run.generation \in Nat,
               run.generation <= runner.generation[run.kind]
        PROVE  run.generation <= runner'.generation[run.kind]
    BY <1>m, <1>g
  <1>1. CASE UNCHANGED <<workers, channel>>
    BY <1>1, <1>m, <1>w, <1>c
  <1>2. ASSUME NEW k \in Kinds, Request(k) PROVE ClaimedBeforeFlight'
    <2> DEFINE new == [kind |-> k, generation |-> ClaimedGeneration(runner, k), asOf |-> Unread]
    <2>1. new.generation = runner'.generation[new.kind]
      BY <1>2, ClaimsMove DEF Request, ClaimedGeneration
    <2>2. new.generation <= runner'.generation[new.kind]
      BY <2>1, <1>g
    <2>3. \A w \in workers : w.generation <= runner'.generation[w.kind]
      BY <1>m, <1>w
    <2>4. \A i \in 1 .. Len(channel) :
             channel[i].generation <= runner'.generation[channel[i].kind]
      BY <1>m, <1>c
    <2>5. workers' = workers \cup {new} /\ channel' = channel
      BY <1>2 DEF Request
    <2> HIDE DEF new
    <2> QED
      BY <2>2, <2>3, <2>4, <2>5
  <1>3. ASSUME NEW w \in workers, WorkerReads(w) PROVE ClaimedBeforeFlight'
    BY <1>3, <1>g, <1>w, <1>c DEF WorkerReads, Worker
  <1>4. ASSUME NEW w \in workers, WorkerSends(w) PROVE ClaimedBeforeFlight'
    <2>1. w \in Message
      BY <1>4 DEF WorkerSends, Worker, Message
    <2> QED
      BY <1>4, <2>1, ChannelMoves, <1>w, <1>c DEF WorkerSends
  <1>5. CASE DrainResult
    <2>1. \A i \in 1 .. Len(channel') : channel'[i] = channel[i + 1] /\ i + 1 \in 1 .. Len(channel)
      BY <1>5, ChannelMoves DEF DrainResult
    <2>2. workers' = workers
      BY <1>5 DEF DrainResult
    <2> QED
      BY <2>1, <2>2, <1>m, <1>w, <1>c
  <1> QED
    BY <1>1, <1>2, <1>3, <1>4, <1>5
    DEF Next, vars, WorldMoves, Invalidate, InvalidateMatching

LEMMA NotFromTheFutureNext ==
    TypeOK /\ NotFromTheFuture /\ [Next]_vars => NotFromTheFuture'
  <1> SUFFICES ASSUME TypeOK, NotFromTheFuture, [Next]_vars
               PROVE  NotFromTheFuture'
    OBVIOUS
  <1> USE DEF TypeOK, NotFromTheFuture
  <1>w. \A w \in workers : w.asOf \in Int
    BY DEF Worker, Unread
  <1>c. \A i \in 1 .. Len(channel) : channel[i].asOf \in Nat
    BY MessageFields
  <1>1. CASE WorldMoves
    BY <1>1, <1>w, <1>c DEF WorldMoves
  <1>2. ASSUME NEW k \in Kinds, Request(k) PROVE NotFromTheFuture'
    BY <1>2 DEF Request, Unread
  <1>3. ASSUME NEW k \in Kinds, Invalidate(k) PROVE NotFromTheFuture'
    BY <1>3 DEF Invalidate
  <1>4. ASSUME NEW w \in workers, WorkerReads(w) PROVE NotFromTheFuture'
    BY <1>4 DEF WorkerReads, Worker
  <1>5. ASSUME NEW w \in workers, WorkerSends(w) PROVE NotFromTheFuture'
    <2>1. w \in Message
      BY <1>5 DEF WorkerSends, Worker, Message
    <2> QED
      BY <1>5, <2>1, ChannelMoves DEF WorkerSends
  <1>6. ASSUME NEW K \in Groups, InvalidateMatching(K) PROVE NotFromTheFuture'
    BY <1>6 DEF InvalidateMatching
  <1>7. CASE DrainResult
    <2>1. \A i \in 1 .. Len(channel') : channel'[i] = channel[i + 1] /\ i + 1 \in 1 .. Len(channel)
      BY <1>7, ChannelMoves DEF DrainResult
    <2>2. Head(channel).asOf <= world /\ Head(channel).asOf \in Nat
      BY <1>7, <1>c, ChannelMoves DEF DrainResult
    <2> QED
      BY <1>7, <2>1, <2>2 DEF DrainResult
  <1>8. CASE UNCHANGED vars
    BY <1>8 DEF vars
  <1> QED
    BY <1>1, <1>2, <1>3, <1>4, <1>5, <1>6, <1>7, <1>8 DEF Next

-----------------------------------------------------------------------------
\* A run that may land after a step could already land before it, and neither
\* the floor nor the view of its kind moved under it: a step that changes
\* either one also ends every claim on that kind.
LEMMA StandingMoves ==
    ASSUME TypeOK, [Next]_vars,
           NEW j \in Kinds, NEW g \in Nat, g <= runner.generation[j],
           IsAuthoritative(runner', j, g)
    PROVE  /\ IsAuthoritative(runner, j, g)
           /\ floor'[j] = floor[j]
           /\ shown'[j] = shown[j]
  <1>r. runner \in Runner /\ floor \in [Kinds -> Nat] /\ shown \in [Kinds -> Nat]
    BY DEF TypeOK
  <1>n. runner.generation[j] \in Nat
    BY <1>r DEF Runner
  <1> USE DEF IsAuthoritative, IsLoading
  <1>1. ASSUME NEW k \in Kinds, Request(k)
        PROVE  /\ g = runner.generation[j] /\ j \in runner.running
               /\ floor' = floor /\ shown' = shown
    <2>1. runner' = Requested(runner, k) /\ floor' = floor /\ shown' = shown
      BY <1>1 DEF Request
    <2>2. /\ runner'.generation[j] = IF j = k THEN runner.generation[j] + 1
                                             ELSE runner.generation[j]
          /\ runner'.running = runner.running \cup {k}
      BY <2>1, <1>r, ClaimsMove
    <2> QED
      BY <2>1, <2>2, <1>n
  <1>2. ASSUME NEW k \in Kinds, Invalidate(k)
        PROVE  /\ g = runner.generation[j] /\ j \in runner.running
               /\ floor'[j] = floor[j] /\ shown' = shown
    <2>1. /\ runner' = Invalidated(runner, k) /\ shown' = shown
          /\ floor' = [floor EXCEPT ![k] = world]
      BY <1>2 DEF Invalidate
    <2>2. /\ runner'.generation[j] = IF j = k THEN runner.generation[j] + 1
                                             ELSE runner.generation[j]
          /\ runner'.running = runner.running \ {k}
      BY <2>1, <1>r, ClaimsMove
    <2> QED
      BY <2>1, <2>2, <1>r
  <1>3. ASSUME NEW K \in Groups, InvalidateMatching(K)
        PROVE  /\ g = runner.generation[j] /\ j \in runner.running
               /\ floor'[j] = floor[j] /\ shown' = shown
    <2>1. /\ runner' = InvalidatedMatching(runner, K) /\ shown' = shown
          /\ floor' = [k \in Kinds |-> IF k \in K THEN world ELSE floor[k]]
      BY <1>3 DEF InvalidateMatching
    <2>2. /\ runner'.generation[j] = IF j \in K \cap runner.running
                                       THEN runner.generation[j] + 1
                                       ELSE runner.generation[j]
          /\ runner'.running = runner.running \ K
      BY <2>1, <1>r, MatchingMoves
    <2> QED
      BY <2>1, <2>2, <1>r
  <1>4. CASE DrainResult
    <2> DEFINE m == Head(channel)
    <2>1. /\ runner' = Completed(runner, m.kind, m.generation)
          /\ shown' = IF IsAuthoritative(runner, m.kind, m.generation)
                        THEN [shown EXCEPT ![m.kind] = m.asOf] ELSE shown
          /\ floor' = floor
      BY <1>4 DEF DrainResult
    <2>2. /\ runner'.generation = runner.generation
          /\ runner'.running = IF m.generation = runner.generation[m.kind]
                                 THEN runner.running \ {m.kind} ELSE runner.running
      BY <2>1, <1>r DEF Completed, Runner
    <2>3. shown'[j] = shown[j]
      <3>1. CASE m.kind = j
        BY <3>1, <2>1, <2>2
      <3>2. CASE m.kind # j
        BY <3>2, <2>1, <1>r
      <3> QED
        BY <3>1, <3>2
    <2>4. runner'.running \subseteq runner.running
      BY <2>2
    <2> QED
      BY <2>1, <2>2, <2>3, <2>4
  <1>5. (WorldMoves \/ UNCHANGED vars
           \/ (\E w \in workers : WorkerReads(w) \/ WorkerSends(w)))
           => runner' = runner /\ floor' = floor /\ shown' = shown
    BY DEF WorldMoves, vars, WorkerReads, WorkerSends
  <1> QED
    BY <1>1, <1>2, <1>3, <1>4, <1>5 DEF Next

\* Where a run that exists after a step comes from: it was there before, it is
\* the run a request just claimed, or it is a worker that just read the world.
LEMMA RunsMove ==
    ASSUME TypeOK, [Next]_vars
    PROVE  /\ \A w \in workers' :
                 \/ w \in workers
                 \/ w.asOf = Unread
                 \/ \E v \in workers : w = [v EXCEPT !.asOf = world]
           /\ \A i \in 1 .. Len(channel') :
                 \/ \E h \in 1 .. Len(channel) : channel'[i] = channel[h]
                 \/ /\ channel'[i] \in workers
                    /\ channel'[i].asOf # Unread
  <1>c. channel \in Seq(Message)
    BY DEF TypeOK
  <1>1. ASSUME NEW k \in Kinds, Request(k)
        PROVE  channel' = channel
               /\ \A w \in workers' : w \in workers \/ w.asOf = Unread
    BY <1>1 DEF Request
  <1>2. ASSUME NEW v \in workers, WorkerReads(v)
        PROVE  channel' = channel
               /\ \A w \in workers' : w \in workers \/ w = [v EXCEPT !.asOf = world]
    BY <1>2 DEF WorkerReads
  <1>3. ASSUME NEW v \in workers, WorkerSends(v)
        PROVE  /\ \A w \in workers' : w \in workers
               /\ \A i \in 1 .. Len(channel') :
                     \/ \E h \in 1 .. Len(channel) : channel'[i] = channel[h]
                     \/ channel'[i] = v /\ v.asOf # Unread
    <2>0. v \in Worker /\ v.asOf # Unread
      BY <1>3 DEF WorkerSends, TypeOK
    <2>1. v \in Message
      BY <2>0 DEF Worker, Message
    <2>2. channel' = Append(channel, v) /\ workers' = workers \ {v}
      BY <1>3 DEF WorkerSends
    <2>3. Len(channel) \in Nat
      BY <1>c
    <2> QED
      BY <2>0, <2>1, <2>2, <2>3, <1>c, ChannelMoves
  <1>4. CASE DrainResult
    <2>1. /\ channel # <<>> /\ channel' = Tail(channel) /\ workers' = workers
      BY <1>4 DEF DrainResult
    <2>2. \A i \in 1 .. Len(channel') :
             channel'[i] = channel[i + 1] /\ i + 1 \in 1 .. Len(channel)
      BY <2>1, <1>c, ChannelMoves
    <2> QED
      BY <2>1, <2>2
  <1>5. (WorldMoves \/ UNCHANGED vars \/ (\E k \in Kinds : Invalidate(k))
           \/ (\E K \in Groups : InvalidateMatching(K)))
           => channel' = channel /\ workers' = workers
    BY DEF WorldMoves, vars, Invalidate, InvalidateMatching
  <1> QED
    BY <1>1, <1>2, <1>3, <1>4, <1>5 DEF Next

\* Whatever may still land is recent enough, step after step.
LEMMA FreshRunsNext ==
    TypeOK /\ ClaimedBeforeFlight /\ NotFromTheFuture /\ FreshRuns /\ [Next]_vars
        => FreshRuns'
  <1> SUFFICES ASSUME TypeOK, ClaimedBeforeFlight, NotFromTheFuture, FreshRuns,
                      [Next]_vars
               PROVE  FreshRuns'
    OBVIOUS
  <1>w. \A w \in workers : /\ w \in Worker
                           /\ w.kind \in Kinds /\ w.generation \in Nat
                           /\ w.generation <= runner.generation[w.kind]
    BY DEF TypeOK, ClaimedBeforeFlight, Worker
  <1>c. \A i \in 1 .. Len(channel) :
           /\ channel[i].kind \in Kinds /\ channel[i].generation \in Nat
           /\ channel[i].generation <= runner.generation[channel[i].kind]
    BY MessageFields DEF TypeOK, ClaimedBeforeFlight
  <1>f. \A j \in Kinds : world >= floor[j] /\ world >= shown[j]
    BY DEF NotFromTheFuture, TypeOK
  <1>1. ASSUME NEW w \in workers', IsAuthoritative(runner', w.kind, w.generation),
               w.asOf # Unread
        PROVE  w.asOf >= floor'[w.kind] /\ w.asOf >= shown'[w.kind]
    <2>1. CASE w \in workers
      BY <2>1, <1>1, <1>w, StandingMoves
      DEF FreshRuns, MayLand, LandsFresh
    <2>2. ASSUME NEW v \in workers, w = [v EXCEPT !.asOf = world]
          PROVE  w.asOf >= floor'[w.kind] /\ w.asOf >= shown'[w.kind]
      <3>1. w.kind = v.kind /\ w.generation = v.generation /\ w.asOf = world
        BY <2>2, <1>w DEF Worker
      <3> QED
        BY <3>1, <1>1, <1>w, <1>f, StandingMoves
    <2> QED
      BY <1>1, <2>1, <2>2, RunsMove
  <1>2. ASSUME NEW i \in 1 .. Len(channel'),
               IsAuthoritative(runner', channel'[i].kind, channel'[i].generation)
        PROVE  /\ channel'[i].asOf >= floor'[channel'[i].kind]
               /\ channel'[i].asOf >= shown'[channel'[i].kind]
    <2>1. ASSUME NEW h \in 1 .. Len(channel), channel'[i] = channel[h]
          PROVE  /\ channel'[i].asOf >= floor'[channel'[i].kind]
                 /\ channel'[i].asOf >= shown'[channel'[i].kind]
      BY <2>1, <1>2, <1>c, StandingMoves DEF FreshRuns, MayLand, LandsFresh
    <2>2. ASSUME channel'[i] \in workers, channel'[i].asOf # Unread
          PROVE  /\ channel'[i].asOf >= floor'[channel'[i].kind]
                 /\ channel'[i].asOf >= shown'[channel'[i].kind]
      BY <2>2, <1>2, <1>w, StandingMoves DEF FreshRuns, MayLand, LandsFresh
    <2> QED
      BY <2>1, <2>2, RunsMove
  <1> QED
    BY <1>1, <1>2 DEF FreshRuns, MayLand, LandsFresh

\* A claim is held by one run, step after step.
LEMMA OneRunPerClaimNext ==
    TypeOK /\ ClaimedBeforeFlight /\ OneRunPerClaim /\ [Next]_vars
        => OneRunPerClaim'
  <1> SUFFICES ASSUME TypeOK, ClaimedBeforeFlight, OneRunPerClaim, [Next]_vars
               PROVE  OneRunPerClaim'
    OBVIOUS
  <1>r. runner \in Runner /\ channel \in Seq(Message) /\ workers \subseteq Worker
    BY DEF TypeOK
  <1>w. \A w \in workers : /\ w.kind \in Kinds /\ w.generation \in Nat
                           /\ w.generation <= runner.generation[w.kind]
    BY DEF TypeOK, ClaimedBeforeFlight, Worker
  <1>c. \A i \in 1 .. Len(channel) :
           /\ channel[i].kind \in Kinds /\ channel[i].generation \in Nat
           /\ channel[i].generation <= runner.generation[channel[i].kind]
    BY <1>r, MessageFields DEF ClaimedBeforeFlight
  <1>l. Len(channel) \in Nat
    BY <1>r
  <1> USE DEF OneRunPerClaim
  <1>1. CASE UNCHANGED <<workers, channel>>
    BY <1>1
  <1>2. ASSUME NEW k \in Kinds, Request(k) PROVE OneRunPerClaim'
    <2> DEFINE new == [kind |-> k, generation |-> ClaimedGeneration(runner, k), asOf |-> Unread]
    <2>1. workers' = workers \cup {new} /\ channel' = channel
      BY <1>2 DEF Request
    <2>2. new.kind = k /\ new.generation = runner.generation[k] + 1
      BY DEF ClaimedGeneration
    <2>3. runner.generation[k] \in Nat
      BY <1>r DEF Runner
    <2> HIDE DEF new
    <2>4. \A w \in workers : w.kind = new.kind => w.generation # new.generation
      BY <2>2, <2>3, <1>w
    <2>5. \A i \in 1 .. Len(channel) :
             channel[i].kind = new.kind => channel[i].generation # new.generation
      BY <2>2, <2>3, <1>c
    <2> QED
      BY <2>1, <2>4, <2>5
  <1>3. ASSUME NEW v \in workers, WorkerReads(v) PROVE OneRunPerClaim'
    <2> DEFINE read == [v EXCEPT !.asOf = world]
    <2>1. workers' = (workers \ {v}) \cup {read} /\ channel' = channel
      BY <1>3 DEF WorkerReads
    <2>2. read.kind = v.kind /\ read.generation = v.generation
      BY <1>r DEF Worker
    <2> HIDE DEF read
    <2> QED
      BY <2>1, <2>2
  <1>4. ASSUME NEW v \in workers, WorkerSends(v) PROVE OneRunPerClaim'
    <2>0. v \in Worker /\ v.asOf # Unread
      BY <1>4, <1>r DEF WorkerSends
    <2>1. v \in Message
      BY <2>0 DEF Worker, Message
    <2>2. channel' = Append(channel, v) /\ workers' = workers \ {v}
      BY <1>4 DEF WorkerSends
    <2>3. /\ Len(channel') = Len(channel) + 1
          /\ \A i \in 1 .. Len(channel) : channel'[i] = channel[i]
          /\ channel'[Len(channel) + 1] = v
      BY <2>1, <2>2, <1>r, ChannelMoves
    <2>4. \A i \in 1 .. Len(channel') : i \in 1 .. Len(channel) \/ i = Len(channel) + 1
      BY <2>3, <1>l
    <2>5. \A i \in 1 .. Len(channel) :
             channel[i].kind = v.kind => channel[i].generation # v.generation
      OBVIOUS
    <2>6. \A i, j \in 1 .. Len(channel') :
             (i # j /\ channel'[i].kind = channel'[j].kind)
                => channel'[i].generation # channel'[j].generation
      <3> SUFFICES ASSUME NEW i \in 1 .. Len(channel'), NEW j \in 1 .. Len(channel'),
                          i # j, channel'[i].kind = channel'[j].kind
                   PROVE  channel'[i].generation # channel'[j].generation
        OBVIOUS
      <3>1. CASE i \in 1 .. Len(channel) /\ j \in 1 .. Len(channel)
        BY <3>1, <2>3
      <3>2. CASE i = Len(channel) + 1 /\ j \in 1 .. Len(channel)
        BY <3>2, <2>3, <2>5
      <3>3. CASE j = Len(channel) + 1 /\ i \in 1 .. Len(channel)
        BY <3>3, <2>3, <2>5
      <3> QED
        BY <3>1, <3>2, <3>3, <2>4
    <2>7. \A w \in workers' : \A i \in 1 .. Len(channel') :
             channel'[i].kind = w.kind => channel'[i].generation # w.generation
      <3> SUFFICES ASSUME NEW w \in workers', NEW i \in 1 .. Len(channel'),
                          channel'[i].kind = w.kind
                   PROVE  channel'[i].generation # w.generation
        OBVIOUS
      <3>1. w \in workers /\ w # v
        BY <2>2
      <3>2. CASE i \in 1 .. Len(channel)
        BY <3>1, <3>2, <2>3
      <3>3. CASE i = Len(channel) + 1
        BY <3>1, <3>3, <2>3
      <3> QED
        BY <3>2, <3>3, <2>4
    <2>8. \A u, w \in workers' :
             (u.kind = w.kind /\ u.generation = w.generation) => u = w
      BY <2>2
    <2> QED
      BY <2>6, <2>7, <2>8
  <1>5. CASE DrainResult
    <2>1. channel # <<>> /\ channel' = Tail(channel) /\ workers' = workers
      BY <1>5 DEF DrainResult
    <2>2. \A i \in 1 .. Len(channel') :
             /\ channel'[i] = channel[i + 1]
             /\ i + 1 \in 1 .. Len(channel)
             /\ i \in Int
      BY <2>1, <1>r, ChannelMoves
    <2> QED
      BY <2>1, <2>2
  <1> QED
    BY <1>1, <1>2, <1>3, <1>4, <1>5
    DEF Next, vars, WorldMoves, Invalidate, InvalidateMatching

\* A loader that spins has a run whose result will be accepted, step after
\* step: the run that holds the claim moves from thread to channel, and is
\* taken off the channel only by the step that stops the loader.
LEMMA LoadingHasRunNext ==
    TypeOK /\ LoadingHasRun /\ [Next]_vars => LoadingHasRun'
  <1> SUFFICES ASSUME TypeOK, LoadingHasRun, [Next]_vars
               PROVE  LoadingHasRun'
    OBVIOUS
  <1>k. runner'.running \subseteq Kinds
    BY NextType DEF TypeOK, Runner
  <1> SUFFICES ASSUME NEW j \in Kinds, j \in runner'.running
               PROVE  \/ \E w \in workers' :
                            w.kind = j /\ w.generation = runner'.generation[j]
                      \/ \E i \in 1 .. Len(channel') :
                            /\ channel'[i].kind = j
                            /\ channel'[i].generation = runner'.generation[j]
    BY <1>k DEF LoadingHasRun, HoldsClaim
  <1> DEFINE Held == \/ \E w \in workers' :
                            w.kind = j /\ w.generation = runner'.generation[j]
                     \/ \E i \in 1 .. Len(channel') :
                            /\ channel'[i].kind = j
                            /\ channel'[i].generation = runner'.generation[j]
  <1>r. runner \in Runner /\ channel \in Seq(Message) /\ workers \subseteq Worker
    BY DEF TypeOK
  <1>l. Len(channel) \in Nat
    BY <1>r
  <1>h. ASSUME j \in runner.running
        PROVE  \/ \E w \in workers :
                     w.kind = j /\ w.generation = runner.generation[j]
               \/ \E i \in 1 .. Len(channel) :
                     /\ channel[i].kind = j
                     /\ channel[i].generation = runner.generation[j]
    BY <1>h DEF LoadingHasRun, HoldsClaim
  <1>1. ASSUME NEW k \in Kinds, Request(k) PROVE Held
    <2> DEFINE new == [kind |-> k, generation |-> ClaimedGeneration(runner, k), asOf |-> Unread]
    <2>1. /\ runner' = Requested(runner, k)
          /\ workers' = workers \cup {new} /\ channel' = channel
      BY <1>1 DEF Request
    <2>2. /\ runner'.generation[j] = IF j = k THEN runner.generation[j] + 1
                                             ELSE runner.generation[j]
          /\ runner'.running = runner.running \cup {k}
      BY <2>1, <1>r, ClaimsMove
    <2>3. new.kind = k /\ new.generation = runner.generation[k] + 1
      BY DEF ClaimedGeneration
    <2> HIDE DEF new
    <2>4. CASE j = k
      <3>1. new.kind = j /\ new.generation = runner'.generation[j] /\ new \in workers'
        BY <2>1, <2>2, <2>3, <2>4
      <3> QED
        BY <3>1
    <2>5. CASE j # k
      BY <2>1, <2>2, <2>5, <1>h
    <2> QED
      BY <2>4, <2>5
  <1>2. ASSUME NEW k \in Kinds, Invalidate(k) PROVE Held
    <2>1. runner' = Invalidated(runner, k) /\ workers' = workers /\ channel' = channel
      BY <1>2 DEF Invalidate
    <2>2. /\ runner'.generation[j] = IF j = k THEN runner.generation[j] + 1
                                             ELSE runner.generation[j]
          /\ runner'.running = runner.running \ {k}
      BY <2>1, <1>r, ClaimsMove
    <2> QED
      BY <2>1, <2>2, <1>h
  <1>3. ASSUME NEW K \in Groups, InvalidateMatching(K) PROVE Held
    <2>1. /\ runner' = InvalidatedMatching(runner, K)
          /\ workers' = workers /\ channel' = channel
      BY <1>3 DEF InvalidateMatching
    <2>2. /\ runner'.generation[j] = IF j \in K \cap runner.running
                                       THEN runner.generation[j] + 1
                                       ELSE runner.generation[j]
          /\ runner'.running = runner.running \ K
      BY <2>1, <1>r, MatchingMoves
    <2> QED
      BY <2>1, <2>2, <1>h
  <1>4. ASSUME NEW v \in workers, WorkerReads(v) PROVE Held
    <2> DEFINE read == [v EXCEPT !.asOf = world]
    <2>1. /\ workers' = (workers \ {v}) \cup {read}
          /\ channel' = channel /\ runner' = runner
      BY <1>4 DEF WorkerReads
    <2>2. read.kind = v.kind /\ read.generation = v.generation
      BY <1>r DEF Worker
    <2> HIDE DEF read
    <2> QED
      BY <2>1, <2>2, <1>h
  <1>5. ASSUME NEW v \in workers, WorkerSends(v) PROVE Held
    <2>0. v \in Worker /\ v.asOf # Unread
      BY <1>5, <1>r DEF WorkerSends
    <2>1. v \in Message
      BY <2>0 DEF Worker, Message
    <2>2. channel' = Append(channel, v) /\ workers' = workers \ {v} /\ runner' = runner
      BY <1>5 DEF WorkerSends
    <2>3. /\ Len(channel') = Len(channel) + 1
          /\ \A i \in 1 .. Len(channel) : channel'[i] = channel[i]
          /\ channel'[Len(channel) + 1] = v
      BY <2>1, <2>2, <1>r, ChannelMoves
    <2>4. Len(channel) + 1 \in 1 .. Len(channel') /\ 1 .. Len(channel) \subseteq 1 .. Len(channel')
      BY <2>3, <1>l
    <2>5. CASE \E w \in workers : w.kind = j /\ w.generation = runner.generation[j]
      BY <2>5, <2>2, <2>3, <2>4
    <2>6. CASE \E i \in 1 .. Len(channel) :
                  /\ channel[i].kind = j
                  /\ channel[i].generation = runner.generation[j]
      BY <2>6, <2>2, <2>3, <2>4
    <2> QED
      BY <2>2, <2>5, <2>6, <1>h
  <1>6. CASE DrainResult
    <2> DEFINE m == Head(channel)
    <2>1. /\ channel # <<>> /\ channel' = Tail(channel) /\ workers' = workers
          /\ runner' = Completed(runner, m.kind, m.generation)
      BY <1>6 DEF DrainResult
    <2>2. /\ runner'.generation = runner.generation
          /\ runner'.running = IF m.generation = runner.generation[m.kind]
                                 THEN runner.running \ {m.kind} ELSE runner.running
      BY <2>1, <1>r DEF Completed, Runner
    <2>3. /\ m = channel[1]
          /\ Len(channel') = Len(channel) - 1
          /\ \A i \in 1 .. Len(channel') : channel'[i] = channel[i + 1]
      BY <2>1, <1>r, ChannelMoves
    <2> HIDE DEF m
    <2>4. CASE \E w \in workers : w.kind = j /\ w.generation = runner.generation[j]
      BY <2>4, <2>1, <2>2
    <2>5. ASSUME NEW i \in 1 .. Len(channel),
                 channel[i].kind = j, channel[i].generation = runner.generation[j]
          PROVE  Held
      <3>1. i # 1
        BY <2>5, <2>2, <2>3
      <3>2. i - 1 \in 1 .. Len(channel') /\ channel'[i - 1] = channel[i]
        BY <3>1, <2>3, <1>l
      <3> QED
        BY <3>2, <2>5, <2>2
    <2> QED
      BY <2>2, <2>4, <2>5, <1>h
  <1>7. (WorldMoves \/ UNCHANGED vars) => Held
    BY <1>h DEF WorldMoves, vars
  <1> QED
    BY <1>1, <1>2, <1>3, <1>4, <1>5, <1>6, <1>7 DEF Next

-----------------------------------------------------------------------------
\* The conjunction of the facts above is inductive.
LEMMA IInvInit == Init => IInv
  <1> SUFFICES ASSUME Init PROVE IInv
    OBVIOUS
  <1>1. TypeOK
    BY InitType
  <1>2. /\ workers = {} /\ channel = <<>> /\ runner.running = {} /\ world = 0
        /\ \A k \in Kinds : floor[k] = 0 /\ shown[k] = 0
    BY DEF Init, NewRunner
  <1> QED
    BY <1>1, <1>2 DEF IInv, ClaimedBeforeFlight, NotFromTheFuture, FreshRuns,
                      OneRunPerClaim, LoadingHasRun

LEMMA IInvNext == IInv /\ [Next]_vars => IInv'
  BY NextType, ClaimedNext, NotFromTheFutureNext, FreshRunsNext,
     OneRunPerClaimNext, LoadingHasRunNext DEF IInv

\* The inductive invariant itself, which the run of the instance checks as well
\* (TaskRunner::request, complete, invalidate and the channel).
THEOREM IInvAlways == Spec => []IInv
  BY IInvInit, IInvNext, PTL DEF Spec

\* While a loader spins there is a run whose result will be accepted: no
\* interleaving of requests, invalidations and late results leaves a loader
\* with nobody working for it.
THEOREM LoadersHaveRuns == Spec => []LoadingHasRun
  <1>1. IInv => LoadingHasRun
    BY DEF IInv
  <1> QED
    BY <1>1, IInvAlways, PTL

\* No two runs, in a thread or in the channel, carry the same claim.
THEOREM ClaimsAreExclusive == Spec => []OneRunPerClaim
  <1>1. IInv => OneRunPerClaim
    BY DEF IInv
  <1> QED
    BY <1>1, IInvAlways, PTL

-----------------------------------------------------------------------------
\* An applied result is recent enough: it was read no earlier than the last
\* invalidation of its kind and than what is on screen, and it exists.
LEMMA AppliedIsFresh ==
    ASSUME IInv, DrainResult, NEW m, m = Head(channel),
           IsAuthoritative(runner, m.kind, m.generation)
    PROVE  /\ m.kind \in Kinds
           /\ m.asOf \in floor[m.kind] .. world
           /\ m.asOf >= shown[m.kind]
           /\ shown' = [shown EXCEPT ![m.kind] = m.asOf]
           /\ floor' = floor /\ world' = world
  <1>t. channel \in Seq(Message) /\ floor \in [Kinds -> Nat] /\ world \in Nat
    BY DEF IInv, TypeOK
  <1>1. /\ channel # <<>> /\ floor' = floor /\ world' = world
        /\ shown' = [shown EXCEPT ![m.kind] = m.asOf]
    BY DEF DrainResult
  <1>2. 1 \in 1 .. Len(channel) /\ m = channel[1]
    BY <1>1, <1>t, ChannelMoves
  <1>3. m.kind \in Kinds /\ m.asOf \in Nat
    BY <1>2, <1>t, MessageFields
  <1>4. m.asOf >= floor[m.kind] /\ m.asOf >= shown[m.kind]
    BY <1>2 DEF IInv, FreshRuns, MayLand, LandsFresh
  <1>5. m.asOf <= world
    BY <1>2 DEF IInv, NotFromTheFuture
  <1> QED
    BY <1>t, <1>1, <1>3, <1>4, <1>5

\* Only the drain changes what is shown, and only when it applies a result.
LEMMA OnlyDrainShows ==
    ASSUME [Next]_vars
    PROVE  \/ shown' = shown
           \/ /\ DrainResult
              /\ IsAuthoritative(runner, Head(channel).kind, Head(channel).generation)
  BY DEF Next, vars, WorldMoves, Request, Invalidate, WorkerReads, WorkerSends,
         InvalidateMatching, DrainResult

\* No view goes back in time, and none ever shows a version older than the
\* moment it was last invalidated.
THEOREM ViewsNeverStale == Spec => NeverStale
  <1> DEFINE Fresh == \A k \in Kinds : shown'[k] # shown[k] =>
                         shown'[k] >= floor[k] /\ shown'[k] >= shown[k]
  <1>1. IInv /\ [Next]_vars => [Fresh]_vars
    <2> SUFFICES ASSUME IInv, [Next]_vars, NEW k \in Kinds, shown'[k] # shown[k]
                 PROVE  shown'[k] >= floor[k] /\ shown'[k] >= shown[k]
      OBVIOUS
    <2> DEFINE m == Head(channel)
    <2>1. DrainResult /\ IsAuthoritative(runner, m.kind, m.generation)
      BY OnlyDrainShows
    <2>2. /\ m.kind \in Kinds /\ m.asOf \in floor[m.kind] .. world
          /\ m.asOf >= shown[m.kind]
          /\ shown' = [shown EXCEPT ![m.kind] = m.asOf]
      BY <2>1, AppliedIsFresh
    <2>3. shown \in [Kinds -> Nat] /\ floor \in [Kinds -> Nat] /\ world \in Nat
      BY DEF IInv, TypeOK
    <2> HIDE DEF m
    <2>4. m.kind = k /\ shown'[k] = m.asOf
      BY <2>2, <2>3
    <2> QED
      BY <2>2, <2>3, <2>4
  <1> QED
    BY <1>1, IInvAlways, PTL DEF Spec, NeverStale

-----------------------------------------------------------------------------
\* The detailed protocol maps to FreshView step by step: a request, a worker's
\* own steps and a dropped result change nothing a reader of the screen sees.
LEMMA ViewNext == IInv /\ [Next]_vars => [View!Next]_View!vars
  <1> SUFFICES ASSUME IInv, [Next]_vars PROVE [View!Next]_View!vars
    OBVIOUS
  <1>t. /\ floor \in [Kinds -> Nat] /\ shown \in [Kinds -> Nat] /\ world \in Nat
        /\ Groups \subseteq SUBSET Kinds
    BY GroupsAssumption DEF IInv, TypeOK
  <1>1. CASE WorldMoves
    BY <1>1 DEF WorldMoves, View!Next, View!WorldMoves
  <1>2. ASSUME NEW k \in Kinds, Request(k) PROVE UNCHANGED View!vars
    BY <1>2 DEF Request, View!vars
  <1>3. ASSUME NEW k \in Kinds, Invalidate(k) PROVE View!Next
    <2>1. floor' = [floor EXCEPT ![k] = world] /\ UNCHANGED <<world, shown>>
      BY <1>3 DEF Invalidate
    <2>2. floor' = [j \in Kinds |-> IF j \in {k} THEN world ELSE floor[j]]
      BY <2>1, <1>t
    <2>3. View!Discard({k})
      BY <2>1, <2>2 DEF View!Discard
    <2> QED
      BY <2>3 DEF View!Next
  <1>4. ASSUME NEW w \in workers, WorkerReads(w) \/ WorkerSends(w)
        PROVE  UNCHANGED View!vars
    BY <1>4 DEF WorkerReads, WorkerSends, View!vars
  <1>5. ASSUME NEW K \in Groups, InvalidateMatching(K) PROVE View!Next
    <2>1. View!Discard(K)
      BY <1>5 DEF InvalidateMatching, View!Discard
    <2> QED
      BY <2>1, <1>t DEF View!Next
  <1>6. CASE DrainResult
    <2> DEFINE m == Head(channel)
    <2>1. CASE IsAuthoritative(runner, m.kind, m.generation)
      <3>1. /\ m.kind \in Kinds /\ m.asOf \in floor[m.kind] .. world
            /\ m.asOf >= shown[m.kind]
            /\ shown' = [shown EXCEPT ![m.kind] = m.asOf]
            /\ UNCHANGED <<world, floor>>
        BY <1>6, <2>1, AppliedIsFresh
      <3>2. View!Show(m.kind)
        BY <3>1 DEF View!Show
      <3> QED
        BY <3>1, <3>2 DEF View!Next
    <2>2. CASE ~ IsAuthoritative(runner, m.kind, m.generation)
      BY <1>6, <2>2 DEF DrainResult, View!vars
    <2> QED
      BY <2>1, <2>2
  <1>7. CASE UNCHANGED vars
    BY <1>7 DEF vars, View!vars
  <1> QED
    BY <1>1, <1>2, <1>3, <1>4, <1>5, <1>6, <1>7 DEF Next

\* The task spine implements the view it promises, for any kinds and bounds.
THEOREM Refinement == Spec => ImplementsFreshView
  <1>1. Init => View!Init
    BY DEF Init, View!Init
  <1> QED
    BY <1>1, ViewNext, IInvAlways, PTL DEF Spec, View!Spec, ImplementsFreshView

-----------------------------------------------------------------------------
(* The views. *)

\* One part is at work; the steps of the others leave it as it is.
LEMMA RichAlone ==
  ASSUME [OverlayNext]_overlayVars
  PROVE  /\ over' = over
         /\ over = "rich" => [Rich!Next]_richVars
         /\ over # "rich" => UNCHANGED richVars
BY DEF OverlayNext, OnlyIn, overlayVars

-----------------------------------------------------------------------------
(* The views of the forge.  What is asked for and what expires never makes a
   status that is there another one.                                         *)

CacheOK(c) ==
  /\ c \in [Rich!Kinds -> Rich!Entry]
  /\ \A k \in Rich!Kinds : c[k].phase = "loaded" => c[k].version # 0

NotNewer(c, d) ==
  \A k \in Rich!Kinds : d[k].phase = "loaded" => d[k] = c[k]

LEMMA CacheMoves ==
  ASSUME NEW c, CacheOK(c), NEW keys
  PROVE  /\ CacheOK(Rich!Asked(c, keys)) /\ NotNewer(c, Rich!Asked(c, keys))
         /\ CacheOK(Rich!Flushed(c)) /\ NotNewer(c, Rich!Flushed(c))
         /\ CacheOK(Rich!Expired(c, keys)) /\ NotNewer(c, Rich!Expired(c, keys))
<1>1. \A k \in Rich!Kinds : /\ c[k] \in Rich!Entry
                            /\ [c[k] EXCEPT !.phase = "loading"] \in Rich!Entry
                            /\ [c[k] EXCEPT !.phase = "idle"] \in Rich!Entry
                            /\ [c[k] EXCEPT !.phase = "loading"].phase = "loading"
                            /\ [c[k] EXCEPT !.phase = "idle"].phase = "idle"
  BY DEF CacheOK, Rich!Entry
<1>2. CacheOK(Rich!Asked(c, keys)) /\ NotNewer(c, Rich!Asked(c, keys))
  BY <1>1 DEF CacheOK, NotNewer, Rich!Asked
<1>3. CacheOK(Rich!Flushed(c)) /\ NotNewer(c, Rich!Flushed(c))
  BY <1>1 DEF CacheOK, NotNewer, Rich!Flushed
<1>4. CacheOK(Rich!Expired(c, keys)) /\ NotNewer(c, Rich!Expired(c, keys))
  BY <1>1 DEF CacheOK, NotNewer, Rich!Expired
<1>. QED BY <1>2, <1>3, <1>4

LEMMA CacheRefreshed ==
  ASSUME NEW c, CacheOK(c), NEW l
  PROVE  CacheOK(Rich!Refreshed(c, l)) /\ NotNewer(c, Rich!Refreshed(c, l))
<1>. DEFINE f == Rich!Flushed(c)
            d == Rich!Asked(f, {Rich!LinkedPr(l), Rich!LinkedIssue(l)})
<1>1. CacheOK(f) /\ NotNewer(c, f)
  BY CacheMoves
<1>. HIDE DEF f
<1>2. CacheOK(d) /\ NotNewer(f, d)
  BY <1>1, CacheMoves
<1>. HIDE DEF d
<1>3. NotNewer(c, d)
  BY <1>1, <1>2 DEF NotNewer
<1>4. Rich!Refreshed(c, l) \in {c, d}
  BY DEF Rich!Refreshed, d, f
<1>. QED BY <1>2, <1>3, <1>4 DEF NotNewer

\* The status of a link's side that is there makes a source.
LEMMA SourceIs ==
  ASSUME NEW c, CacheOK(c), NEW k, Rich!Loaded(c, k), k[1] # "threads"
  PROVE  /\ Rich!SourceOf(c, k) \in Rich!Source
         /\ Rich!SourceOf(c, k).kind = k[1] /\ Rich!SourceOf(c, k).number = k[2]
         /\ Rich!SourceOf(c, k).version = c[k].version
         /\ k \in Rich!Kinds /\ k = <<k[1], k[2]>>
<1>1. k \in Rich!Kinds /\ c[k].version \in 1 .. MaxVersion
  BY RichAssumption DEF CacheOK, Rich!Loaded, Rich!Entry
<1>2. k[1] \in {"issue", "pr"} /\ k[2] \in Issues \cup Prs /\ k = <<k[1], k[2]>>
  BY <1>1 DEF Rich!Kinds
<1>. QED BY <1>1, <1>2 DEF Rich!SourceOf, Rich!Source
-----------------------------------------------------------------------------
(* The views, one over the other.  A rich view is of what it is pinned to, under the
   tab that was chosen, and is not itself to come back; a list of checks is not empty;
   and what comes back is under the tab that was chosen.                     *)

InView(u) == u.view \in {"overlay", "pty"}

Underneath(u, tab) == u.back # Rich!NoSource /\ tab # "none" => u.back.kind = tab /\ u.backPinned

Whole(u, tab) ==
  /\ u \in Rich!Ui /\ Underneath(u, tab)
  /\ InView(u) /\ u.kind # "ci" =>
       /\ u.source \in Rich!Source /\ u.source.kind = u.kind /\ u.source.number = u.pin
       /\ tab # "none" => u.kind = tab /\ u.pinned
       /\ u.back = Rich!NoSource
  /\ InView(u) /\ u.kind = "ci" => u.checks # 0
  /\ u.view = "list" => u.back = Rich!NoSource

Side(u, l) == IF u.kind = "issue" THEN l.issue ELSE l.pr
Agrees(u, l) == u.view = "overlay" /\ ~ u.restored => u.pin = Side(u, l)

KeyOf(u) == <<u.source.kind, u.source.number>>
Freshest(u, c) ==
  u.view = "overlay" /\ u.kind # "ci" /\ ~ u.restored =>
    (Rich!Loaded(c, KeyOf(u)) => u.source.version = c[KeyOf(u)].version)

LEMMA OpenedIs ==
  ASSUME NEW u \in Rich!Ui, NEW s \in Rich!Source
  PROVE  LET o == Rich!Opened(u, s) IN
         /\ o \in Rich!Ui
         /\ o.view = "overlay" /\ o.kind = s.kind /\ o.pin = s.number /\ o.source = s
         /\ o.restored = FALSE /\ o.back = u.back /\ o.pinned = u.pinned /\ o.backPinned = u.backPinned
         /\ o.checks = u.checks /\ o.covered = u.covered
BY DEF Rich!Opened, Rich!Ui, Rich!Source

\* What comes back, or the table.
LEMMA RestoredIs ==
  ASSUME NEW u \in Rich!Ui, NEW tab, Underneath(u, tab), NEW l, NEW c
  PROVE  LET r == Rich!Restored(u) IN
         /\ Whole(r, tab) /\ Agrees(r, l) /\ Freshest(r, c)
         /\ r.view = "list" \/ (r.view = "overlay" /\ r.restored = TRUE)
<1>1. CASE u.back = Rich!NoSource
  <2>. DEFINE r == [u EXCEPT !.view = "list", !.restored = FALSE]
  <2>1. r \in Rich!Ui /\ r.view = "list" /\ r.back = Rich!NoSource
    BY <1>1 DEF Rich!Ui
  <2>2. Rich!Restored(u) = r
    BY <1>1 DEF Rich!Restored
  <2>. QED BY <2>1, <2>2 DEF Whole, Agrees, Freshest, InView, Underneath
<1>2. CASE u.back # Rich!NoSource
  <2>. DEFINE o == Rich!Opened(u, u.back)
              r == [o EXCEPT !.back = Rich!NoSource, !.pinned = u.backPinned, !.restored = TRUE]
  <2>1. u.back \in Rich!Source
    BY <1>2 DEF Rich!Ui
  <2>2. /\ o \in Rich!Ui /\ o.view = "overlay" /\ o.kind = u.back.kind /\ o.pin = u.back.number
        /\ o.source = u.back
    BY <2>1, OpenedIs
  <2>3. u.backPinned \in BOOLEAN /\ u.back.kind \in {"issue", "pr"}
    BY <2>1 DEF Rich!Ui, Rich!Source
  <2>4. Rich!Restored(u) = r
    BY <1>2 DEF Rich!Restored
  <2>. HIDE DEF o
  <2>5. /\ r \in Rich!Ui /\ r.view = "overlay" /\ r.kind = u.back.kind /\ r.pin = u.back.number
        /\ r.source = u.back /\ r.back = Rich!NoSource /\ r.pinned = u.backPinned /\ r.restored = TRUE
    BY <2>2, <2>3 DEF Rich!Ui
  <2>. HIDE DEF r
  <2>. QED BY <1>2, <2>1, <2>3, <2>4, <2>5 DEF Whole, Agrees, Freshest, InView, Underneath
<1>. QED BY <1>1, <1>2

LEMMA ClosedIs ==
  ASSUME NEW u \in Rich!Ui, NEW tab, Underneath(u, tab), NEW l, NEW c
  PROVE  LET r == Rich!Closed(u) IN
         /\ Whole(r, tab) /\ Agrees(r, l) /\ Freshest(r, c)
         /\ r.view = "list" \/ (r.view = "overlay" /\ r.restored = TRUE)
<1>. DEFINE v == [u EXCEPT !.pin = Nothing, !.pinned = FALSE, !.checks = 0, !.source = Rich!NoSource]
<1>1. v \in Rich!Ui /\ v.back = u.back /\ v.backPinned = u.backPinned
  <2>1. 0 \in 0 .. MaxVersion
    BY RichAssumption
  <2>2. Rich!NoSource \in Rich!Source \cup {Rich!NoSource} /\ Nothing \in Issues \cup Prs \cup {Nothing}
    OBVIOUS
  <2>. QED BY <2>1, <2>2 DEF Rich!Ui
<1>2. Rich!Closed(u) = Rich!Restored(v)
  BY DEF Rich!Closed
<1>. HIDE DEF v
<1>3. Underneath(v, tab)
  BY <1>1 DEF Underneath
<1>. QED BY <1>1, <1>2, <1>3, RestoredIs
\* The view is checked against the link,
LEMMA GuardedIs ==
  ASSUME NEW u, NEW tab, Whole(u, tab), NEW l, NEW c, Freshest(u, c)
  PROVE  LET g == Rich!Guarded(u, l) IN
         Whole(g, tab) /\ Agrees(g, l) /\ Freshest(g, c) /\ (u.view # "overlay" => g = u)
<1>. DEFINE g == Rich!Guarded(u, l)
<1>1. CASE u.view = "overlay" /\ u.pin # Side(u, l)
  <2>1. g = Rich!Closed(u)
    BY <1>1 DEF Rich!Guarded, Side
  <2>. QED BY <1>1, <2>1, ClosedIs DEF Whole
<1>2. CASE ~ (u.view = "overlay" /\ u.pin # Side(u, l))
  <2>1. g = u
    BY <1>2 DEF Rich!Guarded, Side
  <2>. QED BY <1>2, <2>1 DEF Agrees
<1>. QED BY <1>1, <1>2

\* a status that lands goes to the view,
LEMMA SyncedIs ==
  ASSUME NEW u, NEW tab, Whole(u, tab), NEW l, Agrees(u, l), NEW s \in Rich!Source
  PROVE  LET v == Rich!Synced(u, l, s) IN
         /\ Whole(v, tab) /\ Agrees(v, l) /\ v.view = u.view
         /\ \/ v = u /\ ~ (u.view = "overlay" /\ ~ u.restored /\ KeyOf(u) = <<s.kind, s.number>> /\ u.kind # "ci")
            \/ v.view = "overlay" /\ v.kind # "ci" /\ v.source = s
<1>. DEFINE v == [u EXCEPT !.kind = s.kind, !.pin = s.number, !.source = s, !.restored = FALSE]
            takes == /\ u.view = "overlay" /\ u.kind # "ci"
                     /\ IF s.kind = "pr" THEN s.number = l.pr /\ ~ (u.pinned /\ u.kind = "issue")
                        ELSE s.number = l.issue /\ u.kind = "issue"
<1>0. s.kind \in {"issue", "pr"} /\ s.number \in Issues \cup Prs
  BY DEF Rich!Source
<1>1. CASE takes
  <2>1. Rich!Synced(u, l, s) = v
    BY <1>1 DEF Rich!Synced
  <2>2. /\ v \in Rich!Ui /\ v.view = "overlay" /\ v.kind = s.kind /\ v.pin = s.number /\ v.source = s
        /\ v.restored = FALSE /\ v.back = u.back /\ v.pinned = u.pinned /\ v.backPinned = u.backPinned
    BY <1>0, <1>1 DEF Whole, Rich!Ui
  <2>. HIDE DEF v
  <2>3. Agrees(v, l)
    BY <1>0, <1>1, <2>2 DEF Agrees, Side
  <2>4. u.back = Rich!NoSource /\ (tab # "none" => u.kind = tab /\ u.pinned)
    BY <1>1 DEF Whole, InView
  <2>. u.kind \in {"issue", "pr"}
    BY <1>1 DEF Whole, Rich!Ui
  <2>5. tab # "none" => s.kind = tab
    BY <1>0, <1>1, <2>4
  <2>6. Underneath(v, tab)
    BY <2>2, <2>4 DEF Underneath
  <2>7. Whole(v, tab)
    BY <1>0, <2>2, <2>4, <2>5, <2>6 DEF Whole, InView
  <2>. QED BY <1>0, <1>1, <2>1, <2>2, <2>3, <2>7
<1>2. CASE ~ takes
  <2>1. Rich!Synced(u, l, s) = u
    BY <1>2 DEF Rich!Synced
  <2>2. ASSUME u.view = "overlay", ~ u.restored, KeyOf(u) = <<s.kind, s.number>>, u.kind # "ci" PROVE FALSE
    <3>1. u.kind = s.kind /\ u.pin = s.number
      BY <2>2 DEF Whole, InView, KeyOf
    <3>2. u.pin = Side(u, l)
      BY <2>2 DEF Agrees
    <3>. QED BY <1>0, <1>2, <2>2, <3>1, <3>2 DEF Side
  <2>. QED BY <2>1, <2>2
<1>. HIDE DEF takes
<1>. QED BY <1>1, <1>2

\* and what was under it is what it is fresh of.
LEMMA SyncedFresh ==
  ASSUME NEW u, NEW tab, Whole(u, tab), NEW l, Agrees(u, l), NEW s \in Rich!Source,
         NEW c, CacheOK(c), s.version = c[<<s.kind, s.number>>].version,
         NEW d, Freshest(u, d), \A k \in Rich!Kinds \ {<<s.kind, s.number>>} : Rich!Loaded(c, k) => c[k] = d[k] /\ Rich!Loaded(d, k)
  PROVE  Freshest(Rich!Synced(u, l, s), c)
<1>. DEFINE v == Rich!Synced(u, l, s)
<1>1. CASE v = u /\ ~ (u.view = "overlay" /\ ~ u.restored /\ KeyOf(u) = <<s.kind, s.number>> /\ u.kind # "ci")
  BY <1>1 DEF Freshest, Rich!Loaded, KeyOf
<1>2. CASE v.view = "overlay" /\ v.kind # "ci" /\ v.source = s
  BY <1>2 DEF Freshest, KeyOf
<1>. HIDE DEF v
<1>3. \/ v = u /\ ~ (u.view = "overlay" /\ ~ u.restored /\ KeyOf(u) = <<s.kind, s.number>> /\ u.kind # "ci")
      \/ v.view = "overlay" /\ v.kind # "ci" /\ v.source = s
  BY SyncedIs DEF v
<1>. QED BY <1>1, <1>2, <1>3 DEF v

\* A list of checks that has none closes.
LEMMA SyncedCiIs ==
  ASSUME NEW u, NEW tab, Whole(u, tab), NEW l, Agrees(u, l), NEW c, Freshest(u, c),
         NEW n, NEW version \in 1 .. MaxVersion, NEW checks
  PROVE  LET v == Rich!SyncedCi(u, l, n, version, checks) IN
         /\ Whole(v, tab) /\ Agrees(v, l) /\ Freshest(v, c)
         /\ v = u \/ u.view = "overlay"
         /\ u.view # "pty" => v.view # "pty"
<1>. DEFINE w == [u EXCEPT !.checks = version]
<1>1. CASE u.view = "overlay" /\ u.kind = "ci"
  <2>0. version # 0 /\ version \in 0 .. MaxVersion
    OBVIOUS
  <2>1. /\ w \in Rich!Ui /\ w.view = u.view /\ w.kind = "ci" /\ w.checks = version /\ w.pin = u.pin
        /\ w.back = u.back /\ w.backPinned = u.backPinned /\ w.restored = u.restored
    BY <1>1, <2>0 DEF Whole, Rich!Ui
  <2>2. Rich!SyncedCi(u, l, n, version, checks) \in {u, w, Rich!Closed(u)}
    BY DEF Rich!SyncedCi
  <2>3. Whole(w, tab) /\ Agrees(w, l) /\ Freshest(w, c)
    BY <1>1, <2>0, <2>1 DEF Whole, Agrees, Freshest, InView, Underneath, Side
  <2>4. LET r == Rich!Closed(u) IN Whole(r, tab) /\ Agrees(r, l) /\ Freshest(r, c) /\ r.view # "pty"
    BY ClosedIs DEF Whole
  <2>. HIDE DEF w
  <2>. QED BY <1>1, <2>1, <2>2, <2>3, <2>4
<1>2. CASE ~ (u.view = "overlay" /\ u.kind = "ci")
  <2>1. Rich!SyncedCi(u, l, n, version, checks) = u
    BY <1>2 DEF Rich!SyncedCi
  <2>. QED BY <2>1
<1>. QED BY <1>1, <1>2
\* A view that comes back from under the browser is brought up to date from what landed.
LEMMA ResyncedIs ==
  ASSUME NEW u, NEW tab, Whole(u, tab), NEW l \in Rich!Link, Agrees(u, l), NEW c, CacheOK(c)
  PROVE  LET v == Rich!Resynced(u, l, c) IN
         /\ Whole(v, tab) /\ Agrees(v, l) /\ Freshest(v, c)
         /\ v = u \/ u.view = "overlay"
         /\ u.view # "pty" => v.view # "pty"
<1>. DEFINE k == IF u.kind = "issue" THEN Rich!LinkedIssue(l) ELSE Rich!LinkedPr(l)
            v == Rich!Resynced(u, l, c)
<1>. SUFFICES /\ Whole(v, tab) /\ Agrees(v, l) /\ Freshest(v, c)
              /\ v = u \/ u.view = "overlay"
              /\ u.view # "pty" => v.view # "pty"
  OBVIOUS
<1>0. /\ k[1] = (IF u.kind = "issue" THEN "issue" ELSE "pr") /\ k[2] = Side(u, l)
      /\ k = <<k[1], k[2]>>
  BY DEF Rich!LinkedIssue, Rich!LinkedPr, Side
<1>1. u.view = "overlay" /\ u.kind # "ci" /\ ~ u.restored => KeyOf(u) = k
  <2>. SUFFICES ASSUME u.view = "overlay", u.kind # "ci", ~ u.restored PROVE KeyOf(u) = k
    OBVIOUS
  <2>1. u.source.kind = u.kind /\ u.source.number = u.pin /\ u.kind \in {"issue", "pr"}
    BY DEF Whole, InView, Rich!Ui
  <2>2. u.pin = Side(u, l)
    BY DEF Agrees
  <2>. HIDE DEF k
  <2>. QED BY <1>0, <2>1, <2>2 DEF KeyOf
<1>2. CASE u.view # "overlay"
  <2>1. v = u
    BY <1>2 DEF Rich!Resynced
  <2>. QED BY <1>2, <2>1 DEF Freshest
<1>3. CASE u.view = "overlay" /\ ~ Rich!Loaded(c, k)
  <2>1. v = u
    BY <1>3 DEF Rich!Resynced
  <2>2. Freshest(u, c)
    BY <1>1, <1>3 DEF Freshest
  <2>. QED BY <2>1, <2>2
<1>4. CASE u.view = "overlay" /\ Rich!Loaded(c, k) /\ u.kind = "ci"
  <2>1. v = Rich!SyncedCi(u, l, k[2], c[k].version, c[k].checks)
    BY <1>4 DEF Rich!Resynced
  <2>2. c[k].version \in 1 .. MaxVersion
    <3>. HIDE DEF k
    <3>. QED BY <1>4, RichAssumption DEF CacheOK, Rich!Loaded, Rich!Entry
  <2>3. Freshest(u, c)
    BY <1>4 DEF Freshest
  <2>. HIDE DEF k, v
  <2>4. LET w == Rich!SyncedCi(u, l, k[2], c[k].version, c[k].checks) IN
        /\ Whole(w, tab) /\ Agrees(w, l) /\ Freshest(w, c)
        /\ w = u \/ u.view = "overlay"
        /\ u.view # "pty" => w.view # "pty"
    BY <2>2, <2>3, SyncedCiIs
  <2>. QED BY <1>4, <2>1, <2>4
<1>5. CASE u.view = "overlay" /\ Rich!Loaded(c, k) /\ u.kind # "ci"
  <2>. DEFINE s == Rich!SourceOf(c, k)
  <2>1. v = Rich!Synced(u, l, s)
    BY <1>5 DEF Rich!Resynced
  <2>. HIDE DEF k
  <2>2. s \in Rich!Source /\ s.kind = k[1] /\ s.number = k[2] /\ s.version = c[k].version
    BY <1>0, <1>5, SourceIs
  <2>. HIDE DEF s, v
  <2>3. /\ Whole(v, tab) /\ Agrees(v, l) /\ v.view = u.view
        /\ \/ v = u /\ ~ (u.view = "overlay" /\ ~ u.restored /\ KeyOf(u) = <<s.kind, s.number>> /\ u.kind # "ci")
           \/ v.view = "overlay" /\ v.kind # "ci" /\ v.source = s
    BY <2>1, <2>2, SyncedIs
  <2>4. v = u /\ ~ (u.view = "overlay" /\ ~ u.restored /\ KeyOf(u) = <<s.kind, s.number>> /\ u.kind # "ci")
        => Freshest(v, c)
    BY <1>0, <1>1, <1>5, <2>2 DEF Freshest
  <2>5. v.view = "overlay" /\ v.kind # "ci" /\ v.source = s => Freshest(v, c)
    BY <1>0, <2>2 DEF Freshest, KeyOf
  <2>. QED BY <1>5, <2>3, <2>4, <2>5
<1>. QED BY <1>2, <1>3, <1>4, <1>5

\* A view that is of a freshest status is so while no other status lands.
LEMMA FreshStays ==
  ASSUME NEW u, NEW c, Freshest(u, c), NEW d, NotNewer(c, d)
  PROVE  Freshest(u, d)
BY DEF Freshest, NotNewer, Rich!Loaded

-----------------------------------------------------------------------------
\* What the views of the forge keep.
RichIInv ==
  /\ link \in Rich!Link /\ CacheOK(cache)
  /\ Whole(ui, chosen) /\ Agrees(ui, link) /\ Freshest(ui, cache)
  /\ ui.view = "pty" => ui.covered = "overlay"
  /\ merging \in BOOLEAN /\ (merging => ui.view = "confirm")
  /\ chosen \in {"none", "issue", "pr"} /\ (ui.view = "list" => chosen = "none")

\* A step that ends in a view, and forgets the tab with the view.
LEMMA Ends ==
  ASSUME chosen \in {"none", "issue", "pr"}, Rich!Closing, Whole(ui', chosen)
  PROVE  /\ Whole(ui', chosen') /\ chosen' \in {"none", "issue", "pr"}
         /\ ui'.view = "list" => chosen' = "none"
<1>1. PICK v : v = ui'
  OBVIOUS
<1>2. Whole(v, "none")
  BY <1>1 DEF Whole, Underneath
<1>3. chosen' = (IF v.view = "list" THEN "none" ELSE chosen)
  BY <1>1 DEF Rich!Closing
<1>. QED BY <1>1, <1>2, <1>3

LEMMA RelistKeeps == RichIInv /\ Rich!Relist => RichIInv'
<1>. SUFFICES ASSUME RichIInv, Rich!Relist PROVE RichIInv'
  OBVIOUS
<1>1. PICK l, g, d : l = link' /\ g = ui' /\ d = cache'
  OBVIOUS
<1>2. /\ l \in Rich!Link /\ g = Rich!Guarded(ui, l) /\ merging' = merging /\ Rich!Closing
      /\ d = Rich!Asked(Rich!Expired(cache, Rich!HeldThreads(g)), {Rich!LinkedPr(l), Rich!LinkedIssue(l)})
  BY <1>1 DEF Rich!Relist
<1>3. Whole(g, chosen) /\ Agrees(g, l) /\ Freshest(g, cache) /\ (ui.view # "overlay" => g = ui)
  BY <1>2, GuardedIs DEF RichIInv
<1>4. CacheOK(d) /\ NotNewer(cache, d)
  <2>. DEFINE e == Rich!Expired(cache, Rich!HeldThreads(g))
  <2>1. CacheOK(e) /\ NotNewer(cache, e)
    BY CacheMoves DEF RichIInv
  <2>. HIDE DEF e
  <2>2. CacheOK(d) /\ NotNewer(e, d)
    BY <1>2, <2>1, CacheMoves DEF e
  <2>. QED BY <2>1, <2>2 DEF NotNewer
<1>5. Freshest(g, d)
  BY <1>3, <1>4, FreshStays
<1>6. g.view # "pty" \/ g = ui
  BY <1>2, <1>3, ClosedIs DEF Rich!Guarded, RichIInv, Whole
<1>. QED BY <1>1, <1>2, <1>3, <1>4, <1>5, <1>6, Ends DEF RichIInv
\* What is asked for again when the link was read.
LEMMA RefreshKeeps == RichIInv /\ Rich!Refresh => RichIInv'
<1>. SUFFICES ASSUME RichIInv, Rich!Refresh PROVE RichIInv'
  OBVIOUS
<1>1. PICK l, g, d : l = link' /\ g = ui' /\ d = cache'
  OBVIOUS
<1>2. /\ g = Rich!Guarded(ui, l) /\ merging' = merging /\ Rich!Closing
      /\ ui.view \in {"list", "overlay"}
      /\ \E keys : d \in {Rich!Refreshed(cache, l), Rich!Asked(Rich!Refreshed(cache, l), keys)}
  BY <1>1 DEF Rich!Refresh
<1>3. l \in Rich!Link
  BY <1>1 DEF Rich!Refresh, RichIInv, Rich!Link
<1>4. Whole(g, chosen) /\ Agrees(g, l) /\ Freshest(g, cache)
  BY <1>2, GuardedIs DEF RichIInv
<1>5. CacheOK(d) /\ NotNewer(cache, d)
  <2>. DEFINE e == Rich!Refreshed(cache, l)
  <2>1. CacheOK(e) /\ NotNewer(cache, e)
    BY CacheRefreshed DEF RichIInv
  <2>2. PICK keys : d \in {e, Rich!Asked(e, keys)}
    BY <1>2
  <2>. HIDE DEF e
  <2>3. CacheOK(Rich!Asked(e, keys)) /\ NotNewer(e, Rich!Asked(e, keys))
    BY <2>1, CacheMoves
  <2>. QED BY <2>1, <2>2, <2>3 DEF NotNewer
<1>6. Freshest(g, d)
  BY <1>4, <1>5, FreshStays
<1>7. g.view # "pty"
  BY <1>2, ClosedIs DEF Rich!Guarded, RichIInv, Whole
<1>. QED BY <1>1, <1>2, <1>3, <1>4, <1>5, <1>6, <1>7, Ends DEF RichIInv

LEMMA OpenRichKeeps == RichIInv /\ Rich!OpenRich => RichIInv'
<1>. SUFFICES ASSUME RichIInv, Rich!OpenRich PROVE RichIInv'
  OBVIOUS
<1>0. ui.view = "list" /\ link' = link /\ merging' = merging /\ chosen' = chosen /\ chosen = "none"
  BY DEF Rich!OpenRich, RichIInv
<1>1. ASSUME NEW k \in {Rich!LinkedPr(link), Rich!LinkedIssue(link)}, Rich!Loaded(cache, k),
             NEW keys, ui' = Rich!Opened(ui, Rich!SourceOf(cache, k)),
             cache' \in {cache, Rich!Asked(cache, keys)}
      PROVE  RichIInv'
  <2>. DEFINE s == Rich!SourceOf(cache, k)
  <2>1. k[1] \in {"issue", "pr"} /\ k[2] = (IF k[1] = "issue" THEN link.issue ELSE link.pr)
    BY DEF Rich!LinkedPr, Rich!LinkedIssue
  <2>2. /\ s \in Rich!Source /\ s.kind = k[1] /\ s.number = k[2] /\ s.version = cache[k].version
        /\ k = <<k[1], k[2]>>
    BY <1>1, <2>1, SourceIs DEF RichIInv
  <2>. HIDE DEF s
  <2>3. PICK o, d : o = ui' /\ d = cache'
    OBVIOUS
  <2>4. /\ o \in Rich!Ui /\ o.view = "overlay" /\ o.kind = s.kind /\ o.pin = s.number /\ o.source = s
        /\ o.restored = FALSE /\ o.back = ui.back
    <3>1. o = Rich!Opened(ui, s) /\ ui \in Rich!Ui
      BY <1>1, <2>3 DEF s, RichIInv, Whole
    <3>. QED BY <2>2, <3>1, OpenedIs
  <2>5. CacheOK(d) /\ NotNewer(cache, d)
    BY <1>1, <2>3, CacheMoves DEF RichIInv, NotNewer
  <2>6. Whole(o, "none")
    BY <1>0, <2>1, <2>2, <2>4 DEF Whole, Underneath, InView, RichIInv
  <2>7. Agrees(o, link)
    BY <2>1, <2>2, <2>4 DEF Agrees, Side
  <2>8. Freshest(o, cache)
    BY <2>1, <2>2, <2>4 DEF Freshest, KeyOf
  <2>9. Freshest(o, d)
    BY <2>5, <2>8, FreshStays
  <2>. QED BY <1>0, <2>3, <2>4, <2>5, <2>6, <2>7, <2>9 DEF RichIInv
<1>2. CASE UNCHANGED ui
  <2>1. PICK d : d = cache'
    OBVIOUS
  <2>2. \E keys : d \in {cache, Rich!Asked(cache, keys)}
    BY <2>1 DEF Rich!OpenRich
  <2>3. CacheOK(d) /\ NotNewer(cache, d)
    BY <2>2, CacheMoves DEF RichIInv, NotNewer
  <2>4. Freshest(ui, d)
    BY <2>3, FreshStays DEF RichIInv
  <2>. QED BY <1>0, <1>2, <2>1, <2>3, <2>4 DEF RichIInv
<1>3. CASE Rich!Loaded(cache, Rich!LinkedPr(link)) /\ ui' = Rich!Opened(ui, Rich!SourceOf(cache, Rich!LinkedPr(link)))
           /\ cache' = Rich!Asked(cache, {<<"threads", link.pr>>})
  BY <1>1, <1>3
<1>4. CASE Rich!Loaded(cache, Rich!LinkedIssue(link)) /\ ui' = Rich!Opened(ui, Rich!SourceOf(cache, Rich!LinkedIssue(link)))
           /\ cache' = cache
  BY <1>1, <1>4
<1>. QED BY <1>2, <1>3, <1>4 DEF Rich!OpenRich

\* The rich view is remembered under what covers it.
LEMMA RememberedIs ==
  ASSUME NEW u, NEW tab, Whole(u, tab), u.view = "list" \/ (u.view = "overlay" /\ u.kind # "ci"),
         u.view = "list" => tab = "none"
  PROVE  LET r == Rich!Remembered(u) IN
         /\ r \in Rich!Ui /\ Underneath(r, tab) /\ r.view = u.view
         /\ u.view = "list" => r.back = Rich!NoSource
<1>1. CASE u.view = "list"
  <2>. DEFINE r == [u EXCEPT !.back = Rich!NoSource]
  <2>1. r \in Rich!Ui /\ r.back = Rich!NoSource /\ r.view = u.view
    BY DEF Whole, Rich!Ui
  <2>2. Rich!Remembered(u) = r
    BY <1>1 DEF Rich!Remembered
  <2>. QED BY <2>1, <2>2 DEF Underneath
<1>2. CASE u.view = "overlay" /\ u.kind # "ci"
  <2>. DEFINE r == [u EXCEPT !.back = u.source, !.backPinned = u.pinned]
  <2>0. u.source \in Rich!Source /\ u.source.kind = u.kind /\ (tab # "none" => u.kind = tab /\ u.pinned)
    BY <1>2 DEF Whole, InView
  <2>1. r \in Rich!Ui /\ r.back = u.source /\ r.backPinned = u.pinned /\ r.view = u.view
    BY <2>0 DEF Whole, Rich!Ui
  <2>2. Rich!Remembered(u) = r
    BY <1>2 DEF Rich!Remembered
  <2>. QED BY <1>2, <2>0, <2>1, <2>2 DEF Underneath
<1>. QED BY <1>1, <1>2

LEMMA OpenCiKeeps == RichIInv /\ Rich!OpenCi => RichIInv'
<1>. SUFFICES ASSUME RichIInv, Rich!OpenCi PROVE RichIInv'
  OBVIOUS
<1>0. /\ ui.view = "list" \/ (ui.view = "overlay" /\ ui.kind # "ci")
      /\ link' = link /\ merging' = merging /\ chosen' = chosen
  BY DEF Rich!OpenCi
<1>1. PICK d, o : d = cache' /\ o = ui'
  OBVIOUS
<1>2. \E keys : d \in {cache, Rich!Asked(cache, keys)}
  BY <1>1 DEF Rich!OpenCi
<1>3. CacheOK(d) /\ NotNewer(cache, d)
  BY <1>2, CacheMoves DEF RichIInv, NotNewer
<1>4. CASE o = ui
  <2>1. Freshest(ui, d)
    BY <1>3, FreshStays DEF RichIInv
  <2>. QED BY <1>0, <1>1, <1>3, <1>4, <2>1 DEF RichIInv
<1>5. CASE o # ui
  <2>. DEFINE r == Rich!Remembered(ui)
  <2>1. /\ o = [r EXCEPT !.view = "overlay", !.kind = "ci", !.pin = link.pr,
                         !.checks = cache[Rich!LinkedPr(link)].version, !.restored = FALSE]
        /\ Rich!Loaded(cache, Rich!LinkedPr(link))
    BY <1>1, <1>5 DEF Rich!OpenCi
  <2>2. r \in Rich!Ui /\ Underneath(r, chosen)
    BY <1>0, RememberedIs DEF RichIInv
  <2>3. cache[Rich!LinkedPr(link)].version \in 0 .. MaxVersion /\ cache[Rich!LinkedPr(link)].version # 0
    BY <2>1 DEF RichIInv, CacheOK, Rich!Loaded, Rich!Entry
  <2>4. link.pr \in Issues \cup Prs \cup {Nothing}
    BY DEF RichIInv, Rich!Link
  <2>. HIDE DEF r
  <2>5. /\ o \in Rich!Ui /\ o.view = "overlay" /\ o.kind = "ci" /\ o.pin = link.pr /\ o.checks # 0
        /\ o.back = r.back /\ o.backPinned = r.backPinned
    BY <2>1, <2>2, <2>3, <2>4 DEF Rich!Ui
  <2>6. Whole(o, chosen)
    BY <2>2, <2>5 DEF Whole, InView, Underneath
  <2>7. Agrees(o, link) /\ Freshest(o, d)
    BY <2>5 DEF Agrees, Side, Freshest
  <2>. QED BY <1>0, <1>1, <1>3, <2>5, <2>6, <2>7 DEF RichIInv
<1>. QED BY <1>4, <1>5

LEMMA NextTabKeeps == RichIInv /\ Rich!NextTab => RichIInv'
<1>. SUFFICES ASSUME RichIInv, Rich!NextTab PROVE RichIInv'
  OBVIOUS
<1>1. PICK k, d, o, t : /\ k = (IF ui.kind = "pr" THEN Rich!LinkedIssue(link) ELSE Rich!LinkedPr(link))
                        /\ d = cache' /\ o = ui' /\ t = chosen'
  OBVIOUS
<1>. DEFINE s == Rich!SourceOf(cache, k)
            p == Rich!Opened(ui, s)
<1>2. /\ ui.view = "overlay" /\ ui.kind # "ci" /\ link' = link /\ merging' = merging
      /\ Rich!Loaded(cache, k) /\ o = [p EXCEPT !.pinned = TRUE] /\ t = k[1]
      /\ \E keys : d \in {cache, Rich!Asked(cache, keys)}
  BY <1>1 DEF Rich!NextTab
<1>3. k[1] \in {"issue", "pr"} /\ k[2] = (IF k[1] = "issue" THEN link.issue ELSE link.pr)
  BY <1>1 DEF Rich!LinkedPr, Rich!LinkedIssue
<1>4. /\ s \in Rich!Source /\ s.kind = k[1] /\ s.number = k[2] /\ s.version = cache[k].version
      /\ k = <<k[1], k[2]>>
  BY <1>2, <1>3, SourceIs DEF RichIInv
<1>. HIDE DEF s
<1>5. /\ p \in Rich!Ui /\ p.view = "overlay" /\ p.kind = s.kind /\ p.pin = s.number /\ p.source = s
      /\ p.restored = FALSE /\ p.back = ui.back
  BY <1>4, OpenedIs DEF RichIInv, Whole
<1>. HIDE DEF p
<1>6. /\ o \in Rich!Ui /\ o.view = "overlay" /\ o.kind = s.kind /\ o.pin = s.number /\ o.source = s
      /\ o.restored = FALSE /\ o.back = ui.back /\ o.pinned = TRUE
  BY <1>2, <1>5 DEF Rich!Ui
<1>7. CacheOK(d) /\ NotNewer(cache, d)
  BY <1>2, CacheMoves DEF RichIInv, NotNewer
<1>8. ui.back = Rich!NoSource
  BY <1>2 DEF RichIInv, Whole, InView
<1>9. Whole(o, t)
  BY <1>2, <1>3, <1>4, <1>6, <1>8 DEF Whole, InView, Underneath
<1>10. Agrees(o, link)
  BY <1>3, <1>4, <1>6 DEF Agrees, Side
<1>11. Freshest(o, cache)
  BY <1>3, <1>4, <1>6 DEF Freshest, KeyOf
<1>12. Freshest(o, d)
  BY <1>7, <1>11, FreshStays
<1>. QED BY <1>1, <1>2, <1>3, <1>6, <1>7, <1>9, <1>10, <1>12 DEF RichIInv
LEMMA CloseKeeps == RichIInv /\ (Rich!CloseOverlay \/ Rich!DismissMerge) => RichIInv'
<1>. SUFFICES ASSUME RichIInv, Rich!CloseOverlay \/ Rich!DismissMerge PROVE RichIInv'
  OBVIOUS
<1>1. PICK g : g = ui'
  OBVIOUS
<1>2. /\ g \in {Rich!Closed(ui), Rich!Restored(ui)} /\ Rich!Closing /\ link' = link /\ cache' = cache
      /\ merging' = merging /\ ~ merging
  BY <1>1 DEF Rich!CloseOverlay, Rich!DismissMerge, RichIInv
<1>3. ui \in Rich!Ui /\ Underneath(ui, chosen)
  BY DEF RichIInv, Whole
<1>4. /\ Whole(g, chosen) /\ Agrees(g, link) /\ Freshest(g, cache)
      /\ g.view = "list" \/ (g.view = "overlay" /\ g.restored = TRUE)
  BY <1>2, <1>3, ClosedIs, RestoredIs
<1>. QED BY <1>1, <1>2, <1>4, Ends DEF RichIInv

LEMMA OpenBrowserKeeps == RichIInv /\ Rich!OpenBrowser => RichIInv'
<1>. SUFFICES ASSUME RichIInv, Rich!OpenBrowser PROVE RichIInv'
  OBVIOUS
<1>1. PICK o : o = ui'
  OBVIOUS
<1>2. ui.view = "overlay" /\ ui \in Rich!Ui
  BY DEF Rich!OpenBrowser, RichIInv, Whole
<1>3. o = [ui EXCEPT !.view = "pty", !.covered = "overlay"]
  BY <1>1 DEF Rich!OpenBrowser
<1>4. /\ o \in Rich!Ui /\ o.view = "pty" /\ o.covered = "overlay" /\ o.kind = ui.kind /\ o.pin = ui.pin
      /\ o.source = ui.source /\ o.back = ui.back /\ o.backPinned = ui.backPinned /\ o.pinned = ui.pinned
      /\ o.checks = ui.checks
  BY <1>2, <1>3 DEF Rich!Ui
<1>5. Whole(o, chosen)
  BY <1>2, <1>4 DEF RichIInv, Whole, InView, Underneath
<1>6. Agrees(o, link) /\ Freshest(o, cache)
  BY <1>4 DEF Agrees, Freshest
<1>7. link' = link /\ cache' = cache /\ merging' = merging /\ chosen' = chosen /\ ~ merging
  BY <1>2 DEF Rich!OpenBrowser, RichIInv
<1>. QED BY <1>1, <1>4, <1>5, <1>6, <1>7 DEF RichIInv

LEMMA CloseBrowserKeeps == RichIInv /\ Rich!CloseBrowser => RichIInv'
<1>. SUFFICES ASSUME RichIInv, Rich!CloseBrowser PROVE RichIInv'
  OBVIOUS
<1>1. PICK o : o = ui'
  OBVIOUS
<1>. DEFINE v == [ui EXCEPT !.view = ui.covered, !.covered = "list"]
            g == Rich!Guarded(v, link)
<1>2. /\ ui.view = "pty" /\ ui \in Rich!Ui /\ ui.covered = "overlay" /\ o = Rich!Resynced(g, link, cache)
      /\ Rich!Closing /\ link' = link /\ cache' = cache /\ merging' = merging
  BY <1>1 DEF Rich!CloseBrowser, RichIInv, Whole
<1>3. /\ v \in Rich!Ui /\ v.view = "overlay" /\ v.kind = ui.kind /\ v.pin = ui.pin
      /\ v.source = ui.source /\ v.back = ui.back /\ v.backPinned = ui.backPinned /\ v.pinned = ui.pinned
      /\ v.checks = ui.checks
  BY <1>2 DEF Rich!Ui
<1>. HIDE DEF v
<1>4. Whole(v, chosen) /\ Underneath(v, chosen)
  BY <1>2, <1>3 DEF RichIInv, Whole, InView, Underneath
<1>5. ASSUME v.pin # Side(v, link) PROVE Whole(g, chosen) /\ Agrees(g, link) /\ g.view # "pty"
  <2>1. g = Rich!Closed(v)
    BY <1>3, <1>5 DEF Rich!Guarded, Side
  <2>. HIDE DEF g
  <2>. QED BY <1>3, <1>4, <2>1, ClosedIs
<1>6. ASSUME v.pin = Side(v, link) PROVE Whole(g, chosen) /\ Agrees(g, link) /\ g.view # "pty"
  <2>1. g = v
    BY <1>3, <1>6 DEF Rich!Guarded, Side
  <2>. HIDE DEF g
  <2>. QED BY <1>3, <1>4, <1>6, <2>1 DEF Agrees
<1>7. Whole(g, chosen) /\ Agrees(g, link) /\ g.view # "pty"
  BY <1>5, <1>6
<1>. HIDE DEF g
<1>8. link \in Rich!Link /\ CacheOK(cache)
  BY DEF RichIInv
<1>9. Whole(o, chosen) /\ Agrees(o, link) /\ Freshest(o, cache)
  BY <1>2, <1>7, <1>8, ResyncedIs
<1>10. ~ merging /\ merging' = merging
  BY <1>2 DEF RichIInv
<1>11. o.view # "pty"
  BY <1>2, <1>7, <1>8, ResyncedIs
<1>. QED BY <1>1, <1>2, <1>8, <1>9, <1>10, <1>11, Ends DEF RichIInv

LEMMA MergeKeeps == RichIInv /\ (Rich!OpenMerge \/ Rich!ConfirmMerge) => RichIInv'
<1>. SUFFICES ASSUME RichIInv, Rich!OpenMerge \/ Rich!ConfirmMerge PROVE RichIInv'
  OBVIOUS
<1>1. CASE Rich!OpenMerge
  <2>1. PICK o : o = ui'
    OBVIOUS
  <2>. DEFINE r == Rich!Remembered(ui)
  <2>2. /\ ui.view = "list" \/ (ui.view = "overlay" /\ ui.kind # "ci")
        /\ o = [r EXCEPT !.view = "confirm"] /\ link' = link /\ cache' = cache /\ merging' = merging
        /\ chosen' = chosen
    BY <1>1, <2>1 DEF Rich!OpenMerge
  <2>3. r \in Rich!Ui /\ Underneath(r, chosen)
    BY <2>2, RememberedIs DEF RichIInv
  <2>. HIDE DEF r
  <2>4. o \in Rich!Ui /\ o.view = "confirm" /\ o.back = r.back /\ o.backPinned = r.backPinned
    BY <2>2, <2>3 DEF Rich!Ui
  <2>5. Whole(o, chosen) /\ Agrees(o, link) /\ Freshest(o, cache)
    BY <2>3, <2>4 DEF Whole, InView, Underneath, Agrees, Freshest
  <2>. QED BY <2>1, <2>2, <2>4, <2>5 DEF RichIInv
<1>2. CASE Rich!ConfirmMerge
  BY <1>2 DEF Rich!ConfirmMerge, RichIInv
<1>. QED BY <1>1, <1>2

LEMMA MergeLandsKeeps == RichIInv /\ Rich!MergeLands => RichIInv'
<1>. SUFFICES ASSUME RichIInv, Rich!MergeLands PROVE RichIInv'
  OBVIOUS
<1>1. CASE UNCHANGED <<link, cache, ui, chosen>>
  BY <1>1 DEF Rich!MergeLands, RichIInv
<1>2. CASE ~ UNCHANGED <<link, cache, ui, chosen>>
  <2>1. PICK l, g, d : l = link' /\ g = ui' /\ d = cache'
    OBVIOUS
  <2>. DEFINE r == Rich!Restored(ui)
  <2>2. /\ g = Rich!Guarded(r, l) /\ merging' = FALSE /\ Rich!Closing /\ d = Rich!Refreshed(cache, l)
        /\ ui.view = "confirm" /\ ui \in Rich!Ui /\ Underneath(ui, chosen)
    BY <1>2, <2>1 DEF Rich!MergeLands, RichIInv, Whole
  <2>3. l \in Rich!Link
    BY <1>2, <2>1 DEF Rich!MergeLands, RichIInv, Rich!Link
  <2>4. Whole(r, chosen) /\ Freshest(r, cache) /\ r.view # "pty"
    BY <2>2, RestoredIs
  <2>. HIDE DEF r
  <2>5. Whole(g, chosen) /\ Agrees(g, l) /\ Freshest(g, cache)
    BY <2>2, <2>4, GuardedIs
  <2>6. CacheOK(d) /\ NotNewer(cache, d)
    BY <2>2, CacheRefreshed DEF RichIInv
  <2>7. Freshest(g, d)
    BY <2>5, <2>6, FreshStays
  <2>8. g.view # "pty"
    BY <2>2, <2>4, ClosedIs DEF Rich!Guarded, Whole
  <2>. QED BY <2>1, <2>2, <2>3, <2>5, <2>6, <2>7, <2>8, Ends DEF RichIInv
<1>. QED BY <1>1, <1>2
\* A status that lands is the freshest of its number; the view takes it if it is of it.
LEMMA LandsKeeps ==
  ASSUME RichIInv, NEW k \in Rich!Kinds, Rich!Lands(k) PROVE RichIInv'
<1>1. PICK d, o : d = cache' /\ o = ui'
  OBVIOUS
<1>2. link' = link /\ merging' = merging
  BY DEF Rich!Lands
<1>3. CASE d = [cache EXCEPT ![k].phase = "error"] /\ UNCHANGED <<ui, chosen>>
  <2>1. CacheOK(d) /\ NotNewer(cache, d)
    BY <1>3 DEF RichIInv, CacheOK, NotNewer, Rich!Entry
  <2>2. Freshest(ui, d)
    BY <2>1, FreshStays DEF RichIInv
  <2>. QED BY <1>1, <1>2, <1>3, <2>1, <2>2 DEF RichIInv
<1>4. CASE ~ (d = [cache EXCEPT ![k].phase = "error"] /\ UNCHANGED <<ui, chosen>>)
  <2>1. PICK checks \in BOOLEAN, n \in {Rich!Version(k)} :
             /\ n = Rich!Version(k) /\ n <= MaxVersion
             /\ d = [cache EXCEPT ![k] = [phase |-> "loaded", version |-> n, checks |-> checks]]
             /\ Rich!Closing
             /\ k[1] = "issue" => o = Rich!Synced(ui, link, Rich!SourceOf(d, k))
             /\ k[1] = "pr" => o = Rich!Synced(Rich!SyncedCi(ui, link, k[2], d[k].version, checks),
                                               link, Rich!SourceOf(d, k))
             /\ k[1] = "threads" =>
                   \/ o = ui
                   \/ /\ Rich!Loaded(cache, Rich!LinkedPr(link))
                      /\ o = Rich!Synced(ui, link, Rich!SourceOf(cache, Rich!LinkedPr(link)))
    BY <1>1, <1>4 DEF Rich!Lands
  <2>2. /\ k[1] \in {"issue", "pr", "threads"} /\ k = <<k[1], k[2]>>
    BY DEF Rich!Kinds
  <2>3. n \in 1 .. MaxVersion
    <3>1. cache[k].version \in 0 .. MaxVersion
      BY DEF RichIInv, CacheOK, Rich!Entry
    <3>2. n = 1 \/ n = cache[k].version + 1
      BY <2>1 DEF Rich!Version
    <3>. QED BY <2>1, <3>1, <3>2, RichAssumption
  <2>4. CacheOK(d) /\ d[k].version = n /\ Rich!Loaded(d, k)
    <3>1. [phase |-> "loaded", version |-> n, checks |-> checks] \in Rich!Entry
      BY <2>3 DEF Rich!Entry
    <3>. QED BY <2>1, <2>3, <3>1 DEF RichIInv, CacheOK, Rich!Loaded
  <2>5. \A j \in Rich!Kinds \ {k} : d[j] = cache[j]
    BY <2>1 DEF RichIInv, CacheOK
  <2>6. link \in Rich!Link /\ Whole(ui, chosen) /\ Agrees(ui, link) /\ Freshest(ui, cache)
    BY DEF RichIInv
  <2>7. /\ Whole(o, chosen) /\ Agrees(o, link) /\ Freshest(o, d)
        /\ o = ui \/ (ui.view = "overlay" /\ o.view # "pty")
    <3>1. CASE k[1] \in {"issue", "pr"}
      <4>. DEFINE s == Rich!SourceOf(d, k)
                  m == IF k[1] = "pr" THEN Rich!SyncedCi(ui, link, k[2], d[k].version, checks) ELSE ui
      <4>1. s \in Rich!Source /\ s.kind = k[1] /\ s.number = k[2] /\ s.version = d[k].version
        BY <2>4, <3>1, SourceIs
      <4>2. Whole(m, chosen) /\ Agrees(m, link) /\ Freshest(m, cache)
            /\ (m = ui \/ (ui.view = "overlay" /\ m.view # "pty"))
        BY <2>3, <2>4, <2>6, SyncedCiIs
      <4>3. o = Rich!Synced(m, link, s)
        BY <2>1, <3>1
      <4>. HIDE DEF s, m
      <4>4. \A j \in Rich!Kinds \ {<<s.kind, s.number>>} : Rich!Loaded(d, j) => d[j] = cache[j] /\ Rich!Loaded(cache, j)
        BY <2>2, <2>5, <4>1 DEF Rich!Loaded
      <4>5. s.version = d[<<s.kind, s.number>>].version
        BY <2>2, <4>1
      <4>6. Freshest(Rich!Synced(m, link, s), d)
        BY <2>4, <4>1, <4>2, <4>4, <4>5, SyncedFresh
      <4>7. LET v == Rich!Synced(m, link, s) IN Whole(v, chosen) /\ Agrees(v, link) /\ v.view = m.view /\ (v = m \/ v.view = "overlay")
        BY <4>1, <4>2, SyncedIs
      <4>. QED BY <4>2, <4>3, <4>6, <4>7
    <3>2. CASE k[1] = "threads"
      <4>1. Freshest(ui, d)
        <5>. SUFFICES ASSUME ui.view = "overlay", ui.kind # "ci", ~ ui.restored, Rich!Loaded(d, KeyOf(ui))
                      PROVE  ui.source.version = d[KeyOf(ui)].version
          BY DEF Freshest
        <5>1. ui.source.kind \in {"issue", "pr"}
          BY <2>6 DEF Whole, InView, Rich!Source
        <5>2. KeyOf(ui) # k /\ KeyOf(ui) \in Rich!Kinds
          BY <2>2, <3>2, <5>1 DEF KeyOf, Rich!Loaded
        <5>3. d[KeyOf(ui)] = cache[KeyOf(ui)]
          BY <2>5, <5>2
        <5>. QED BY <2>6, <5>2, <5>3 DEF Freshest, Rich!Loaded
      <4>2. CASE o = ui
        BY <2>6, <4>1, <4>2
      <4>3. CASE o # ui
        <5>. DEFINE j == Rich!LinkedPr(link)
                    s == Rich!SourceOf(cache, j)
        <5>1. Rich!Loaded(cache, j) /\ o = Rich!Synced(ui, link, s)
          BY <2>1, <3>2, <4>3
        <5>2. j[1] = "pr" /\ j # k
          BY <2>2, <3>2 DEF Rich!LinkedPr
        <5>. HIDE DEF j
        <5>3. /\ s \in Rich!Source /\ s.kind = j[1] /\ s.number = j[2] /\ s.version = cache[j].version
              /\ j \in Rich!Kinds /\ j = <<j[1], j[2]>>
          BY <5>1, <5>2, SourceIs DEF RichIInv
        <5>. HIDE DEF s
        <5>4. s.version = d[<<s.kind, s.number>>].version
          BY <2>5, <5>2, <5>3
        <5>5. Freshest(Rich!Synced(ui, link, s), d)
          <6>1. \A i \in Rich!Kinds \ {<<s.kind, s.number>>} : Rich!Loaded(d, i) => d[i] = d[i] /\ Rich!Loaded(d, i)
            OBVIOUS
          <6>. QED BY <2>4, <2>6, <4>1, <5>3, <5>4, <6>1, SyncedFresh
        <5>6. LET v == Rich!Synced(ui, link, s) IN Whole(v, chosen) /\ Agrees(v, link) /\ v.view = ui.view /\ (v = ui \/ v.view = "overlay")
          BY <2>6, <5>3, SyncedIs
        <5>. QED BY <5>1, <5>5, <5>6
      <4>. QED BY <4>2, <4>3
    <3>. QED BY <2>2, <3>1, <3>2
  <2>8. Whole(ui', chosen') /\ chosen' \in {"none", "issue", "pr"} /\ (ui'.view = "list" => chosen' = "none")
    BY <1>1, <2>1, <2>7, Ends DEF RichIInv
  <2>9. (o.view = "pty" => o.covered = "overlay") /\ (merging => o.view = "confirm") /\ merging \in BOOLEAN
    BY <2>7 DEF RichIInv
  <2>. QED BY <1>1, <1>2, <2>4, <2>6, <2>7, <2>8, <2>9 DEF RichIInv
<1>. QED BY <1>3, <1>4

-----------------------------------------------------------------------------
LEMMA RichStep == RichIInv /\ [Rich!Next]_richVars => RichIInv'
<1>. SUFFICES ASSUME RichIInv, [Rich!Next]_richVars PROVE RichIInv'
  OBVIOUS
<1>1. CASE UNCHANGED richVars
  BY <1>1 DEF richVars, RichIInv
<1>2. CASE Rich!Navigate
  BY <1>2 DEF Rich!Navigate, RichIInv, Whole, Agrees, Freshest
<1>3. ASSUME NEW k \in Rich!Kinds, Rich!Lands(k) PROVE RichIInv'
  BY <1>3, LandsKeeps
<1>. QED BY <1>1, <1>2, <1>3, RelistKeeps, RefreshKeeps, OpenRichKeeps, OpenCiKeeps, NextTabKeeps,
            CloseKeeps, OpenBrowserKeeps, CloseBrowserKeeps, MergeKeeps, MergeLandsKeeps
         DEF Rich!Next

LEMMA RichStarts == OverlayInit => RichIInv
<1>. SUFFICES ASSUME OverlayInit PROVE RichIInv
  OBVIOUS
<1>. DEFINE c == [k \in Rich!Kinds |-> [phase |-> "idle", version |-> 0, checks |-> TRUE]]
            u == [view |-> "list", covered |-> "list", kind |-> "ci", pin |-> Nothing,
                  source |-> Rich!NoSource, pinned |-> FALSE, checks |-> 0,
                  back |-> Rich!NoSource, backPinned |-> FALSE, restored |-> FALSE]
<1>1. /\ ui = u /\ merging = FALSE /\ chosen = "none" /\ link \in Rich!Link
      /\ \E keys : cache \in {c, Rich!Asked(c, keys)}
  BY DEF OverlayInit, Rich!Init, Rich!RichRest, Rich!Link
<1>2. 0 \in 0 .. MaxVersion
  BY RichAssumption
<1>3. CacheOK(c)
  BY <1>2 DEF CacheOK, Rich!Entry
<1>4. CacheOK(cache)
  <2>. HIDE DEF c
  <2>. QED BY <1>1, <1>3, CacheMoves
<1>5. u \in Rich!Ui
  BY <1>2 DEF Rich!Ui
<1>6. u.view = "list" /\ u.back = Rich!NoSource
  OBVIOUS
<1>. HIDE DEF u
<1>. QED BY <1>1, <1>4, <1>5, <1>6 DEF RichIInv, Whole, InView, Underneath, Agrees, Freshest

LEMMA RichAlways == OverlaySpec => []RichIInv
<1>1. RichIInv /\ [OverlayNext]_overlayVars => RichIInv'
  <2>. SUFFICES ASSUME RichIInv, [OverlayNext]_overlayVars PROVE RichIInv'
    OBVIOUS
  <2>. QED BY RichAlone, RichStep
<1>. QED BY <1>1, RichStarts, PTL DEF OverlaySpec
-----------------------------------------------------------------------------
\* The reader has the freshest version of what is on the screen, and stays on the tab they
\* chose, through every landing, every view over it, and every relist (sync_rich_overlay,
\* resync_forge_overlay_from_cache, remember_rich_view).
THEOREM ReaderServed == OverlaySpec => []ReaderIsServed
<1>1. RichIInv => ReaderIsServed
  <2>. SUFFICES ASSUME RichIInv PROVE Rich!ReaderIsServed
    BY DEF ReaderIsServed
  <2>1. Rich!RichIsFreshest
    BY DEF RichIInv, Freshest, KeyOf, Rich!RichIsFreshest
  <2>2. Rich!ReaderKeepsTheirTab
    BY DEF RichIInv, Whole, InView, Rich!ReaderKeepsTheirTab
  <2>. QED BY <2>1, <2>2 DEF Rich!ReaderIsServed
<1>. QED BY <1>1, RichAlways, PTL

\* A view of the forge is about what its row is linked to, unless it came back from a view
\* over it; and a list of checks is not empty (close_forge_overlay_if_link_disagrees,
\* refresh_ci_overlay_on_pr_landing).
THEOREM ViewsAgree == OverlaySpec => [](over = "rich" => Rich!OverlayInv)
<1>1. RichIInv => Rich!OverlayInv
  <2>. SUFFICES ASSUME RichIInv PROVE Rich!OverlayInv
    OBVIOUS
  <2>1. Rich!TypeOK
    BY DEF RichIInv, CacheOK, Whole, Rich!TypeOK
  <2>2. Rich!OverlayAgreesWithLink
    BY DEF RichIInv, Agrees, Side, Rich!OverlayAgreesWithLink
  <2>3. Rich!CiNeverEmpty
    BY DEF RichIInv, Whole, InView, Rich!CiNeverEmpty
  <2>. QED BY <2>1, <2>2, <2>3 DEF Rich!OverlayInv
<1>. QED BY <1>1, RichAlways, PTL

\* The threads on the screen are there after a relist that leaves them on the screen: it
\* lets what is held through (rich_view_pr_number, #619).
THEOREM ThreadsHeld == OverlaySpec => ThreadsOnScreenAreHeld
<1>. DEFINE Held == (ui.view = "overlay" /\ ui.kind = "pr" /\ ui'.view = "overlay" /\ ui'.source = ui.source
                     /\ Rich!Loaded(cache, <<"threads", ui.pin>>) /\ Rich!Relist)
                    => Rich!Loaded(cache', <<"threads", ui.pin>>)
<1>1. RichIInv /\ [OverlayNext]_overlayVars => [Held]_(Rich!vars)
  <2>. SUFFICES ASSUME RichIInv, ui.view = "overlay", ui.kind = "pr", ui'.view = "overlay", ui'.source = ui.source,
                       Rich!Loaded(cache, <<"threads", ui.pin>>), Rich!Relist
                PROVE  Rich!Loaded(cache', <<"threads", ui.pin>>)
    OBVIOUS
  <2>1. PICK g, d, l : g = ui' /\ d = cache' /\ l = link'
    OBVIOUS
  <2>. DEFINE k == <<"threads", ui.pin>>
              e == Rich!Expired(cache, Rich!HeldThreads(g))
  <2>2. ui.source.kind = "pr" /\ ui.source.number = ui.pin
    BY DEF RichIInv, Whole, InView
  <2>3. k \in Rich!HeldThreads(g)
    BY <2>1, <2>2 DEF Rich!HeldThreads
  <2>4. k \in Rich!Kinds /\ cache[k].phase = "loaded"
    BY DEF Rich!Loaded
  <2>5. d = Rich!Asked(e, {Rich!LinkedPr(l), Rich!LinkedIssue(l)})
    BY <2>1 DEF Rich!Relist
  <2>. HIDE DEF k
  <2>6. e[k] = cache[k]
    BY <2>3, <2>4 DEF Rich!Expired
  <2>. HIDE DEF e
  <2>7. d[k] = e[k]
    BY <2>4, <2>5, <2>6 DEF Rich!Asked
  <2>8. Rich!Loaded(d, k)
    BY <2>4, <2>6, <2>7 DEF Rich!Loaded
  <2>. QED BY <2>1, <2>8 DEF k
<1>2. OverlaySpec => [][Held]_(Rich!vars)
  BY <1>1, RichAlways, PTL DEF OverlaySpec
<1>. QED BY <1>2 DEF ThreadsOnScreenAreHeld, Rich!ThreadsOnScreenAreHeld
-----------------------------------------------------------------------------
(* The programs.  What runs in the overlay is what the view shows.           *)

Quiet == {"bootstrap", "typing"} \cap Windows = {}

Views == {"list", "rich", "agents", "report", "picker", "pty"}
Programs == {"terminal", "git", "review", "browser", "exec"}
Job == [id : Nat, leader : BOOLEAN, rest : BOOLEAN]

Program(s, q, w, js, ds) ==
  /\ s \in Nat /\ w \in Views /\ q \in Pane!Ptys(1 .. s) \cup {Pane!NoPty}
  /\ w = "pty" <=> q # Pane!NoPty
  /\ q # Pane!NoPty => q.row = q.asked /\ q.reaped = q.finished /\ q.signalled = q.finished
  /\ js \subseteq Job /\ \A j \in js : q # Pane!NoPty /\ j.id = q.id /\ ~ q.finished
  /\ ds = IF q # Pane!NoPty /\ q.diff THEN {q.id} ELSE {}

\* The containers that are up have a name that was given, and are the overlay's or stuck.
Boxes(n, u, st, q) ==
  /\ n \in Nat /\ u \subseteq Rows \X (1 .. n)
  /\ u \subseteq st \cup IF q = Pane!NoPty THEN {} ELSE {q.box}

ProgramIInv ==
  /\ Program(started, pty, view, jobs, diffs) /\ Boxes(seq, up, stuck, pty)
  /\ selected \in Rows \cup {Pane!None} /\ (view = "picker" => picker.row \in Rows)
  /\ faults \subseteq {"unreviewed"}

LEMMA NoPtyIs ==
  ASSUME NEW ids, NEW q \in Pane!Ptys(ids) PROVE q # Pane!NoPty
<1>1. q.kind \in Programs
  BY DEF Pane!Ptys, Programs
<1>2. Pane!NoPty.kind = "none"
  BY DEF Pane!NoPty
<1>. QED BY <1>1, <1>2 DEF Programs

\* A program that is started over no other.
LEMMA OverlayStarts ==
  ASSUME Program(started, pty, view, jobs, diffs), view # "pty",
         NEW kind \in Programs, NEW row \in Rows, NEW diff \in BOOLEAN,
         NEW box \in (Rows \X Nat) \cup {Pane!NoBox}, NEW back \in {"list", "rich"},
         Pane!Overlay(kind, row, row, diff, box, back)
  PROVE  Program(started', pty', view', jobs', diffs') /\ pty' # Pane!NoPty /\ pty'.box = box /\ view' = "pty"
<1>1. PICK s, q, js, ds : s = started' /\ q = pty' /\ js = jobs' /\ ds = diffs'
  OBVIOUS
<1>2. pty = Pane!NoPty /\ jobs = {} /\ diffs = {} /\ started \in Nat
  BY DEF Program
<1>3. /\ s = started + 1 /\ view' = "pty"
      /\ q = [kind |-> kind, row |-> row, asked |-> row, id |-> s, finished |-> FALSE,
              reaped |-> FALSE, signalled |-> FALSE, diff |-> diff, box |-> box, back |-> back]
      /\ \E rest \in BOOLEAN : js = {[id |-> s, leader |-> TRUE, rest |-> rest]}
      /\ ds = IF diff THEN {s} ELSE {}
  BY <1>1, <1>2 DEF Pane!Overlay
<1>4. s \in Nat /\ s \in 1 .. s
  BY <1>2, <1>3
<1>5. /\ q \in Pane!Ptys(1 .. s) /\ q.row = q.asked /\ q.finished = FALSE /\ q.reaped = FALSE /\ q.signalled = FALSE
      /\ q.id = s /\ q.diff = diff /\ q.box = box
  BY <1>3, <1>4 DEF Pane!Ptys, Programs
<1>6. q # Pane!NoPty
  BY <1>5, NoPtyIs
<1>7. js \subseteq Job /\ \A j \in js : j.id = s
  BY <1>3, <1>4 DEF Job
<1>8. Program(s, q, "pty", js, ds)
  BY <1>3, <1>4, <1>5, <1>6, <1>7 DEF Program, Views
<1>. QED BY <1>1, <1>3, <1>5, <1>6, <1>8

\* The overlay is closed with all that is its own.
LEMMA ClosePtyIs ==
  ASSUME ProgramIInv, view = "pty", NEW now, Pane!ClosePty(now), UNCHANGED <<seq, selected, picker>>
  PROVE  ProgramIInv'
<1>1. PICK ids : pty \in Pane!Ptys(ids) /\ pty # Pane!NoPty
  BY DEF ProgramIInv, Program
<1>2. pty.reaped = pty.finished /\ pty.signalled = pty.finished /\ (\A j \in jobs : j.id = pty.id /\ ~ pty.finished)
  BY <1>1 DEF ProgramIInv, Program
<1>3. jobs' = {}
  BY <1>2 DEF Pane!ClosePty, Pane!Group
<1>4. diffs' = {} /\ pty' = Pane!NoPty /\ started' = started /\ started \in Nat
  BY DEF ProgramIInv, Program, Pane!ClosePty
<1>5. view' \in {"list", "rich"}
  BY <1>1 DEF Pane!ClosePty, Pane!Ptys
<1>6. faults' \subseteq {"unreviewed"}
  BY <1>2 DEF Pane!ClosePty, ProgramIInv
<1>7. Boxes(seq', up', stuck', pty')
  BY <1>1, <1>4 DEF ProgramIInv, Boxes, Pane!ClosePty, Pane!TornDown
<1>8. Program(started', pty', view', jobs', diffs')
  BY <1>3, <1>4, <1>5 DEF Program, Views
<1>. QED BY <1>5, <1>6, <1>7, <1>8 DEF ProgramIInv

-----------------------------------------------------------------------------
\* A branch that is its own base is so for the names after the upstream too.
LEMMA OwnBaseIsNext ==
  ASSUME NEW b \in Pane!Bases, Pane!ReviewBase(b) = "own" PROVE Pane!NextBase(b) = "own"
BY DEF Pane!ReviewBase

\* A browser that places itself does so beside what gives it a terminal.
LEMMA DetachedHasItsOwn ==
  ASSUME NEW b, Pane!BrowserPlan(b) = "detached" PROVE Pane!Detected # "none"
BY DEF Pane!BrowserPlan

\* A program, or none, with no container.
LEMMA UnboxedKeeps ==
  ASSUME ProgramIInv, view # "pty", NEW kind \in Programs, NEW row \in Rows, NEW diff \in BOOLEAN,
         NEW back \in {"list", "rich"},
         Pane!Overlay(kind, row, row, diff, Pane!NoBox, back) \/ Pane!NoOverlay,
         UNCHANGED <<selected, picker, seq, up, stuck>>, faults' \subseteq {"unreviewed"}
  PROVE  ProgramIInv'
<1>1. CASE Pane!Overlay(kind, row, row, diff, Pane!NoBox, back)
  <2>1. Program(started', pty', view', jobs', diffs') /\ pty' # Pane!NoPty /\ pty'.box = Pane!NoBox /\ view' = "pty"
    BY <1>1, OverlayStarts DEF ProgramIInv
  <2>2. Boxes(seq', up', stuck', pty')
    BY <2>1 DEF ProgramIInv, Boxes, Program
  <2>. QED BY <2>1, <2>2 DEF ProgramIInv
<1>2. CASE Pane!NoOverlay
  BY <1>2 DEF Pane!NoOverlay, ProgramIInv
<1>. QED BY <1>1, <1>2
LEMMA SubmitKeeps ==
  ASSUME ProgramIInv, NEW contained \in BOOLEAN, Pane!SubmitPicker(contained) PROVE ProgramIInv'
<1>. DEFINE n == IF contained THEN Pane!NextSeq(seq) ELSE seq
            row == picker.row
            box == IF contained THEN <<row, n>> ELSE Pane!NoBox
<1>1. /\ view = "picker" /\ row \in Rows /\ seq \in Nat /\ selected' = selected /\ picker' = picker
      /\ up \subseteq Rows \X (1 .. seq) /\ up \subseteq stuck \cup IF pty = Pane!NoPty THEN {} ELSE {pty.box}
      /\ pty = Pane!NoPty
  BY DEF Pane!SubmitPicker, ProgramIInv, Boxes, Program
<1>2. n \in Nat /\ (contained => n = seq + 1) /\ (~ contained => n = seq)
  BY <1>1 DEF Pane!NextSeq
<1>3. box \in (Rows \X Nat) \cup {Pane!NoBox} /\ (contained => box \in Rows \X (1 .. n))
  BY <1>1, <1>2
<1>4. box \notin up
  <2>1. CASE contained
    <3>1. box[2] = seq + 1
      BY <1>2, <2>1
    <3>. HIDE DEF box
    <3>2. \A b \in up : b[2] \in 1 .. seq
      BY <1>1
    <3>. QED BY <1>1, <3>1, <3>2
  <2>2. CASE ~ contained
    <3>1. box[2] = 0
      BY <2>2 DEF Pane!NoBox
    <3>. HIDE DEF box
    <3>2. \A b \in up : b[2] \in 1 .. seq
      BY <1>1
    <3>. QED BY <1>1, <3>1, <3>2
  <2>. QED BY <2>1, <2>2
<1>5. up \subseteq Rows \X (1 .. n)
  <2>1. 1 .. seq \subseteq 1 .. n
    BY <1>1, <1>2
  <2>. QED BY <1>1, <2>1
<1>6. CASE /\ Pane!Overlay("exec", row, row, FALSE, box, "list")
           /\ up' = IF contained THEN up \cup {box} ELSE up
           /\ faults' = IF box \in up THEN faults \cup {"clash"} ELSE faults
           /\ seq' = n /\ UNCHANGED stuck
  <2>. HIDE DEF n, box, row
  <2>1. Program(started', pty', view', jobs', diffs') /\ pty' # Pane!NoPty /\ pty'.box = box /\ view' = "pty"
    BY <1>1, <1>3, <1>6, OverlayStarts DEF ProgramIInv, Programs
  <2>2. faults' \subseteq {"unreviewed"}
    BY <1>4, <1>6 DEF ProgramIInv
  <2>3. Boxes(seq', up', stuck', pty')
    BY <1>1, <1>2, <1>3, <1>5, <1>6, <2>1 DEF Boxes
  <2>. QED BY <1>1, <2>1, <2>2, <2>3 DEF ProgramIInv
<1>7. CASE /\ view' = "list" /\ UNCHANGED <<pty, jobs, diffs, faults>>
           /\ \/ UNCHANGED <<started, seq, up, stuck>>
              \/ /\ contained /\ Pane!Room /\ started' = started + 1 /\ seq' = n
                 /\ \/ UNCHANGED <<up, stuck>>
                    \/ up' = up \cup {box} /\ stuck' = stuck \cup {box}
  <2>. HIDE DEF n, box, row
  <2>1. Program(started', pty', view', jobs', diffs')
    BY <1>1, <1>7 DEF ProgramIInv, Program, Views
  <2>2. Boxes(seq', up', stuck', pty')
    BY <1>1, <1>2, <1>3, <1>5, <1>7 DEF Boxes
  <2>. QED BY <1>1, <1>7, <2>1, <2>2 DEF ProgramIInv
<1>. QED BY <1>6, <1>7 DEF Pane!SubmitPicker, Pane!Target, Pane!BoxOf

\* What has run to its end stays, and its group has gone.
LEMMA TickKeeps ==
  ASSUME ProgramIInv, Pane!Tick PROVE ProgramIInv'
<1>1. CASE pty.kind # "exec"
  BY <1>1, ClosePtyIs DEF Pane!Tick
<1>2. CASE pty.kind = "exec"
  <2>1. PICK q : q = pty'
    OBVIOUS
  <2>2. PICK ids : pty \in Pane!Ptys(ids) /\ pty # Pane!NoPty /\ ids = 1 .. started
    BY DEF ProgramIInv, Program, Pane!Tick
  <2>3. q = [pty EXCEPT !.finished = TRUE, !.reaped = TRUE, !.signalled = TRUE]
        /\ jobs' = IF q.signalled THEN jobs \ Pane!Group(pty) ELSE jobs
    BY <1>2, <2>1 DEF Pane!Tick, Pane!Finished
  <2>4. /\ q \in Pane!Ptys(ids) /\ q.finished = TRUE /\ q.reaped = TRUE /\ q.signalled = TRUE
        /\ q.row = pty.row /\ q.asked = pty.asked /\ q.id = pty.id /\ q.box = pty.box /\ q.diff = pty.diff
    BY <2>2, <2>3 DEF Pane!Ptys
  <2>5. q # Pane!NoPty
    BY <2>4, NoPtyIs
  <2>6. jobs' = {}
    BY <2>2, <2>3, <2>4 DEF ProgramIInv, Program, Pane!Group
  <2>7. UNCHANGED <<view, started, up, stuck, diffs, faults, seq, selected, picker>> /\ view = "pty"
    BY <1>2 DEF Pane!Tick
  <2>8. Program(started, q, view, {}, diffs)
    BY <2>2, <2>4, <2>5, <2>7 DEF ProgramIInv, Program
  <2>9. Boxes(seq, up, stuck, q)
    BY <2>2, <2>4, <2>5 DEF ProgramIInv, Boxes
  <2>. QED BY <2>1, <2>6, <2>7, <2>8, <2>9 DEF ProgramIInv
<1>. QED BY <1>1, <1>2

\* A program's end leaves what it left in the background, in its group.
LEMMA LeaderExitsKeeps ==
  ASSUME ProgramIInv, NEW j \in jobs, Pane!LeaderExits(j) PROVE ProgramIInv'
<1>1. [j EXCEPT !.leader = FALSE] \in Job /\ [j EXCEPT !.leader = FALSE].id = j.id
  BY DEF ProgramIInv, Program, Job
<1>2. jobs' \subseteq jobs \cup {[j EXCEPT !.leader = FALSE]}
  BY DEF Pane!LeaderExits
<1>3. Program(started, pty, view, jobs', diffs)
  BY <1>1, <1>2 DEF ProgramIInv, Program
<1>4. up' \subseteq up /\ UNCHANGED <<started, pty, view, diffs, seq, stuck, selected, picker, faults>>
  BY DEF Pane!LeaderExits
<1>5. Boxes(seq, up', stuck, pty)
  BY <1>4 DEF ProgramIInv, Boxes
<1>. QED BY <1>3, <1>4, <1>5 DEF ProgramIInv

\* Another view, when no program is on the screen.
LEMMA LeaveKeeps ==
  ASSUME ProgramIInv, view # "pty", view' \in Views \ {"pty"}, view' = "picker" => picker'.row \in Rows,
         UNCHANGED <<selected, seq, started, pty, jobs, up, stuck, diffs, faults>>
  PROVE  ProgramIInv'
BY DEF ProgramIInv, Program

LEMMA ProgramStep ==
  ASSUME ProgramIInv, Quiet, [Pane!PaneNext]_paneVars PROVE ProgramIInv'
<1>1. ASSUME NEW kind \in {"terminal", "git"}, Pane!StartTerminal(kind) PROVE ProgramIInv'
  <2>1. view # "pty" /\ UNCHANGED <<selected, picker, seq, up, stuck, faults>>
    BY <1>1 DEF Pane!StartTerminal
  <2>2. CASE selected # Pane!None /\ Pane!Overlay(kind, selected, selected, FALSE, Pane!NoBox, "list")
    BY <2>1, <2>2, UnboxedKeeps DEF ProgramIInv, Programs
  <2>3. CASE Pane!NoOverlay
    BY <2>1, <2>3 DEF ProgramIInv, Pane!NoOverlay
  <2>. QED BY <1>1, <2>2, <2>3 DEF Pane!StartTerminal
<1>2. ASSUME NEW b \in Pane!Bases, NEW commits, NEW skip \in BOOLEAN, Pane!Review(b, commits, skip)
      PROVE  ProgramIInv'
  <2>1. view # "pty" /\ UNCHANGED <<selected, picker, seq, up, stuck>>
    BY <1>2 DEF Pane!Review
  <2>4. faults' \subseteq {"unreviewed"}
    BY <1>2, OwnBaseIsNext DEF Pane!Review, ProgramIInv
  <2>2. CASE selected # Pane!None
             /\ \E diff \in BOOLEAN : Pane!Overlay("review", selected, selected, diff, Pane!NoBox, "list")
    BY <2>1, <2>2, <2>4, UnboxedKeeps DEF ProgramIInv, Programs
  <2>3. CASE Pane!NoOverlay
    BY <2>1, <2>3, <2>4 DEF ProgramIInv, Pane!NoOverlay
  <2>. QED BY <1>2, <2>2, <2>3 DEF Pane!Review
<1>3. ASSUME NEW inPane \in BOOLEAN, Pane!Macro(inPane) PROVE ProgramIInv'
  <2>1. view # "pty" /\ selected # Pane!None /\ UNCHANGED <<selected, picker, seq, up, stuck, faults>>
    BY <1>3 DEF Pane!Macro
  <2>2. Pane!Overlay("terminal", selected, selected, FALSE, Pane!NoBox, "list") \/ Pane!NoOverlay
    BY <1>3 DEF Pane!Macro
  <2>. QED BY <2>1, <2>2, UnboxedKeeps DEF ProgramIInv, Programs
<1>4. ASSUME NEW b \in Pane!Browsers, Pane!OpenUrl(b) PROVE ProgramIInv'
  <2>1. view \in {"list", "rich"} /\ selected # Pane!None /\ UNCHANGED <<selected, picker, seq, up, stuck>>
    BY <1>4 DEF Pane!OpenUrl
  <2>2. UNCHANGED faults
    BY <1>4, DetachedHasItsOwn DEF Pane!OpenUrl
  <2>3. Pane!Overlay("browser", selected, selected, FALSE, Pane!NoBox, view) \/ Pane!NoOverlay
    BY <1>4 DEF Pane!OpenUrl
  <2>. QED BY <2>1, <2>2, <2>3, UnboxedKeeps DEF ProgramIInv, Programs
<1>5. CASE Pane!OpenPicker
  <2>1. picker' = [row |-> selected] /\ selected \in Rows
    BY <1>5 DEF Pane!OpenPicker, ProgramIInv
  <2>. QED BY <1>5, <2>1, LeaveKeeps DEF Pane!OpenPicker, Views
<1>6. CASE Pane!CancelPicker \/ Pane!Leave
  BY <1>6, LeaveKeeps DEF Pane!CancelPicker, Pane!Leave, Views
<1>7. CASE Pane!LandBootstrap
  BY <1>7, LeaveKeeps DEF Pane!LandBootstrap, Views, Quiet
<1>8. ASSUME NEW row \in Rows \cup {Pane!None}, Pane!Drift(row) PROVE ProgramIInv'
  BY <1>8 DEF Pane!Drift, ProgramIInv
<1>9. CASE Pane!CloseKey
  BY <1>9, ClosePtyIs DEF Pane!CloseKey
<1>10. CASE UNCHANGED <<selected, view, picker, seq, started, pty, jobs, up, stuck, diffs, faults>>
  BY <1>10 DEF ProgramIInv
<1>11. CASE UNCHANGED paneVars
  BY <1>10, <1>11 DEF paneVars
<1>12. CASE Pane!OpenInMux
  BY <1>10, <1>12 DEF Pane!OpenInMux, Pane!NoOverlay
<1>13. ASSUME NEW mux, NEW row, NEW m, Pane!CliOpen(mux, row, m) PROVE ProgramIInv'
  BY <1>10, <1>13 DEF Pane!CliOpen, Pane!NoOverlay
<1>14. ASSUME NEW row, NEW safe, Pane!Resume(row, safe) PROVE ProgramIInv'
  BY <1>10, <1>14 DEF Pane!Resume
<1>15. CASE Pane!WorkerOpens \/ Pane!WorkerWaits \/ Pane!WorkerTypes \/ Pane!WorkerLands
  BY <1>10, <1>15 DEF Pane!WorkerOpens, Pane!WorkerWaits, Pane!WorkerTypes, Pane!WorkerLands
<1>16. ASSUME NEW p, NEW s, Pane!Shell(p, s) PROVE ProgramIInv'
  BY <1>10, <1>16 DEF Pane!Shell
<1>. QED BY <1>1, <1>2, <1>3, <1>4, <1>5, <1>6, <1>7, <1>8, <1>9, <1>11, <1>12, <1>13, <1>14, <1>15, <1>16,
            SubmitKeeps, TickKeeps, LeaderExitsKeeps DEF Pane!PaneNext
-----------------------------------------------------------------------------
(* The panes.  Each has a number of its own, and one that was opened for a command runs
   it, or is excused, or is what the worker waits for and types into.        *)

PaneKind == [id : Nat, mux : Pane!Muxes, row : Rows, for : {"macro", "shell", "browser", "resume"},
             runs : BOOLEAN, shell : {"busy", "idle", "gone"}, excused : BOOLEAN]

Pool(P) ==
  /\ IsFiniteSet(P) /\ P \subseteq PaneKind
  /\ \A p \in P : p.mux \in env /\ p.id \in 1 .. Cardinality(P)
  /\ \A p, q \in P : p.id = q.id => p = q

Served(p, w) == p.runs \/ p.excused \/ (w.phase \in {"wait", "type"} /\ w.pane = p.id)

Work(w, P) ==
  /\ w = Pane!NoWorker \/ w \in [phase : {"open", "wait", "type", "resumed", "failed"}, row : Rows, pane : Nat]
  /\ w # Pane!NoWorker => "herdr" \in env /\ w.pane <= Cardinality(P)
  /\ w.phase = "type" => \A p \in P : p.id = w.pane => p.shell # "busy"

PoolIInv ==
  /\ env \subseteq Pane!Muxes /\ mode \in Pane!Modes /\ Pool(panes)
  /\ Work(worker, panes) /\ \A p \in panes : Served(p, worker)

LEMMA SameCount == \A S : Pane!Cardinality(S) = Cardinality(S)
BY DEF Pane!Cardinality, Cardinality

LEMMA NoWorkerIs == Pane!NoWorker.phase = "none"
BY DEF Pane!NoWorker

\* A new pane has the next number.
LEMMA Grown ==
  ASSUME NEW P, Pool(P), NEW p \in PaneKind, p.mux \in env, p.id = Cardinality(P) + 1
  PROVE  Pool(P \cup {p}) /\ Cardinality(P \cup {p}) = Cardinality(P) + 1 /\ Cardinality(P) \in Nat
<1>1. Cardinality(P) \in Nat
  BY FS_CardinalityType DEF Pool
<1>2. p \notin P
  BY <1>1 DEF Pool
<1>3. IsFiniteSet(P \cup {p}) /\ Cardinality(P \cup {p}) = Cardinality(P) + 1
  BY <1>2, FS_AddElement DEF Pool
<1>4. \A q \in P : q.id \in 1 .. Cardinality(P)
  BY DEF Pool
<1>5. \A q \in P \cup {p} : q.mux \in env /\ q.id \in 1 .. Cardinality(P \cup {p})
  BY <1>1, <1>3, <1>4 DEF Pool
<1>6. \A q, r \in P \cup {p} : q.id = r.id => q = r
  BY <1>1, <1>4 DEF Pool
<1>. QED BY <1>1, <1>3, <1>5, <1>6 DEF Pool

\* A pane that changes keeps its number.
LEMMA Swapped ==
  ASSUME NEW P, Pool(P), NEW q \in P, NEW r \in PaneKind, r.id = q.id, r.mux = q.mux
  PROVE  LET Q == (P \ {q}) \cup {r} IN
         /\ Pool(Q) /\ Cardinality(Q) = Cardinality(P)
         /\ \A p \in Q : p = r \/ (p \in P /\ p.id # q.id)
<1>. DEFINE R == P \ {q}
            Q == R \cup {r}
<1>1. Cardinality(P) \in Nat
  BY FS_CardinalityType DEF Pool
<1>2. IsFiniteSet(R) /\ Cardinality(R) = Cardinality(P) - 1
  BY FS_RemoveElement DEF Pool
<1>3. \A p \in R : p \in P /\ p.id # q.id
  BY DEF Pool
<1>4. r \notin R
  BY <1>3
<1>. HIDE DEF R
<1>5. IsFiniteSet(Q) /\ Cardinality(Q) = Cardinality(P)
  <2>1. IsFiniteSet(Q) /\ Cardinality(Q) = Cardinality(R) + 1
    BY <1>2, <1>4, FS_AddElement
  <2>. QED BY <1>1, <1>2, <2>1
<1>6. \A p \in Q : p = r \/ (p \in P /\ p.id # q.id)
  BY <1>3
<1>. HIDE DEF Q
<1>7. Q \subseteq PaneKind
  BY <1>6 DEF Pool
<1>8. \A p \in Q : p.mux \in env /\ p.id \in 1 .. Cardinality(Q)
  BY <1>5, <1>6 DEF Pool
<1>9. \A p, s \in Q : p.id = s.id => p = s
  BY <1>6 DEF Pool
<1>10. Pool(Q)
  BY <1>5, <1>7, <1>8, <1>9 DEF Pool
<1>. QED BY <1>5, <1>6, <1>10 DEF Q, R

\* Of the multiplexers that are there.
LEMMA DetectedIs == Pane!Detected \in env \cup {"none"} /\ Pane!MacroMux \in env \cup {"none"}
BY DEF Pane!Detected, Pane!MacroMux

LEMMA CommandsRun ==
  ASSUME NEW mux \in Pane!Muxes, ~ Pane!MacroRefusal(mux, mode) PROVE Pane!Runs(mux, mode)
BY DEF Pane!MacroRefusal, Pane!Runs, Pane!Muxes

\* A pane that runs what it was opened for.
LEMMA NewPaneKeeps ==
  ASSUME PoolIInv, NEW mux \in env, NEW row \in Rows, NEW for \in {"macro", "shell", "browser", "resume"},
         NEW runs \in BOOLEAN, runs,
         panes' = panes \cup {Pane!NewPane(mux, row, for, runs)}, UNCHANGED <<env, mode, worker>>
  PROVE  PoolIInv'
<1>. DEFINE p == Pane!NewPane(mux, row, for, runs)
<1>1. PICK P : P = panes'
  OBVIOUS
<1>2. Cardinality(panes) \in Nat
  BY FS_CardinalityType DEF PoolIInv, Pool
<1>3. /\ p \in PaneKind /\ p.mux = mux /\ p.id = Cardinality(panes) + 1 /\ p.runs = runs
  BY <1>2, SameCount DEF Pane!NewPane, PaneKind, PoolIInv
<1>. HIDE DEF p
<1>4. Pool(P) /\ Cardinality(P) = Cardinality(panes) + 1
  BY <1>1, <1>3, Grown DEF PoolIInv, p
<1>5. Work(worker, P)
  <2>1. worker # Pane!NoWorker => worker.pane \in Nat /\ worker.pane <= Cardinality(panes)
    BY DEF PoolIInv, Work
  <2>2. worker.phase = "type" => worker # Pane!NoWorker
    BY NoWorkerIs
  <2>3. worker.phase = "type" => p.id # worker.pane
    BY <1>2, <1>3, <2>1, <2>2
  <2>4. P = panes \cup {p}
    BY <1>1 DEF p
  <2>5. worker.phase = "type" => \A q \in P : q.id = worker.pane => q.shell # "busy"
    BY <2>3, <2>4 DEF PoolIInv, Work
  <2>. QED BY <1>2, <1>4, <2>1, <2>5 DEF PoolIInv, Work
<1>6. \A q \in P : Served(q, worker)
  BY <1>1, <1>3 DEF PoolIInv, Served, p
<1>. QED BY <1>1, <1>4, <1>5, <1>6 DEF PoolIInv, Pool, Work
\* What the worker says of its pane leaves every other as it is.
Said(P, pane, ok) ==
  {IF p.id = pane THEN [p EXCEPT !.excused = ~ ok, !.runs = ok /\ p.shell = "idle"] ELSE p : p \in P}

LEMMA AnsweredIs ==
  ASSUME NEW P, Pool(P), NEW pane, NEW ok \in BOOLEAN
  PROVE  LET Q == Said(P, pane, ok)
         IN  /\ Pool(Q) /\ Cardinality(Q) = Cardinality(P)
             /\ \A p \in Q : \/ p \in P /\ p.id # pane
                             \/ \E q \in P : q.id = pane /\ p.excused = ~ ok /\ p.runs = (ok /\ q.shell = "idle")
<1>. DEFINE A(p) == [p EXCEPT !.excused = ~ ok, !.runs = ok /\ p.shell = "idle"]
            Q == Said(P, pane, ok)
<1>1. CASE \A p \in P : p.id # pane
  <2>1. Q = P
    BY <1>1 DEF Said
  <2>. QED BY <1>1, <2>1
<1>2. CASE \E p \in P : p.id = pane
  <2>1. PICK q \in P : q.id = pane
    BY <1>2
  <2>2. PICK r : r = A(q)
    OBVIOUS
  <2>3. (ok /\ q.shell = "idle") \in BOOLEAN /\ (~ ok) \in BOOLEAN /\ q \in PaneKind
    BY DEF Pool
  <2>4. r \in PaneKind /\ r.id = q.id /\ r.mux = q.mux /\ r.excused = ~ ok /\ r.runs = (ok /\ q.shell = "idle")
    BY <2>2, <2>3 DEF PaneKind
  <2>5. \A p \in P : p.id = pane => p = q
    BY <2>1 DEF Pool
  <2>6. Q = (P \ {q}) \cup {r}
    BY <2>1, <2>2, <2>5 DEF Said
  <2>. HIDE DEF Q
  <2>7. Pool(Q) /\ Cardinality(Q) = Cardinality(P) /\ \A p \in Q : p = r \/ (p \in P /\ p.id # q.id)
    BY <2>4, <2>6, Swapped
  <2>8. \A p \in Q : \/ p \in P /\ p.id # pane
                     \/ \E s \in P : s.id = pane /\ p.excused = ~ ok /\ p.runs = (ok /\ s.shell = "idle")
    BY <2>1, <2>4, <2>7
  <2>. QED BY <2>7, <2>8 DEF Q
<1>. QED BY <1>1, <1>2

LEMMA AnsweredKeeps ==
  ASSUME PoolIInv, worker # Pane!NoWorker, NEW pane, NEW ok \in BOOLEAN, Pane!Answered(pane, ok),
         worker.phase \in {"wait", "type"} => pane = worker.pane,
         ok => \A p \in panes : p.id = pane => p.shell = "idle", UNCHANGED <<env, mode>>
  PROVE  PoolIInv'
<1>1. PICK Q, w : Q = panes' /\ w = worker'
  OBVIOUS
<1>2. /\ Pool(Q) /\ Cardinality(Q) = Cardinality(panes)
      /\ \A p \in Q : \/ p \in panes /\ p.id # pane
                      \/ \E q \in panes : q.id = pane /\ p.excused = ~ ok /\ p.runs = (ok /\ q.shell = "idle")
  <2>1. Q = Said(panes, pane, ok)
    BY <1>1 DEF Pane!Answered, Said
  <2>2. Pool(panes)
    BY DEF PoolIInv
  <2>. QED BY <2>1, <2>2, AnsweredIs
<1>3. /\ w.phase = (IF ok THEN "resumed" ELSE "failed")
      /\ w \in [phase : {"open", "wait", "type", "resumed", "failed"}, row : Rows, pane : Nat]
      /\ w.pane = worker.pane
  BY <1>1 DEF Pane!Answered, PoolIInv, Work
<1>4. Work(w, Q)
  <2>1. "herdr" \in env /\ worker.pane <= Cardinality(panes)
    BY DEF PoolIInv, Work
  <2>. QED BY <1>2, <1>3, <2>1 DEF Work
<1>5. \A p \in Q : p.runs \/ p.excused
  <2>. SUFFICES ASSUME NEW p \in Q PROVE p.runs \/ p.excused
    OBVIOUS
  <2>1. CASE p \in panes /\ p.id # pane
    BY <2>1 DEF PoolIInv, Served
  <2>2. CASE \E q \in panes : q.id = pane /\ p.excused = ~ ok /\ p.runs = (ok /\ q.shell = "idle")
    BY <2>2
  <2>. QED BY <1>2, <2>1, <2>2
<1>6. \A p \in Q : Served(p, w)
  BY <1>5 DEF Served
<1>. QED BY <1>1, <1>2, <1>4, <1>6 DEF PoolIInv, Pool, Work

LEMMA WorkerOpensKeeps ==
  ASSUME PoolIInv, Pane!WorkerOpens PROVE PoolIInv'
<1>0. worker.phase = "open" /\ worker # Pane!NoWorker /\ UNCHANGED <<env, mode>>
  BY NoWorkerIs DEF Pane!WorkerOpens
<1>1. CASE Pane!Answered(Pane!None, FALSE)
  BY <1>0, <1>1, AnsweredKeeps
<1>2. CASE ~ Pane!Answered(Pane!None, FALSE)
  <2>. DEFINE p == Pane!NewPane("herdr", worker.row, "resume", FALSE)
              x == [p EXCEPT !.excused = TRUE]
  <2>1. Cardinality(panes) \in Nat
    BY FS_CardinalityType DEF PoolIInv, Pool
  <2>2. /\ p \in PaneKind /\ p.mux = "herdr" /\ p.id = Cardinality(panes) + 1 /\ p.id \in Nat
        /\ x \in PaneKind /\ x.mux = "herdr" /\ x.id = Cardinality(panes) + 1 /\ x.excused = TRUE
    <3>1. worker.row \in Rows /\ "herdr" \in Pane!Muxes
      BY <1>0 DEF PoolIInv, Work, Pane!Muxes
    <3>2. p \in PaneKind /\ p.mux = "herdr" /\ p.id = Cardinality(panes) + 1
      BY <2>1, <3>1, SameCount DEF Pane!NewPane, PaneKind
    <3>. HIDE DEF p
    <3>3. x \in PaneKind /\ x.mux = p.mux /\ x.id = p.id /\ x.excused = TRUE
      BY <3>2 DEF PaneKind
    <3>. QED BY <2>1, <3>2, <3>3
  <2>3. \/ panes' = panes \cup {p} /\ worker' = [worker EXCEPT !.phase = "wait", !.pane = p.id]
        \/ panes' = panes \cup {x} /\ worker' = [worker EXCEPT !.phase = "failed"]
    BY <1>2 DEF Pane!WorkerOpens
  <2>. HIDE DEF p, x
  <2>4. \A q \in panes : q.runs \/ q.excused
    BY <1>0 DEF PoolIInv, Served
  <2>5. /\ worker \in [phase : {"open", "wait", "type", "resumed", "failed"}, row : Rows, pane : Nat]
        /\ "herdr" \in env /\ worker.pane <= Cardinality(panes)
    BY <1>0 DEF PoolIInv, Work
  <2>6. PICK P, w : P = panes' /\ w = worker'
    OBVIOUS
  <2>7. CASE P = panes \cup {p} /\ w = [worker EXCEPT !.phase = "wait", !.pane = p.id]
    <3>1. Pool(P) /\ Cardinality(P) = Cardinality(panes) + 1
      BY <2>2, <2>5, <2>7, Grown DEF PoolIInv
    <3>2. /\ w \in [phase : {"open", "wait", "type", "resumed", "failed"}, row : Rows, pane : Nat]
          /\ w.phase = "wait" /\ w.pane = p.id
      BY <2>2, <2>5, <2>7
    <3>3. Work(w, P)
      BY <2>1, <2>2, <2>5, <3>1, <3>2 DEF Work
    <3>4. \A q \in P : Served(q, w)
      BY <2>4, <2>7, <3>2 DEF Served
    <3>. QED BY <1>0, <2>6, <3>1, <3>3, <3>4 DEF PoolIInv, Pool, Work
  <2>8. CASE P = panes \cup {x} /\ w = [worker EXCEPT !.phase = "failed"]
    <3>1. Pool(P) /\ Cardinality(P) = Cardinality(panes) + 1
      BY <2>2, <2>5, <2>8, Grown DEF PoolIInv
    <3>2. /\ w \in [phase : {"open", "wait", "type", "resumed", "failed"}, row : Rows, pane : Nat]
          /\ w.phase = "failed" /\ w.pane = worker.pane
      BY <2>5, <2>8
    <3>3. Work(w, P)
      BY <2>1, <2>5, <3>1, <3>2 DEF Work
    <3>4. \A q \in P : Served(q, w)
      BY <2>2, <2>4, <2>8 DEF Served
    <3>. QED BY <1>0, <2>6, <3>1, <3>3, <3>4 DEF PoolIInv, Pool, Work
  <2>. QED BY <2>3, <2>6, <2>7, <2>8
<1>. QED BY <1>1, <1>2

\* The shell of the pane is up when it is typed into, or has gone.
LEMMA WorkerWaitsKeeps ==
  ASSUME PoolIInv, Pane!WorkerWaits PROVE PoolIInv'
<1>0. worker.phase = "wait" /\ worker # Pane!NoWorker /\ UNCHANGED <<env, mode>>
  BY NoWorkerIs DEF Pane!WorkerWaits
<1>1. CASE Pane!Answered(worker.pane, FALSE)
  BY <1>0, <1>1, AnsweredKeeps
<1>2. CASE Pane!Idle(worker.pane) /\ worker' = [worker EXCEPT !.phase = "type"] /\ UNCHANGED panes
  <2>1. PICK w : w = worker'
    OBVIOUS
  <2>2. /\ w \in [phase : {"open", "wait", "type", "resumed", "failed"}, row : Rows, pane : Nat]
        /\ w.phase = "type" /\ w.pane = worker.pane
    BY <1>0, <1>2, <2>1 DEF PoolIInv, Work
  <2>3. \A p \in panes : p.id = w.pane => p.shell # "busy"
    BY <1>2, <2>2 DEF Pane!Idle, PoolIInv, Pool
  <2>4. Work(w, panes)
    BY <1>0, <2>2, <2>3 DEF PoolIInv, Work
  <2>5. \A p \in panes : Served(p, w)
    BY <1>0, <2>2 DEF PoolIInv, Served
  <2>. QED BY <1>0, <1>2, <2>1, <2>4, <2>5 DEF PoolIInv, Pool, Work
<1>. QED BY <1>1, <1>2 DEF Pane!WorkerWaits

LEMMA WorkerTypesKeeps ==
  ASSUME PoolIInv, Pane!WorkerTypes PROVE PoolIInv'
<1>0. worker.phase = "type" /\ worker # Pane!NoWorker /\ UNCHANGED <<env, mode>>
  BY NoWorkerIs DEF Pane!WorkerTypes
<1>1. PICK ok \in BOOLEAN : /\ ok => \E p \in panes : p.id = worker.pane /\ p.shell # "gone"
                            /\ Pane!Answered(worker.pane, ok)
  BY DEF Pane!WorkerTypes
<1>2. ok => \A p \in panes : p.id = worker.pane => p.shell = "idle"
  BY <1>0, <1>1 DEF PoolIInv, Work, Pool, PaneKind
<1>. QED BY <1>0, <1>1, <1>2, AnsweredKeeps

LEMMA ShellKeeps ==
  ASSUME PoolIInv, Quiet, NEW p \in panes, NEW s \in {"busy", "idle", "gone"}, Pane!Shell(p, s) PROVE PoolIInv'
<1>1. PICK Q, r : Q = panes' /\ r = [p EXCEPT !.shell = s]
  OBVIOUS
<1>2. Q = (panes \ {p}) \cup {r} /\ UNCHANGED <<env, mode, worker>>
  BY <1>1 DEF Pane!Shell
<1>3. /\ r \in PaneKind /\ r.id = p.id /\ r.mux = p.mux /\ r.shell = s /\ r.runs = p.runs /\ r.excused = p.excused
  BY <1>1 DEF PoolIInv, Pool, PaneKind
<1>4. Pool(Q) /\ Cardinality(Q) = Cardinality(panes) /\ \A q \in Q : q = r \/ (q \in panes /\ q.id # p.id)
  BY <1>2, <1>3, Swapped DEF PoolIInv
<1>5. s # "busy"
  BY DEF Pane!Shell, Quiet
<1>6. worker.phase = "type" => \A q \in Q : q.id = worker.pane => q.shell # "busy"
  BY <1>3, <1>4, <1>5 DEF PoolIInv, Work
<1>7. Work(worker, Q)
  BY <1>4, <1>6 DEF PoolIInv, Work
<1>8. \A q \in Q : Served(q, worker)
  BY <1>3, <1>4 DEF PoolIInv, Served
<1>. QED BY <1>1, <1>2, <1>4, <1>7, <1>8 DEF PoolIInv, Pool, Work
LEMMA PoolStep ==
  ASSUME PoolIInv, Quiet, Rows \subseteq Nat, selected \in Rows \cup {Pane!None}, [Pane!PaneNext]_paneVars
  PROVE  PoolIInv'
<1>1. CASE UNCHANGED <<env, mode, panes, worker>>
  BY <1>1 DEF PoolIInv, Pool, Work
<1>2. ASSUME NEW inPane \in BOOLEAN, Pane!Macro(inPane) PROVE PoolIInv'
  <2>. DEFINE mux == Pane!MacroMux
  <2>1. CASE inPane /\ mux # "none" /\ panes' = panes \cup {Pane!NewPane(mux, selected, "macro", Pane!Runs(mux, mode))}
    <3>1. mux = Pane!Detected /\ ~ Pane!MacroRefusal(mux, mode) /\ mux \in env
      BY <2>1, DetectedIs DEF Pane!MacroMux
    <3>2. Pane!Runs(mux, mode) /\ Pane!Runs(mux, mode) \in BOOLEAN
      BY <3>1, CommandsRun DEF PoolIInv, Pane!Runs
    <3>3. selected \in Rows /\ UNCHANGED <<env, mode, worker>>
      BY <1>2 DEF Pane!Macro
    <3>. HIDE DEF mux
    <3>. QED BY <2>1, <3>1, <3>2, <3>3, NewPaneKeeps
  <2>2. CASE UNCHANGED panes
    BY <1>1, <1>2, <2>2 DEF Pane!Macro
  <2>. QED BY <1>2, <2>1, <2>2 DEF Pane!Macro
<1>3. CASE Pane!OpenInMux
  <2>1. Pane!Detected \in env /\ selected \in Rows /\ UNCHANGED <<env, mode, worker>>
        /\ panes' = panes \cup {Pane!NewPane(Pane!Detected, selected, "shell", TRUE)}
    BY <1>3, DetectedIs DEF Pane!OpenInMux
  <2>. QED BY <2>1, NewPaneKeeps
<1>4. ASSUME NEW mux, NEW row \in Rows, NEW m, Pane!CliOpen(mux, row, m) PROVE PoolIInv'
  <2>1. mux \in env /\ UNCHANGED <<env, mode, worker>> /\ panes' = panes \cup {Pane!NewPane(mux, row, "shell", TRUE)}
    BY <1>4 DEF Pane!CliOpen
  <2>. QED BY <2>1, NewPaneKeeps
<1>5. ASSUME NEW b \in Pane!Browsers, Pane!OpenUrl(b) PROVE PoolIInv'
  <2>. DEFINE mux == Pane!Detected
              runs == Pane!Runs(mux, mode) /\ Pane!Starts(b)
  <2>1. CASE Pane!BrowserPlan(b) = "pane" /\ panes' = panes \cup {Pane!NewPane(mux, selected, "browser", runs)}
    <3>1. /\ b.set /\ mux # "none" /\ b.url /\ ~ b.assigns /\ b.wrapper /\ b.program
          /\ ~ Pane!MacroRefusal(mux, mode)
      BY <2>1 DEF Pane!BrowserPlan
    <3>2. mux \in env /\ selected \in Rows /\ UNCHANGED <<env, mode, worker>>
      BY <1>5, <3>1, DetectedIs DEF Pane!OpenUrl
    <3>3. Pane!Runs(mux, mode)
      BY <3>1, <3>2, CommandsRun DEF PoolIInv
    <3>4. Pane!Starts(b)
      BY <3>1 DEF Pane!Starts
    <3>5. runs = TRUE
      BY <3>3, <3>4
    <3>. HIDE DEF mux, runs
    <3>. QED BY <2>1, <3>2, <3>5, NewPaneKeeps
  <2>2. CASE UNCHANGED panes
    BY <1>1, <1>5, <2>2 DEF Pane!OpenUrl
  <2>. QED BY <1>5, <2>1, <2>2 DEF Pane!OpenUrl
<1>6. ASSUME NEW row \in Rows, NEW safe, Pane!Resume(row, safe) PROVE PoolIInv'
  <2>. DEFINE mux == Pane!Detected
  <2>1. CASE /\ mux # "none" /\ ~ Pane!MacroRefusal(mux, mode)
             /\ panes' = panes \cup {Pane!NewPane(mux, row, "resume", Pane!Runs(mux, mode))}
             /\ UNCHANGED worker
    <3>1. mux \in env /\ UNCHANGED <<env, mode, worker>>
      BY <1>6, <2>1, DetectedIs DEF Pane!Resume
    <3>2. Pane!Runs(mux, mode) = TRUE
      BY <2>1, <3>1, CommandsRun DEF PoolIInv, Pane!Runs
    <3>. HIDE DEF mux
    <3>. QED BY <2>1, <3>1, <3>2, NewPaneKeeps
  <2>2. CASE /\ mux = "herdr" /\ worker = Pane!NoWorker /\ UNCHANGED panes
             /\ worker' = [phase |-> "open", row |-> row, pane |-> Pane!None]
    <3>1. PICK w : w = worker'
      OBVIOUS
    <3>2. /\ w \in [phase : {"open", "wait", "type", "resumed", "failed"}, row : Rows, pane : Nat]
          /\ w.phase = "open" /\ w.pane = 0
      BY <2>2, <3>1 DEF Pane!None
    <3>3. "herdr" \in env /\ Cardinality(panes) \in Nat /\ UNCHANGED <<env, mode>>
      BY <1>6, <2>2, DetectedIs, FS_CardinalityType DEF PoolIInv, Pool, Pane!Resume
    <3>4. \A p \in panes : p.runs \/ p.excused
      BY <2>2, NoWorkerIs DEF PoolIInv, Served
    <3>5. Work(w, panes) /\ \A p \in panes : Served(p, w)
      BY <3>2, <3>3, <3>4 DEF Work, Served
    <3>. QED BY <2>2, <3>1, <3>3, <3>5 DEF PoolIInv, Pool, Work
  <2>. QED BY <1>6, <2>1, <2>2 DEF Pane!Resume
<1>7. CASE Pane!WorkerLands
  <2>1. worker' = Pane!NoWorker /\ UNCHANGED <<env, mode, panes>> /\ worker.phase \in {"resumed", "failed"}
    BY <1>7 DEF Pane!WorkerLands
  <2>2. \A p \in panes : Served(p, Pane!NoWorker)
    BY <2>1 DEF PoolIInv, Served
  <2>3. Work(Pane!NoWorker, panes)
    BY NoWorkerIs DEF Work
  <2>. QED BY <2>1, <2>2, <2>3 DEF PoolIInv, Pool, Work
<1>8. ASSUME NEW kind, Pane!StartTerminal(kind) PROVE PoolIInv'
  BY <1>1, <1>8 DEF Pane!StartTerminal
<1>9. ASSUME NEW b, NEW commits, NEW skip, Pane!Review(b, commits, skip) PROVE PoolIInv'
  BY <1>1, <1>9 DEF Pane!Review
<1>10. CASE Pane!OpenPicker \/ Pane!CancelPicker \/ Pane!Tick \/ Pane!CloseKey \/ Pane!LandBootstrap \/ Pane!Leave
  BY <1>1, <1>10 DEF Pane!OpenPicker, Pane!CancelPicker, Pane!Tick, Pane!CloseKey, Pane!LandBootstrap, Pane!Leave
<1>11. ASSUME NEW contained, Pane!SubmitPicker(contained) PROVE PoolIInv'
  BY <1>1, <1>11 DEF Pane!SubmitPicker
<1>12. ASSUME NEW j, Pane!LeaderExits(j) PROVE PoolIInv'
  BY <1>1, <1>12 DEF Pane!LeaderExits
<1>13. ASSUME NEW row, Pane!Drift(row) PROVE PoolIInv'
  BY <1>1, <1>13 DEF Pane!Drift
<1>14. CASE UNCHANGED paneVars
  BY <1>1, <1>14 DEF paneVars
<1>. QED BY <1>2, <1>3, <1>4, <1>5, <1>6, <1>7, <1>8, <1>9, <1>10, <1>11, <1>12, <1>13, <1>14,
            WorkerOpensKeeps, WorkerWaitsKeeps, WorkerTypesKeeps, ShellKeeps DEF Pane!PaneNext

-----------------------------------------------------------------------------
LEMMA PanesStart == OverlayInit => ProgramIInv /\ PoolIInv
<1>. SUFFICES ASSUME OverlayInit PROVE ProgramIInv /\ PoolIInv
  OBVIOUS
<1>1. /\ env \subseteq Pane!Muxes /\ mode \in Pane!Modes /\ selected \in Rows \cup {Pane!None}
      /\ view = "list" /\ seq = 0 /\ started = 0 /\ pty = Pane!NoPty
      /\ jobs = {} /\ up = {} /\ stuck = {} /\ diffs = {} /\ panes = {} /\ worker = Pane!NoWorker
      /\ faults = {}
  <2>1. CASE Pane!PaneInit
    BY <2>1, SettingsAssumption DEF Pane!PaneInit
  <2>2. CASE Pane!PaneRest
    BY <2>2 DEF Pane!PaneRest, Pane!Modes
  <2>. QED BY <2>1, <2>2 DEF OverlayInit
<1>2. ProgramIInv
  BY <1>1 DEF ProgramIInv, Program, Boxes, Views
<1>3. PoolIInv
  BY <1>1, NoWorkerIs, FS_EmptySet DEF PoolIInv, Pool, Work
<1>. QED BY <1>2, <1>3

\* A program that runs in the overlay is on the screen, in the row it was asked for, and is
\* gone with its process group, its container and its diff file when the overlay closes;
\* and a pane that was opened for a command runs it, or it is said that it does not: unless
\* a bootstrap lands over the overlay, or the user types in a pane before gwm does
\* (close_pty_overlay, mark_finished, run_teardown, run_herdr_agent_pane).
THEOREM ProgramsAreKept == {"bootstrap", "typing"} \cap Windows = {} /\ OverlaySpec => []PanesHold
<1>. SUFFICES ASSUME Quiet PROVE OverlaySpec => []PanesHold
  BY DEF Quiet
<1>1. ProgramIInv /\ PoolIInv /\ [OverlayNext]_overlayVars => (ProgramIInv /\ PoolIInv)'
  <2>. SUFFICES ASSUME ProgramIInv, PoolIInv, [OverlayNext]_overlayVars PROVE (ProgramIInv /\ PoolIInv)'
    OBVIOUS
  <2>1. [Pane!PaneNext]_paneVars
    BY DEF OverlayNext, OnlyIn, overlayVars
  <2>2. Rows \subseteq Nat /\ selected \in Rows \cup {Pane!None}
    BY RowsAssumption DEF ProgramIInv
  <2>. QED BY <2>1, <2>2, ProgramStep, PoolStep
<1>2. ProgramIInv /\ PoolIInv => PanesHold
  <2>. SUFFICES ASSUME ProgramIInv, PoolIInv PROVE Pane!PaneInv
    BY DEF PanesHold
  <2>1. Pane!PaneTypeOK
    BY DEF ProgramIInv, Program, PoolIInv, Pool, PaneKind, Views, Pane!PaneTypeOK
  <2>2. Pane!NothingOutlivesTheOverlay
    BY DEF ProgramIInv, Program, Boxes, Pane!NothingOutlivesTheOverlay
  <2>3. Pane!NothingIsSignalledLate /\ Pane!RunsWhereItWasAsked
    BY DEF ProgramIInv, Program, Pane!NothingIsSignalledLate, Pane!RunsWhereItWasAsked
  <2>4. Pane!PanesRunTheirCommand
    BY NoWorkerIs DEF PoolIInv, Served, Pane!PanesRunTheirCommand
  <2>. QED BY <2>1, <2>2, <2>3, <2>4 DEF Pane!PaneInv
<1>. QED BY <1>1, <1>2, PanesStart, PTL DEF OverlaySpec

-----------------------------------------------------------------------------
(* Numbers: an induction, and what is least and greatest of a set of them. *)

\* Induction over the naturals, of a set: on a finite interval an injection is onto.
LEMMA Counted ==
  ASSUME NEW T \in SUBSET Nat, 0 \in T, \A n \in T : n + 1 \in T
  PROVE  T = Nat
<1>. SUFFICES ASSUME NEW m \in Nat, m \notin T PROVE FALSE
  OBVIOUS
<1>. DEFINE f == [i \in 0 .. m |-> IF i \in T THEN i + 1 ELSE i]
<1>1. f \in [0 .. m -> 0 .. m]
  OBVIOUS
<1>2. f \in Injection(0 .. m, 0 .. m)
  <2>1. \A a, b \in 0 .. m : f[a] = f[b] => a = b
    OBVIOUS
  <2>. QED BY <1>1, <2>1 DEF Injection, IsInjective
<1>3. IsFiniteSet(0 .. m)
  BY FS_Interval
<1>4. f \in Surjection(0 .. m, 0 .. m)
  BY <1>2, <1>3, FS_Injection
<1>5. \A i \in 0 .. m : f[i] # 0
  OBVIOUS
<1>. HIDE DEF f
<1>. QED BY <1>4, <1>5 DEF Surjection

LEMMA LeastOf ==
  ASSUME NEW S \in SUBSET Nat, S # {}
  PROVE  \E m \in S : \A n \in S : m <= n
<1>. DEFINE T == {n \in Nat : \A k \in S : n <= k}
<1>1. PICK s \in S : TRUE
  OBVIOUS
<1>2. s + 1 \in Nat \ T
  BY <1>1
<1>3. 0 \in T
  OBVIOUS
<1>. HIDE DEF T
<1>4. PICK n \in T : n + 1 \notin T
  <2>. SUFFICES ASSUME \A n \in T : n + 1 \in T PROVE FALSE
    OBVIOUS
  <2>1. T = Nat
    BY <1>3, Counted DEF T
  <2>. QED BY <1>2, <2>1
<1>. QED BY <1>4 DEF T

LEMMA GreatestOf ==
  ASSUME NEW S \in SUBSET Nat, S # {}, NEW b \in Nat, \A n \in S : n <= b
  PROVE  \E m \in S : \A n \in S : n <= m
<1>. DEFINE T == {n \in Nat : \E k \in S : n <= k}
<1>1. b + 1 \in Nat \ T
  OBVIOUS
<1>2. 0 \in T
  <2>1. PICK s \in S : TRUE
    OBVIOUS
  <2>. QED BY <2>1
<1>. HIDE DEF T
<1>3. PICK n \in T : n + 1 \notin T
  <2>. SUFFICES ASSUME \A n \in T : n + 1 \in T PROVE FALSE
    OBVIOUS
  <2>1. T = Nat
    BY <1>2, Counted DEF T
  <2>. QED BY <1>1, <2>1
<1>. QED BY <1>3 DEF T

-----------------------------------------------------------------------------
(* The editor of a note. *)

Line == Seq(Note!Character)
Text == Seq(Line)

LEMMA CutIs ==
  ASSUME NEW S, NEW line \in Seq(S), NEW by \in Seq(S), NEW at \in Nat, NEW n \in Nat,
         at + n <= Len(line)
  PROVE  Note!Cut(line, at, n, by) \in Seq(S) /\ Len(Note!Cut(line, at, n, by)) = Len(line) - n + Len(by)
<1>. DEFINE a == SubSeq(line, 1, at)
            c == SubSeq(line, at + n + 1, Len(line))
<1>1. Len(line) \in Nat /\ Len(by) \in Nat /\ \A i \in 1 .. Len(line) : line[i] \in S
  BY LenProperties, ElementOfSeq
<1>2. a \in Seq(S) /\ Len(a) = at
  BY <1>1, SubSeqProperties
<1>3. c \in Seq(S) /\ Len(c) = Len(line) - at - n
  BY <1>1, SubSeqProperties
<1>. HIDE DEF a, c
<1>. DEFINE b == a \o by
<1>4. b \in Seq(S) /\ Len(b) = Len(a) + Len(by)
  BY <1>2, ConcatProperties
<1>41. b \in Seq(S) /\ c \in Seq(S)
  BY <1>3, <1>4
<1>5. Note!Cut(line, at, n, by) = b \o c
  BY DEF Note!Cut, a, c
<1>. HIDE DEF b
<1>. DEFINE r == b \o c
<1>6. r \in Seq(S) /\ Len(r) = Len(b) + Len(c)
  BY <1>41, ConcatProperties
<1>7. Note!Cut(line, at, n, by) = r
  BY <1>5
<1>. HIDE DEF r
<1>8. Len(r) = Len(line) - n + Len(by)
  BY <1>1, <1>2, <1>3, <1>4, <1>6
<1>. QED BY <1>6, <1>7, <1>8

LEMMA InsertAtIs ==
  ASSUME NEW S, NEW s \in Seq(S), NEW x \in S, NEW i \in 1 .. Len(s) + 1
  PROVE  /\ Note!InsertAt(s, i, x) \in Seq(S) /\ Len(Note!InsertAt(s, i, x)) = Len(s) + 1
         /\ \A j \in 1 .. Len(s) + 1 : Note!InsertAt(s, i, x)[j] =
                IF j < i THEN s[j] ELSE IF j = i THEN x ELSE s[j - 1]
<1>. DEFINE a == SubSeq(s, 1, i - 1)
            c == SubSeq(s, i, Len(s))
<1>1. Len(s) \in Nat /\ \A k \in 1 .. Len(s) : s[k] \in S
  BY LenProperties, ElementOfSeq
<1>2. a \in Seq(S) /\ Len(a) = i - 1 /\ \A k \in 1 .. i - 1 : a[k] = s[k]
  BY <1>1, SubSeqProperties
<1>3. c \in Seq(S) /\ Len(c) = Len(s) - i + 1 /\ \A k \in 1 .. Len(s) - i + 1 : c[k] = s[i + k - 1]
  BY <1>1, SubSeqProperties
<1>. HIDE DEF a, c
<1>4. <<x>> \in Seq(S) /\ Len(<<x>>) = 1 /\ <<x>>[1] = x
  OBVIOUS
<1>. DEFINE b == a \o <<x>>
<1>5. b \in Seq(S) /\ Len(b) = i /\ \A k \in 1 .. i : b[k] = IF k < i THEN s[k] ELSE x
  BY <1>1, <1>2, <1>4, ConcatProperties
<1>. HIDE DEF b
<1>6. /\ b \o c \in Seq(S) /\ Len(b \o c) = Len(b) + Len(c)
      /\ \A k \in 1 .. Len(b) + Len(c) : (b \o c)[k] = IF k <= Len(b) THEN b[k] ELSE c[k - Len(b)]
  BY <1>3, <1>5, ConcatProperties
<1>7. Note!InsertAt(s, i, x) = b \o c
  BY DEF Note!InsertAt, a, b, c
<1>. QED BY <1>1, <1>3, <1>5, <1>6, <1>7

LEMMA RemoveAtIs ==
  ASSUME NEW S, NEW s \in Seq(S), NEW i \in 1 .. Len(s)
  PROVE  Note!RemoveAt(s, i) \in Seq(S) /\ Len(Note!RemoveAt(s, i)) = Len(s) - 1
<1>. DEFINE a == SubSeq(s, 1, i - 1)
            c == SubSeq(s, i + 1, Len(s))
<1>1. Len(s) \in Nat /\ \A k \in 1 .. Len(s) : s[k] \in S
  BY LenProperties, ElementOfSeq
<1>2. a \in Seq(S) /\ Len(a) = i - 1
  BY <1>1, SubSeqProperties
<1>3. c \in Seq(S) /\ Len(c) = Len(s) - i
  BY <1>1, SubSeqProperties
<1>. HIDE DEF a, c
<1>. DEFINE r == a \o c
<1>4. r \in Seq(S) /\ Len(r) = Len(a) + Len(c)
  BY <1>2, <1>3, ConcatProperties
<1>5. Note!RemoveAt(s, i) = r
  BY DEF Note!RemoveAt, a, c
<1>. HIDE DEF r
<1>6. Len(s) \in Nat /\ i \in Nat
  BY <1>1
<1>7. Len(r) = Len(s) - 1
  BY <1>2, <1>3, <1>4, <1>6
<1>. QED BY <1>4, <1>5, <1>7

LEMMA IndentIs == ASSUME NEW line \in Line PROVE Note!Indent(line) \in 0 .. Len(line)
<1>. DEFINE some == {i \in DOMAIN line : line[i] # "."}
            first == CHOOSE i \in some : \A j \in some : i <= j
<1>1. Len(line) \in Nat /\ DOMAIN line = 1 .. Len(line)
  BY LenProperties DEF Line
<1>2. CASE some = {}
  <2>1. Note!Indent(line) = Len(line)
    BY <1>2 DEF Note!Indent
  <2>. QED BY <1>1, <2>1
<1>3. CASE some # {}
  <2>1. some \in SUBSET Nat
    <3>1. some \subseteq DOMAIN line
      OBVIOUS
    <3>. HIDE DEF some
    <3>. QED BY <1>1, <3>1
  <2>2. \E i \in some : \A j \in some : i <= j
    <3>. HIDE DEF some
    <3>. QED BY <1>3, <2>1, LeastOf
  <2>3. first \in some
    BY <2>2
  <2>4. first \in 1 .. Len(line)
    BY <1>1, <2>3
  <2>5. Note!Indent(line) = first - 1
    BY <1>3 DEF Note!Indent
  <2>. HIDE DEF first
  <2>. QED BY <1>1, <2>4, <2>5
<1>. QED BY <1>2, <1>3

LEMMA MarkIs ==
  ASSUME NEW rest \in Line, NEW mark \in Line
  PROVE  Note!Mark(rest, mark) \in 0 .. Len(rest)
<1>1. Len(rest) \in Nat /\ Len(mark) \in Nat
  BY LenProperties DEF Line
<1>2. CASE rest = mark
  <2>1. Note!Mark(rest, mark) = Len(mark)
    BY <1>2 DEF Note!Mark
  <2>. QED BY <1>1, <1>2, <2>1
<1>3. CASE rest # mark
  <2>1. \/ Note!Mark(rest, mark) = Len(mark) + 1 /\ Len(rest) > Len(mark)
        \/ Note!Mark(rest, mark) = 0
    BY <1>3 DEF Note!Mark
  <2>. QED BY <1>1, <2>1
<1>. QED BY <1>2, <1>3

LEMMA MarkOfIs ==
  ASSUME NEW k \in Note!Kinds
  PROVE  Note!MarkOf(k) \in Line /\ Append(Note!MarkOf(k), ".") \in Line
<1>1. Note!MarkOf(k) \in Seq(Note!Character)
  <2>0. /\ "-" \in Note!Character /\ "." \in Note!Character /\ "[" \in Note!Character
        /\ "]" \in Note!Character /\ "x" \in Note!Character
    BY DEF Note!Character
  <2>1. CASE k = "bullet"
    <3>1. Note!MarkOf(k) = <<"-">>
      BY <2>1 DEF Note!MarkOf
    <3>. QED BY <2>0, <3>1
  <2>2. CASE k = "unchecked"
    <3>1. Note!MarkOf(k) = <<"-", ".", "[", ".", "]">>
      BY <2>2 DEF Note!MarkOf
    <3>. QED BY <2>0, <3>1
  <2>3. CASE k = "checked"
    <3>1. Note!MarkOf(k) = <<"-", ".", "[", "x", "]">>
      BY <2>3 DEF Note!MarkOf
    <3>. QED BY <2>0, <3>1
  <2>. QED BY <2>1, <2>2, <2>3 DEF Note!Kinds
<1>2. "." \in Note!Character
  BY DEF Note!Character
<1>. QED BY <1>1, <1>2, AppendProperties DEF Line

LEMMA RestIs ==
  ASSUME NEW line \in Line, NEW at \in 0 .. Len(line)
  PROVE  SubSeq(line, at + 1, Len(line)) \in Line /\ Len(SubSeq(line, at + 1, Len(line))) = Len(line) - at
<1>1. Len(line) \in Nat /\ \A i \in 1 .. Len(line) : line[i] \in Note!Character
  BY LenProperties, ElementOfSeq DEF Line
<1>. QED BY <1>1, SubSeqProperties DEF Line

LEMMA ListLineIs ==
  ASSUME NEW line \in Line
  PROVE  /\ Note!ListLine(line).kind \in Note!Kinds \cup {"prose"}
         /\ Note!ListLine(line).indent \in 0 .. Len(line)
         /\ Note!ListLine(line).width \in Note!ListLine(line).indent .. Len(line)
<1>. DEFINE at == Note!Indent(line)
            rest == SubSeq(line, at + 1, Len(line))
            box == Len(rest) > 2 /\ SubSeq(rest, 1, 3) = <<"-", ".", "[">>
            kinds == {k \in Note!Kinds : Note!Mark(rest, Note!MarkOf(k)) > 0 /\ (k = "bullet" => ~ box)}
            k == CHOOSE k \in kinds : TRUE
            n == Note!Mark(rest, Note!MarkOf(k))
<1>0. Len(line) \in Nat
  BY LenProperties DEF Line
<1>1. at \in 0 .. Len(line)
  BY IndentIs
<1>2. rest \in Line /\ Len(rest) = Len(line) - at
  <2>. HIDE DEF at
  <2>. QED BY <1>1, RestIs
<1>3. CASE kinds = {}
  <2>1. Note!ListLine(line) = [kind |-> "prose", indent |-> at, width |-> at]
    BY <1>3 DEF Note!ListLine
  <2>. HIDE DEF at
  <2>. QED BY <1>0, <1>1, <2>1
<1>4. CASE kinds # {}
  <2>1. Note!ListLine(line) = [kind |-> k, indent |-> at, width |-> at + n]
    BY <1>4 DEF Note!ListLine
  <2>2. k \in Note!Kinds
    <3>1. k \in kinds
      <4>. HIDE DEF kinds
      <4>. QED BY <1>4
    <3>. QED BY <3>1
  <2>. HIDE DEF at, rest, k
  <2>3. n \in 0 .. Len(rest)
    BY <1>2, <2>2, MarkOfIs, MarkIs
  <2>. HIDE DEF n
  <2>. QED BY <1>0, <1>1, <1>2, <2>1, <2>2, <2>3
<1>. QED BY <1>3, <1>4

LEMMA ContinuedIs == ASSUME NEW line \in Line PROVE Note!Continued(line) \in Line
<1>. DEFINE l == Note!ListLine(line)
            k == IF l.kind = "bullet" THEN "bullet" ELSE "unchecked"
            indent == SubSeq(line, 1, l.indent)
            mark == Append(Note!MarkOf(k), ".")
<1>1. Len(line) \in Nat /\ \A i \in 1 .. Len(line) : line[i] \in Note!Character
  BY LenProperties, ElementOfSeq DEF Line
<1>2. l.indent \in 0 .. Len(line)
  BY ListLineIs
<1>3. indent \in Seq(Note!Character)
  <2>. HIDE DEF l
  <2>. QED BY <1>1, <1>2, SubSeqProperties
<1>4. k \in Note!Kinds
  BY DEF Note!Kinds
<1>5. mark \in Seq(Note!Character)
  <2>. HIDE DEF k
  <2>. QED BY <1>4, MarkOfIs DEF Line
<1>6. Note!Continued(line) = IF l.kind = "prose" THEN <<>> ELSE indent \o mark
  BY DEF Note!Continued
<1>. HIDE DEF indent, mark
<1>7. indent \o mark \in Seq(Note!Character)
  BY <1>3, <1>5, ConcatProperties
<1>8. <<>> \in Seq(Note!Character)
  OBVIOUS
<1>. QED BY <1>6, <1>7, <1>8 DEF Line

\* An editor with its caret in the text, and what a key does to it in its mode.
Fits(e) == e \in Note!Editor /\ e.text # <<>> /\ e.line \in DOMAIN e.text
Inside(e) == Fits(e) /\ e.col <= Len(e.text[e.line])
Same(e, d) ==
  /\ d.branch = e.branch /\ d.seen = e.seen /\ d.viewport = e.viewport
  /\ d.dirty \/ (~ e.dirty /\ d.text = e.text)
Acts(e, d) == Inside(d) /\ Same(e, d) /\ d.normal = e.normal /\ d.pending = e.pending

LEMMA FitsIs ==
  ASSUME NEW e, Fits(e)
  PROVE  /\ e \in Note!Editor /\ e.text \in Text /\ Len(e.text) \in Nat \ {0} /\ e.line \in 1 .. Len(e.text)
         /\ DOMAIN e.text = 1 .. Len(e.text)
         /\ \A i \in 1 .. Len(e.text) : e.text[i] \in Line /\ Len(e.text[i]) \in Nat
         /\ e.col \in Nat /\ e.normal \in BOOLEAN /\ e.dirty \in BOOLEAN /\ e.viewport \in Nat
<1>1. e.text \in Seq(Line) /\ e \in Note!Editor /\ e.col \in Nat /\ e.normal \in BOOLEAN /\ e.dirty \in BOOLEAN /\ e.viewport \in Nat
  BY DEF Fits, Note!Editor, Line
<1>2. Len(e.text) \in Nat /\ DOMAIN e.text = 1 .. Len(e.text) /\ \A i \in 1 .. Len(e.text) : e.text[i] \in Line
  BY <1>1, LenProperties, ElementOfSeq
<1>3. \A i \in 1 .. Len(e.text) : Len(e.text[i]) \in Nat
  BY <1>2, LenProperties DEF Line
<1>4. Len(e.text) # 0
  BY <1>1, EmptySeq DEF Fits
<1>. QED BY <1>1, <1>2, <1>3, <1>4 DEF Fits, Text

LEMMA TextIs ==
  ASSUME NEW text \in Text, NEW line \in 1 .. Len(text)
  PROVE  /\ Len(text) \in Nat \ {0} /\ DOMAIN text = 1 .. Len(text) /\ text # <<>>
         /\ text[line] \in Line /\ Len(text[line]) \in Nat
<1>1. Len(text) \in Nat /\ DOMAIN text = 1 .. Len(text) /\ text[line] \in Line
  BY LenProperties, ElementOfSeq DEF Text
<1>2. Len(text[line]) \in Nat
  BY <1>1, LenProperties DEF Line
<1>3. text # <<>>
  BY <1>1
<1>. QED BY <1>1, <1>2, <1>3

LEMMA AtIs ==
  ASSUME NEW e, Fits(e), NEW line \in 1 .. Len(e.text), NEW col \in 0 .. Len(e.text[line])
  PROVE  Acts(e, Note!At(e, line, col)) /\ Note!At(e, line, col).text = e.text
<1>. DEFINE d == Note!At(e, line, col)
<1>1. e \in Note!Editor /\ Len(e.text[line]) \in Nat /\ e.text \in Text /\ e.dirty \in BOOLEAN
  BY FitsIs
<1>0. line \in Nat /\ col \in Nat /\ line \in DOMAIN e.text
  BY <1>1, FitsIs
<1>2. d \in Note!Editor
  BY <1>0, <1>1 DEF Note!At, Note!Editor
<1>3. /\ d.text = e.text /\ d.line = line /\ d.col = col /\ d.branch = e.branch /\ d.seen = e.seen
      /\ d.viewport = e.viewport /\ d.dirty = e.dirty /\ d.normal = e.normal /\ d.pending = e.pending
  BY <1>1 DEF Note!At, Note!Editor
<1>4. Acts(e, d) /\ d.text = e.text
  <2>. HIDE DEF d
  <2>. QED BY <1>0, <1>1, <1>2, <1>3 DEF Acts, Inside, Fits, Same
<1>. QED BY <1>4

LEMMA ColIs ==
  ASSUME NEW e, Fits(e), NEW col \in 0 .. Len(e.text[e.line])
  PROVE  Acts(e, Note!Col(e, col)) /\ Note!Col(e, col).text = e.text
<1>1. e \in Note!Editor /\ e.line \in 1 .. Len(e.text)
  BY FitsIs
<1>2. Note!Col(e, col) = Note!At(e, e.line, col)
  BY <1>1 DEF Note!Col, Note!At, Note!Editor
<1>. QED BY <1>1, <1>2, AtIs

LEMMA WroteIs ==
  ASSUME NEW e, Fits(e), NEW text \in Text, NEW line \in 1 .. Len(text), NEW col \in 0 .. Len(text[line])
  PROVE  Acts(e, Note!At(Note!Wrote(e, text), line, col)) /\ Note!At(Note!Wrote(e, text), line, col).text = text
<1>. DEFINE d == Note!At(Note!Wrote(e, text), line, col)
<1>1. e \in Note!Editor /\ text # <<>> /\ line \in DOMAIN text /\ Len(text[line]) \in Nat
  BY FitsIs, TextIs
<1>0. line \in Nat /\ col \in Nat
  BY <1>1, TextIs
<1>2. d \in Note!Editor
  BY <1>0, <1>1 DEF Note!At, Note!Wrote, Note!Editor, Text, Line
<1>3. /\ d.text = text /\ d.line = line /\ d.col = col /\ d.branch = e.branch /\ d.seen = e.seen
      /\ d.viewport = e.viewport /\ d.dirty = TRUE /\ d.normal = e.normal /\ d.pending = e.pending
  BY <1>1 DEF Note!At, Note!Wrote, Note!Editor
<1>4. Acts(e, d) /\ d.text = text
  <2>. HIDE DEF d
  <2>. QED BY <1>1, <1>2, <1>3 DEF Acts, Inside, Fits, Same
<1>. QED BY <1>4

LEMMA WroteHereIs ==
  ASSUME NEW e, Fits(e), NEW l \in Line, NEW col \in 0 .. Len(l)
  PROVE  /\ Acts(e, Note!Col(Note!WroteHere(e, l), col))
         /\ col = e.col => Acts(e, Note!WroteHere(e, l))
<1>. DEFINE text == [e.text EXCEPT ![e.line] = l]
<1>1. e \in Note!Editor /\ e.line \in 1 .. Len(e.text) /\ e.text \in Seq(Line)
  BY FitsIs DEF Text
<1>2. text \in Text /\ Len(text) = Len(e.text) /\ text[e.line] = l
  BY <1>1, ExceptSeq DEF Text
<1>3. Note!WroteHere(e, l) = Note!Wrote(e, text)
  BY DEF Note!WroteHere
<1>. HIDE DEF text
<1>4. Note!Col(Note!WroteHere(e, l), col) = Note!At(Note!Wrote(e, text), e.line, col)
  BY <1>1, <1>3 DEF Note!Col, Note!At, Note!Wrote, Note!Editor
<1>5. col = e.col => Note!WroteHere(e, l) = Note!At(Note!Wrote(e, text), e.line, col)
  BY <1>1, <1>3 DEF Note!At, Note!Wrote, Note!Editor
<1>6. Acts(e, Note!At(Note!Wrote(e, text), e.line, col))
  BY <1>1, <1>2, WroteIs
<1>. QED BY <1>4, <1>5, <1>6

LEMMA LinesIs ==
  ASSUME NEW a \in Line, NEW b \in Line
  PROVE  /\ a \o b \in Line /\ Len(a \o b) = Len(a) + Len(b)
         /\ 0 .. Len(a) \subseteq 0 .. Len(a \o b)
<1>1. a \o b \in Line /\ Len(a \o b) = Len(a) + Len(b)
  BY ConcatProperties DEF Line
<1>2. Len(a) \in Nat /\ Len(b) \in Nat
  BY LenProperties DEF Line
<1>. DEFINE n == Len(a \o b)
<1>3. n = Len(a) + Len(b)
  BY <1>1
<1>. HIDE DEF n
<1>4. 0 .. Len(a) \subseteq 0 .. n
  BY <1>2, <1>3
<1>. QED BY <1>1, <1>4 DEF n

LEMMA NoLineIs == <<>> \in Line /\ Len(<<>>) = 0
BY EmptySeq DEF Line

LEMMA LineCut ==
  ASSUME NEW line \in Line, NEW by \in Line, NEW at \in Nat, NEW n \in Nat, at + n <= Len(line)
  PROVE  Note!Cut(line, at, n, by) \in Line /\ Len(Note!Cut(line, at, n, by)) = Len(line) - n + Len(by)
BY CutIs DEF Line

LEMMA LineDrops ==
  ASSUME NEW line \in Line, NEW at \in Nat, at + 1 <= Len(line)
  PROVE  Note!Cut(line, at, 1, <<>>) \in Line /\ Len(Note!Cut(line, at, 1, <<>>)) = Len(line) - 1
<1>. DEFINE no == <<>>
<1>1. no \in Line /\ Len(no) = 0
  BY NoLineIs
<1>2. Len(line) \in Nat
  BY LenProperties DEF Line
<1>. HIDE DEF no
<1>. DEFINE l == Note!Cut(line, at, 1, no)
<1>3. l \in Line /\ Len(l) = Len(line) - 1 + Len(no)
  BY <1>1, LineCut
<1>. HIDE DEF l
<1>4. l \in Line /\ Len(l) = Len(line) - 1
  BY <1>1, <1>2, <1>3
<1>. QED BY <1>4 DEF l, no

LEMMA LineGrows ==
  ASSUME NEW line \in Line, NEW at \in Nat, at <= Len(line), NEW c \in Note!Character
  PROVE  Note!Cut(line, at, 0, <<c>>) \in Line /\ Len(Note!Cut(line, at, 0, <<c>>)) = Len(line) + 1
<1>. DEFINE one == <<c>>
<1>1. one \in Line /\ Len(one) = 1
  BY DEF Line
<1>2. Len(line) \in Nat /\ at + 0 <= Len(line)
  BY LenProperties DEF Line
<1>. HIDE DEF one
<1>. DEFINE l == Note!Cut(line, at, 0, one)
<1>3. l \in Line /\ Len(l) = Len(line) - 0 + Len(one)
  <2>1. 0 \in Nat
    OBVIOUS
  <2>. QED BY <1>1, <1>2, <2>1, LineCut
<1>. HIDE DEF l
<1>4. l \in Line /\ Len(l) = Len(line) + 1
  BY <1>1, <1>2, <1>3
<1>. QED BY <1>4 DEF l, one

LEMMA HereIs ==
  ASSUME NEW e, Inside(e)
  PROVE  /\ Fits(e) /\ Note!Here(e) = e.text[e.line] /\ Note!Here(e) \in Line
         /\ Note!Width(e) = Len(Note!Here(e)) /\ Len(Note!Here(e)) \in Nat
         /\ e.col \in 0 .. Len(Note!Here(e)) /\ e.line \in 1 .. Len(e.text) /\ Len(e.text) \in Nat
<1>1. Fits(e) /\ e.col <= Len(e.text[e.line])
  BY DEF Inside
<1>2. Note!Here(e) = e.text[e.line] /\ Note!Width(e) = Len(Note!Here(e))
  BY DEF Note!Here, Note!Width
<1>3. e.line \in 1 .. Len(e.text) /\ Len(e.text) \in Nat /\ e.col \in Nat
  BY <1>1, FitsIs
<1>4. e.text[e.line] \in Line /\ Len(e.text[e.line]) \in Nat
  BY <1>1, FitsIs
<1>. QED BY <1>1, <1>2, <1>3, <1>4

LEMMA InsertedIs ==
  ASSUME NEW e, Inside(e), NEW c \in Note!Character
  PROVE  Acts(e, Note!Inserted(e, c))
<1>. DEFINE l == Note!Cut(Note!Here(e), e.col, 0, <<c>>)
<1>1. Fits(e) /\ Note!Here(e) \in Line /\ Len(Note!Here(e)) \in Nat /\ e.col \in 0 .. Len(Note!Here(e))
  BY HereIs
<1>2. e.col \in Nat /\ e.col <= Len(Note!Here(e))
  BY <1>1
<1>3. l \in Line /\ Len(l) = Len(Note!Here(e)) + 1
  BY <1>1, <1>2, LineGrows
<1>. HIDE DEF l
<1>4. e.col + 1 \in 0 .. Len(l)
  BY <1>1, <1>3
<1>5. Note!Inserted(e, c) = Note!Col(Note!WroteHere(e, l), e.col + 1)
  BY DEF Note!Inserted, l
<1>. QED BY <1>1, <1>3, <1>4, <1>5, WroteHereIs

LEMMA NewlineIs == ASSUME NEW e, Inside(e) PROVE Acts(e, Note!Newline(e))
<1>. DEFINE l == Note!ListLine(Note!Here(e))
            prefix == Note!Continued(Note!Here(e))
            head == SubSeq(Note!Here(e), 1, e.col)
            tail == SubSeq(Note!Here(e), e.col + 1, Note!Width(e))
            split == [e.text EXCEPT ![e.line] = head]
            text == Note!InsertAt(split, e.line + 1, prefix \o tail)
            ends == l.kind # "prose" /\ Note!Blank(SubSeq(Note!Here(e), l.width + 1, Note!Width(e)))
<1>1. /\ Fits(e) /\ Note!Here(e) \in Line /\ Note!Width(e) = Len(Note!Here(e)) /\ Len(Note!Here(e)) \in Nat
      /\ e.col \in 0 .. Len(Note!Here(e)) /\ e.line \in 1 .. Len(e.text) /\ e.text \in Seq(Line)
      /\ Note!Here(e) = e.text[e.line] /\ Len(e.text) \in Nat
  BY HereIs, FitsIs DEF Text
<1>2. CASE ends
  <2>1. Note!Newline(e) = Note!Col(Note!WroteHere(e, <<>>), 0)
    BY <1>2 DEF Note!Newline
  <2>. QED BY <1>1, <2>1, NoLineIs, WroteHereIs
<1>3. CASE ~ ends
  <2>6. Note!Newline(e) = Note!At(Note!Wrote(e, text), e.line + 1, Len(prefix))
    <3>1. Note!Newline(e) = IF ends THEN Note!Col(Note!WroteHere(e, <<>>), 0)
                            ELSE Note!At(Note!Wrote(e, text), e.line + 1, Len(prefix))
      BY DEF Note!Newline, Note!Here
    <3>. HIDE DEF ends, text, prefix
    <3>. QED BY <1>3, <3>1
  <2>1. prefix \in Line /\ Len(prefix) \in Nat
    BY <1>1, ContinuedIs, LenProperties DEF Line
  <2>2. tail \in Line /\ Len(tail) \in Nat
    <3>1. tail = SubSeq(Note!Here(e), e.col + 1, Len(Note!Here(e)))
      BY <1>1
    <3>. HIDE DEF tail
    <3>2. tail \in Line
      BY <1>1, <3>1, RestIs
    <3>. QED BY <3>2, LenProperties DEF Line
  <2>3. head \in Line
    <3>1. \A i \in 1 .. e.col : Note!Here(e)[i] \in Note!Character
      BY <1>1, ElementOfSeq DEF Line
    <3>2. head \in Seq(Note!Character)
      BY <1>1, <3>1, SubSeqProperties
    <3>. QED BY <3>2 DEF Line
  <2>. HIDE DEF prefix, tail, head
  <2>4. prefix \o tail \in Line /\ Len(prefix \o tail) = Len(prefix) + Len(tail)
    BY <2>1, <2>2, LinesIs
  <2>5. split \in Seq(Line) /\ Len(split) = Len(e.text)
    BY <1>1, <2>3, ExceptSeq
  <2>. HIDE DEF split
  <2>. DEFINE next == prefix \o tail
  <2>7. next \in Line /\ Len(prefix) \in 0 .. Len(next)
    BY <2>1, <2>2, <2>4
  <2>8. Note!InsertAt(split, e.line + 1, next) = text
    OBVIOUS
  <2>. HIDE DEF next, text
  <2>9. e.line + 1 \in 1 .. Len(split) + 1 /\ e.line + 1 \in Nat
    BY <1>1, <2>5
  <2>10. text \in Seq(Line) /\ Len(text) = Len(split) + 1 /\ text[e.line + 1] = next
    BY <2>5, <2>7, <2>8, <2>9, InsertAtIs
  <2>. QED BY <1>1, <2>6, <2>7, <2>9, <2>10, WroteIs DEF Text
<1>. QED BY <1>2, <1>3

LEMMA JoinedIs ==
  ASSUME NEW e, Fits(e), NEW line \in 1 .. Len(e.text) - 1, NEW col \in 0 .. Len(e.text[line] \o e.text[line + 1])
  PROVE  /\ Acts(e, Note!At(Note!Joined(e, line), line, col))
         /\ line = e.line /\ col = e.col => Acts(e, Note!Joined(e, line))
<1>. DEFINE one == e.text[line] \o e.text[line + 1]
            text == [i \in 1 .. Len(e.text) - 1 |->
                       IF i < line THEN e.text[i] ELSE IF i = line THEN one ELSE e.text[i + 1]]
<1>1. /\ e \in Note!Editor /\ Len(e.text) \in Nat \ {0} /\ \A i \in 1 .. Len(e.text) : e.text[i] \in Line
  BY FitsIs
<1>2. one \in Line
  BY <1>1, LinesIs
<1>3. Note!Joined(e, line) = Note!Wrote(e, text)
  BY DEF Note!Joined
<1>4. col \in 0 .. Len(one)
  OBVIOUS
<1>. HIDE DEF one
<1>5. text \in [1 .. Len(e.text) - 1 -> Line] /\ text[line] = one
  BY <1>1, <1>2
<1>. HIDE DEF text
<1>6. text \in Text /\ Len(text) = Len(e.text) - 1
  BY <1>1, <1>5 DEF Text
<1>7. line \in 1 .. Len(text) /\ col \in 0 .. Len(text[line])
  BY <1>1, <1>4, <1>5, <1>6
<1>8. ASSUME line = e.line, col = e.col
      PROVE  Note!Joined(e, line) = Note!At(Note!Wrote(e, text), line, col)
  BY <1>1, <1>3, <1>8 DEF Note!At, Note!Wrote, Note!Editor
<1>9. Acts(e, Note!At(Note!Wrote(e, text), line, col))
  BY <1>6, <1>7, WroteIs
<1>. QED BY <1>3, <1>8, <1>9

LEMMA DeletesIs ==
  ASSUME NEW e, Inside(e)
  PROVE  Acts(e, Note!Backspaced(e)) /\ Acts(e, Note!DeleteUnder(e)) /\ Acts(e, Note!Deleted(e))
<1>. DEFINE here == Note!Here(e)
<1>0. Acts(e, e)
  BY DEF Acts, Same, Inside, Fits, Note!Editor
<1>1. /\ Fits(e) /\ here \in Line /\ Note!Width(e) = Len(here) /\ Len(here) \in Nat
      /\ e.col \in 0 .. Len(here) /\ e.line \in 1 .. Len(e.text) /\ here = e.text[e.line] /\ Len(e.text) \in Nat
      /\ e.col \in Nat
  BY HereIs, FitsIs
<1>11. \A i \in 1 .. Len(e.text) : e.text[i] \in Line /\ Len(e.text[i]) \in Nat
  BY <1>1, FitsIs
<1>. HIDE DEF here
<1>3. ASSUME e.col < Len(here) PROVE Acts(e, Note!DeleteUnder(e))
  <2>. DEFINE l == Note!Cut(here, e.col, 1, <<>>)
  <2>1. l \in Line /\ Len(l) = Len(here) - 1
    <3>1. e.col + 1 <= Len(here)
      BY <1>1, <1>3
    <3>. QED BY <1>1, <3>1, LineDrops
  <2>2. Note!DeleteUnder(e) = Note!WroteHere(e, l)
    BY <1>1, <1>3 DEF Note!DeleteUnder, here
  <2>. HIDE DEF l
  <2>3. e.col \in 0 .. Len(l)
    BY <1>1, <1>3, <2>1
  <2>. QED BY <1>1, <2>1, <2>2, <2>3, WroteHereIs
<1>4. Acts(e, Note!DeleteUnder(e))
  BY <1>0, <1>1, <1>3 DEF Note!DeleteUnder
<1>5. Acts(e, Note!Backspaced(e))
  <2>1. CASE e.col > 0
    <3>. DEFINE l == Note!Cut(here, e.col - 1, 1, <<>>)
    <3>0. e.col - 1 \in Nat /\ (e.col - 1) + 1 <= Len(here)
      BY <1>1, <2>1
    <3>1. l \in Line /\ Len(l) = Len(here) - 1
      BY <1>1, <3>0, LineDrops
    <3>2. Note!Backspaced(e) = Note!Col(Note!WroteHere(e, l), e.col - 1)
      BY <2>1 DEF Note!Backspaced, here
    <3>. HIDE DEF l
    <3>3. e.col - 1 \in 0 .. Len(l)
      BY <1>1, <2>1, <3>1
    <3>. QED BY <1>1, <3>1, <3>2, <3>3, WroteHereIs
  <2>2. CASE ~ (e.col > 0) /\ e.line > 1
    <3>. DEFINE above == e.line - 1
    <3>1. Note!Backspaced(e) = Note!At(Note!Joined(e, above), above, Len(e.text[above]))
      BY <2>2 DEF Note!Backspaced
    <3>2. above \in 1 .. Len(e.text) - 1 /\ above + 1 = e.line
      BY <1>1, <2>2
    <3>. HIDE DEF above
    <3>3. e.text[above] \in Line /\ e.text[above + 1] \in Line /\ Len(e.text[above]) \in 0 .. Len(e.text[above])
      BY <1>1, <1>11, <3>2
    <3>5. Len(e.text[above]) \in 0 .. Len(e.text[above] \o e.text[above + 1])
      BY <3>3, LinesIs
    <3>. QED BY <1>1, <3>1, <3>2, <3>5, JoinedIs
  <2>3. CASE ~ (e.col > 0) /\ ~ (e.line > 1)
    BY <1>0, <2>3 DEF Note!Backspaced
  <2>. QED BY <2>1, <2>2, <2>3
<1>6. Acts(e, Note!Deleted(e))
  <2>1. CASE e.col < Note!Width(e)
    BY <1>4, <2>1 DEF Note!Deleted
  <2>2. CASE ~ (e.col < Note!Width(e)) /\ e.line < Len(e.text)
    <3>1. Note!Deleted(e) = Note!Joined(e, e.line)
      BY <2>2 DEF Note!Deleted
    <3>2. e.line \in 1 .. Len(e.text) - 1 /\ e.line + 1 \in 1 .. Len(e.text)
      BY <1>1, <2>2
    <3>3. e.text[e.line] \in Line /\ e.text[e.line + 1] \in Line /\ e.col \in 0 .. Len(e.text[e.line])
      BY <1>1, <1>11, <3>2
    <3>5. e.col \in 0 .. Len(e.text[e.line] \o e.text[e.line + 1])
      BY <3>3, LinesIs
    <3>. QED BY <1>1, <3>1, <3>2, <3>5, JoinedIs
  <2>3. CASE ~ (e.col < Note!Width(e)) /\ ~ (e.line < Len(e.text))
    BY <1>0, <2>3 DEF Note!Deleted
  <2>. QED BY <2>1, <2>2, <2>3
<1>. QED BY <1>4, <1>5, <1>6

LEMMA RemarkedIs ==
  ASSUME NEW e, Inside(e), NEW from \in Nat, NEW to \in from .. Len(e.text[e.line]), NEW marker \in Line
  PROVE  Acts(e, Note!Remarked(e, from, to, marker))
<1>. DEFINE here == Note!Here(e)
            new == from + Len(marker)
            l == Note!Cut(here, from, to - from, marker)
            col == IF new = to THEN e.col ELSE IF e.col >= to THEN e.col - to + new ELSE new
<1>1. Fits(e) /\ here \in Line /\ Len(here) \in Nat /\ e.col \in 0 .. Len(here) /\ here = e.text[e.line]
  BY HereIs
<1>2. Len(marker) \in Nat
  BY LenProperties DEF Line
<1>3. Note!Remarked(e, from, to, marker) = Note!Col(Note!WroteHere(e, l), col)
  BY DEF Note!Remarked
<1>. HIDE DEF here
<1>4. to - from \in Nat /\ from + (to - from) <= Len(here) /\ to \in Nat
  BY <1>1
<1>5. l \in Line /\ Len(l) = Len(here) - (to - from) + Len(marker)
  <2>. DEFINE n == to - from
  <2>1. n \in Nat /\ from + n <= Len(here) /\ l = Note!Cut(here, from, n, marker)
    BY <1>4
  <2>. HIDE DEF n, l
  <2>2. Note!Cut(here, from, n, marker) \in Line
    BY <1>1, <2>1, LineCut
  <2>3. Len(Note!Cut(here, from, n, marker)) = Len(here) - n + Len(marker)
    BY <1>1, <2>1, LineCut
  <2>. QED BY <2>1, <2>2, <2>3 DEF n
<1>. HIDE DEF l
<1>6. col \in 0 .. Len(l)
  <2>. DEFINE a == Len(here)
              b == Len(marker)
              n == Len(l)
  <2>1. a \in Nat /\ b \in Nat /\ e.col \in 0 .. a /\ to \in from .. a /\ n = a - (to - from) + b
    BY <1>1, <1>2, <1>5
  <2>2. CASE from + b = to
    <3>1. col = e.col /\ n = a
      BY <2>1, <2>2
    <3>. QED BY <2>1, <3>1
  <2>3. CASE from + b # to /\ e.col >= to
    BY <2>1, <2>3
  <2>4. CASE from + b # to /\ ~ (e.col >= to)
    BY <2>1, <2>4
  <2>. QED BY <2>2, <2>3, <2>4
<1>. HIDE DEF col
<1>. QED BY <1>1, <1>3, <1>5, <1>6, WroteHereIs

LEMMA TogglesIs ==
  ASSUME NEW e, Inside(e)
  PROVE  Acts(e, Note!ToggleBullet(e)) /\ Acts(e, Note!ToggleCheckbox(e))
<1>. DEFINE l == Note!ListLine(Note!Here(e))
            bullet == IF l.kind = "prose" THEN <<"-", ".">> ELSE <<>>
            k == IF l.kind = "unchecked" THEN "checked" ELSE "unchecked"
<1>1. Note!Here(e) = e.text[e.line] /\ e.text[e.line] \in Line /\ Len(e.text[e.line]) \in Nat
  BY FitsIs DEF Note!Here, Inside
<1>2. l.indent \in 0 .. Len(e.text[e.line]) /\ l.width \in l.indent .. Len(e.text[e.line])
  BY <1>1, ListLineIs
<1>3. /\ Note!ToggleBullet(e) = Note!Remarked(e, l.indent, l.width, bullet)
      /\ Note!ToggleCheckbox(e) = Note!Remarked(e, l.indent, l.width, Append(Note!MarkOf(k), "."))
  BY DEF Note!ToggleBullet, Note!ToggleCheckbox
<1>4. bullet \in Line
  <2>1. "-" \in Note!Character /\ "." \in Note!Character
    BY DEF Note!Character
  <2>. QED BY <2>1 DEF Line
<1>5. Append(Note!MarkOf(k), ".") \in Line
  <2>1. k \in Note!Kinds
    BY DEF Note!Kinds
  <2>. HIDE DEF k
  <2>. QED BY <2>1, MarkOfIs
<1>. HIDE DEF l, bullet, k
<1>6. l.indent \in Nat
  BY <1>1, <1>2
<1>. QED BY <1>2, <1>3, <1>4, <1>5, <1>6, RemarkedIs

\* A movement: the caret goes somewhere in the text.
Moves(e, d) == Acts(e, d) /\ d.text = e.text

LEMMA StaysIs == ASSUME NEW e, Inside(e) PROVE Moves(e, e)
BY DEF Moves, Acts, Same, Inside, Fits, Note!Editor

LEMMA OntoLineIs ==
  ASSUME NEW e, Fits(e), NEW line \in 1 .. Len(e.text)
  PROVE  Moves(e, Note!OntoLine(e, line))
<1>1. Len(e.text[line]) \in Nat /\ e.col \in Nat
  BY FitsIs
<1>2. Note!Least(e.col, Len(e.text[line])) \in 0 .. Len(e.text[line])
  BY <1>1 DEF Note!Least
<1>. QED BY <1>2, AtIs DEF Note!OntoLine, Moves

LEMMA MovesIs ==
  ASSUME NEW e, Inside(e)
  PROVE  /\ Moves(e, Note!Up(e)) /\ Moves(e, Note!Down(e))
         /\ Moves(e, Note!Left(e)) /\ Moves(e, Note!Right(e))
         /\ Moves(e, Note!PageUp(e)) /\ Moves(e, Note!PageDown(e))
         /\ Moves(e, Note!Home(e)) /\ Moves(e, Note!End(e))
<1>0. /\ Fits(e) /\ e.line \in 1 .. Len(e.text) /\ Len(e.text) \in Nat \ {0} /\ e.viewport \in Nat /\ e.col \in Nat
      /\ Note!Width(e) = Len(e.text[e.line]) /\ e.col \in 0 .. Len(e.text[e.line]) /\ Len(e.text[e.line]) \in Nat
  BY HereIs, FitsIs
<1>1. \A i \in 1 .. Len(e.text) : Len(e.text[i]) \in Nat
  BY <1>0, FitsIs
<1>2. Moves(e, Note!Up(e)) /\ Moves(e, Note!Down(e))
  <2>1. e.line > 1 => e.line - 1 \in 1 .. Len(e.text)
    BY <1>0
  <2>2. e.line < Len(e.text) => e.line + 1 \in 1 .. Len(e.text)
    BY <1>0
  <2>. QED BY <1>0, <2>1, <2>2, OntoLineIs, StaysIs DEF Note!Up, Note!Down
<1>3. Moves(e, Note!Left(e))
  <2>1. CASE e.col > 0
    <3>1. e.col - 1 \in 0 .. Len(e.text[e.line]) /\ Note!Left(e) = Note!Col(e, e.col - 1)
      BY <1>0, <2>1 DEF Note!Left
    <3>. QED BY <1>0, <3>1, ColIs DEF Moves
  <2>2. CASE ~ (e.col > 0) /\ e.line > 1
    <3>1. e.line - 1 \in 1 .. Len(e.text)
      BY <1>0, <2>2
    <3>2. Len(e.text[e.line - 1]) \in 0 .. Len(e.text[e.line - 1])
      BY <1>1, <3>1
    <3>3. Note!Left(e) = Note!At(e, e.line - 1, Len(e.text[e.line - 1]))
      BY <2>2 DEF Note!Left
    <3>. QED BY <1>0, <3>1, <3>2, <3>3, AtIs DEF Moves
  <2>. QED BY <2>1, <2>2, StaysIs DEF Note!Left
<1>4. Moves(e, Note!Right(e))
  <2>1. CASE e.col < Note!Width(e)
    <3>1. e.col + 1 \in 0 .. Len(e.text[e.line]) /\ Note!Right(e) = Note!Col(e, e.col + 1)
      BY <1>0, <2>1 DEF Note!Right
    <3>. QED BY <1>0, <3>1, ColIs DEF Moves
  <2>2. CASE ~ (e.col < Note!Width(e)) /\ e.line < Len(e.text)
    <3>1. e.line + 1 \in 1 .. Len(e.text)
      BY <1>0, <2>2
    <3>2. 0 \in 0 .. Len(e.text[e.line + 1])
      BY <1>1, <3>1
    <3>3. Note!Right(e) = Note!At(e, e.line + 1, 0)
      BY <2>2 DEF Note!Right
    <3>. QED BY <1>0, <3>1, <3>2, <3>3, AtIs DEF Moves
  <2>. QED BY <2>1, <2>2, StaysIs DEF Note!Right
<1>5. Moves(e, Note!PageUp(e))
  <2>. DEFINE line == IF e.line > e.viewport THEN e.line - e.viewport ELSE 1
  <2>1. line \in 1 .. Len(e.text)
    BY <1>0
  <2>. QED BY <1>0, <2>1, OntoLineIs DEF Note!PageUp
<1>6. Moves(e, Note!PageDown(e))
  <2>1. Note!Least(e.line + e.viewport, Len(e.text)) \in 1 .. Len(e.text)
    BY <1>0 DEF Note!Least
  <2>. QED BY <1>0, <2>1, OntoLineIs DEF Note!PageDown
<1>7. Moves(e, Note!Home(e)) /\ Moves(e, Note!End(e))
  <2>1. 0 \in 0 .. Len(e.text[e.line]) /\ Len(e.text[e.line]) \in 0 .. Len(e.text[e.line])
    BY <1>0
  <2>. QED BY <1>0, <2>1, ColIs DEF Moves, Note!Home, Note!End
<1>. QED BY <1>2, <1>3, <1>4, <1>5, <1>6, <1>7

\* Of the places after the caret one is first, and of those before it one is last.
PlaceIn(e) == {p \in Nat \X Nat : p[1] \in 1 .. Len(e.text) /\ p[2] \in 0 .. Len(e.text[p[1]])}

LEMMA FirstPlace ==
  ASSUME NEW S \in SUBSET (Nat \X Nat), S # {}
  PROVE  \E p \in S : \A q \in S \ {p} : Note!After(q, p)
<1>. DEFINE L == {p[1] : p \in S}
<1>1. PICK l \in L : \A k \in L : l <= k
  <2>1. L \in SUBSET Nat /\ L # {}
    OBVIOUS
  <2>. HIDE DEF L
  <2>. QED BY <2>1, LeastOf
<1>. DEFINE C == {p[2] : p \in {q \in S : q[1] = l}}
<1>2. PICK c \in C : \A k \in C : c <= k
  <2>1. C \in SUBSET Nat /\ C # {}
    BY <1>1
  <2>. HIDE DEF C
  <2>. QED BY <2>1, LeastOf
<1>3. PICK p \in S : p[1] = l /\ p[2] = c
  BY <1>2
<1>4. ASSUME NEW q \in S \ {p} PROVE Note!After(q, p)
  <2>1. q[1] \in Nat /\ q[2] \in Nat /\ l <= q[1] /\ l \in Nat /\ c \in Nat
    BY <1>1, <1>3
  <2>2. q[1] = l => c <= q[2]
    BY <1>2
  <2>3. q # p => q[1] # p[1] \/ q[2] # p[2]
    OBVIOUS
  <2>. QED BY <1>3, <2>1, <2>2, <2>3 DEF Note!After
<1>. QED BY <1>3, <1>4

LEMMA LastOf ==
  ASSUME NEW e, Fits(e), NEW S \in SUBSET PlaceIn(e), S # {}
  PROVE  \E p \in S : \A q \in S \ {p} : Note!After(p, q)
<1>. DEFINE L == {p[1] : p \in S}
<1>0. Len(e.text) \in Nat /\ \A i \in 1 .. Len(e.text) : Len(e.text[i]) \in Nat
  BY FitsIs
<1>1. PICK l \in L : \A k \in L : k <= l
  <2>1. L \in SUBSET Nat /\ L # {} /\ \A k \in L : k <= Len(e.text)
    BY <1>0 DEF PlaceIn
  <2>. HIDE DEF L
  <2>. QED BY <1>0, <2>1, GreatestOf
<1>. DEFINE C == {p[2] : p \in {q \in S : q[1] = l}}
<1>2. PICK c \in C : \A k \in C : k <= c
  <2>1. C \in SUBSET Nat /\ C # {} /\ \A k \in C : k <= Len(e.text[l])
    BY <1>0, <1>1 DEF PlaceIn
  <2>2. Len(e.text[l]) \in Nat
    BY <1>0, <1>1 DEF PlaceIn
  <2>. HIDE DEF C
  <2>. QED BY <2>1, <2>2, GreatestOf
<1>3. PICK p \in S : p[1] = l /\ p[2] = c
  BY <1>2
<1>4. ASSUME NEW q \in S \ {p} PROVE Note!After(p, q)
  <2>1. q[1] \in Nat /\ q[2] \in Nat /\ q[1] <= l /\ l \in Nat /\ c \in Nat
    BY <1>1, <1>3 DEF PlaceIn
  <2>2. q[1] = l => q[2] <= c
    BY <1>2
  <2>3. q # p => q[1] # p[1] \/ q[2] # p[2]
    BY DEF PlaceIn
  <2>. QED BY <1>3, <2>1, <2>2, <2>3 DEF Note!After
<1>. QED BY <1>3, <1>4

LEMMA OntoIs ==
  ASSUME NEW e, Fits(e), NEW places \in SUBSET PlaceIn(e), NEW default \in PlaceIn(e)
  PROVE  Moves(e, Note!Onto(e, places, default))
<1>. DEFINE ahead == {p \in places : Note!After(p, <<e.line, e.col>>)}
            next == CHOOSE p \in ahead : \A q \in ahead \ {p} : Note!After(q, p)
<1>1. ahead # {} => next \in PlaceIn(e)
  <2>1. ahead \in SUBSET (Nat \X Nat) /\ ahead \subseteq PlaceIn(e)
    BY DEF PlaceIn
  <2>. HIDE DEF ahead
  <2>. QED BY <2>1, FirstPlace
<1>2. Note!Onto(e, places, default) =
        IF ahead = {} THEN Note!At(e, default[1], default[2]) ELSE Note!At(e, next[1], next[2])
  BY DEF Note!Onto
<1>. HIDE DEF ahead, next
<1>3. \A p \in PlaceIn(e) : Moves(e, Note!At(e, p[1], p[2]))
  BY AtIs DEF PlaceIn, Moves
<1>. QED BY <1>1, <1>2, <1>3

LEMMA WordsIs ==
  ASSUME NEW e, Inside(e), NEW big
  PROVE  /\ Moves(e, Note!WordForward(e, big)) /\ Moves(e, Note!WordEnd(e, big))
         /\ Moves(e, Note!WordBackward(e, big))
<1>0. /\ Fits(e) /\ Len(e.text) \in Nat \ {0} /\ DOMAIN e.text = 1 .. Len(e.text)
      /\ \A i \in 1 .. Len(e.text) : Len(e.text[i]) \in Nat /\ DOMAIN e.text[i] = 1 .. Len(e.text[i])
  <2>1. Fits(e) /\ \A i \in 1 .. Len(e.text) : e.text[i] \in Line
    BY FitsIs DEF Inside
  <2>2. \A i \in 1 .. Len(e.text) : DOMAIN e.text[i] = 1 .. Len(e.text[i])
    BY <2>1, LenProperties DEF Line
  <2>. QED BY <2>1, <2>2, FitsIs
<1>1. Note!Places(e) \subseteq PlaceIn(e)
  BY <1>0 DEF Note!Places, PlaceIn
<1>2. {<<l, 0>> : l \in {l \in DOMAIN e.text : e.text[l] = <<>>}} \subseteq PlaceIn(e)
  BY <1>0 DEF PlaceIn
<1>3. Note!WordStarts(e, big) \subseteq PlaceIn(e) /\ Note!WordEnds(e, big) \subseteq PlaceIn(e)
  BY <1>1, <1>2 DEF Note!WordStarts, Note!WordEnds
<1>4. Note!LastPlace(e) \in PlaceIn(e)
  <2>1. Len(e.text) \in 1 .. Len(e.text) /\ Len(e.text[Len(e.text)]) \in Nat
    BY <1>0
  <2>2. Note!Before(Len(e.text[Len(e.text)])) \in 0 .. Len(e.text[Len(e.text)])
    BY <2>1 DEF Note!Before
  <2>. QED BY <2>1, <2>2 DEF PlaceIn, Note!LastPlace, Note!Last
<1>5. Moves(e, Note!WordForward(e, big)) /\ Moves(e, Note!WordEnd(e, big))
  BY <1>0, <1>3, <1>4, OntoIs DEF Note!WordForward, Note!WordEnd
<1>6. Moves(e, Note!WordBackward(e, big))
  <2>. DEFINE behind == {p \in Note!WordStarts(e, big) : Note!After(<<e.line, e.col>>, p)}
              prior == CHOOSE p \in behind : \A q \in behind \ {p} : Note!After(p, q)
  <2>1. behind # {} => prior \in PlaceIn(e)
    <3>1. behind \subseteq PlaceIn(e)
      BY <1>3
    <3>. HIDE DEF behind
    <3>. QED BY <1>0, <3>1, LastOf
  <2>2. Note!WordBackward(e, big) =
          IF behind = {} THEN Note!At(e, 1, 0) ELSE Note!At(e, prior[1], prior[2])
    BY DEF Note!WordBackward
  <2>. HIDE DEF behind, prior
  <2>3. \A p \in PlaceIn(e) : Moves(e, Note!At(e, p[1], p[2]))
    BY <1>0, AtIs DEF PlaceIn, Moves
  <2>4. Moves(e, Note!At(e, 1, 0))
    <3>1. 1 \in 1 .. Len(e.text) /\ 0 \in 0 .. Len(e.text[1])
      BY <1>0
    <3>. QED BY <1>0, <3>1, AtIs DEF Moves
  <2>. QED BY <2>1, <2>2, <2>3, <2>4
<1>. QED BY <1>5, <1>6

\* What is not blank in a text, and that a line more takes none of it.
Cells(text) == UNION {{<<l, i>> : i \in DOMAIN text[l]} : l \in DOMAIN text}
Inked(text) == {p \in Cells(text) : text[p[1]][p[2]] # "."}

LEMMA CellsIs ==
  ASSUME NEW text \in Text
  PROVE  /\ IsFiniteSet(Cells(text))
         /\ \A l, i : <<l, i>> \in Cells(text) <=> (l \in 1 .. Len(text) /\ i \in DOMAIN text[l])
         /\ \A p \in Cells(text) : p = <<p[1], p[2]>> /\ p[1] \in 1 .. Len(text) /\ p[2] \in DOMAIN text[p[1]]
<1>1. Len(text) \in Nat /\ DOMAIN text = 1 .. Len(text)
  BY LenProperties DEF Text
<1>2. \A l \in 1 .. Len(text) : Len(text[l]) \in Nat /\ DOMAIN text[l] = 1 .. Len(text[l])
  <2>1. \A l \in 1 .. Len(text) : text[l] \in Line
    BY ElementOfSeq DEF Text
  <2>. QED BY <2>1, LenProperties DEF Line
<1>. DEFINE row == [l \in 1 .. Len(text) |-> {<<l, i>> : i \in DOMAIN text[l]}]
            lines == {{<<l, i>> : i \in DOMAIN text[l]} : l \in DOMAIN text}
<1>3. IsFiniteSet(1 .. Len(text))
  BY <1>1, FS_Interval
<1>4. row \in Surjection(1 .. Len(text), lines)
  BY <1>1 DEF Surjection
<1>5. IsFiniteSet(lines)
  <2>. HIDE DEF row, lines
  <2>. QED BY <1>3, <1>4, FS_Surjection
<1>6. ASSUME NEW R \in lines PROVE IsFiniteSet(R)
  <2>1. PICK l \in 1 .. Len(text) : R = {<<l, i>> : i \in 1 .. Len(text[l])}
    BY <1>1, <1>2
  <2>. DEFINE cell == [i \in 1 .. Len(text[l]) |-> <<l, i>>]
  <2>2. cell \in Surjection(1 .. Len(text[l]), R)
    BY <2>1 DEF Surjection
  <2>3. IsFiniteSet(1 .. Len(text[l]))
    BY <1>2, FS_Interval
  <2>. HIDE DEF cell
  <2>. QED BY <2>2, <2>3, FS_Surjection
<1>7. Cells(text) = UNION lines
  BY DEF Cells
<1>8. IsFiniteSet(Cells(text))
  <2>. HIDE DEF lines
  <2>. QED BY <1>5, <1>6, <1>7, FS_UNION
<1>9. \A l, i : <<l, i>> \in Cells(text) <=> (l \in 1 .. Len(text) /\ i \in DOMAIN text[l])
  BY <1>1 DEF Cells
<1>10. \A p \in Cells(text) : p = <<p[1], p[2]>> /\ p[1] \in 1 .. Len(text) /\ p[2] \in DOMAIN text[p[1]]
  BY <1>1 DEF Cells
<1>. QED BY <1>8, <1>9, <1>10

LEMMA SameCharCount == ASSUME NEW S PROVE Note!Cardinality(S) = Cardinality(S)
BY DEF Cardinality, Note!Cardinality

LEMMA CharsIs == ASSUME NEW text PROVE Note!Chars(text) = Cardinality(Inked(text))
<1>1. Note!Chars(text) = Note!Cardinality(Inked(text))
  BY DEF Note!Chars, Inked, Cells
<1>. QED BY <1>1, SameCharCount

LEMMA LineMore ==
  ASSUME NEW s \in Text, NEW x \in Line, NEW i \in 1 .. Len(s) + 1
  PROVE  Note!Chars(Note!InsertAt(s, i, x)) >= Note!Chars(s)
<1>. DEFINE t == Note!InsertAt(s, i, x)
            moved == [p \in Inked(s) |-> <<IF p[1] < i THEN p[1] ELSE p[1] + 1, p[2]>>]
<1>01. s \in Seq(Line) /\ Len(s) \in Nat
  BY LenProperties DEF Text
<1>02. /\ Note!InsertAt(s, i, x) \in Seq(Line) /\ Len(Note!InsertAt(s, i, x)) = Len(s) + 1
       /\ \A j \in 1 .. Len(s) + 1 : Note!InsertAt(s, i, x)[j] =
                IF j < i THEN s[j] ELSE IF j = i THEN x ELSE s[j - 1]
  <2>. DEFINE Is(S, q, y, k) ==
                /\ Note!InsertAt(q, k, y) \in Seq(S) /\ Len(Note!InsertAt(q, k, y)) = Len(q) + 1
                /\ \A j \in 1 .. Len(q) + 1 : Note!InsertAt(q, k, y)[j] =
                       IF j < k THEN q[j] ELSE IF j = k THEN y ELSE q[j - 1]
  <2>1. \A S : \A q \in Seq(S), y \in S : \A k \in 1 .. Len(q) + 1 : Is(S, q, y, k)
    BY InsertAtIs, Zenon
  <2>. HIDE DEF t, moved, Is
  <2>2. Is(Line, s, x, i)
    BY <1>01, <2>1, Zenon
  <2>. QED BY <2>2 DEF Is
<1>03. t = Note!InsertAt(s, i, x)
  OBVIOUS
<1>. HIDE DEF t
<1>1. /\ t \in Text /\ Len(t) = Len(s) + 1 /\ Len(s) \in Nat
      /\ \A j \in 1 .. Len(s) + 1 : t[j] = IF j < i THEN s[j] ELSE IF j = i THEN x ELSE s[j - 1]
  BY <1>01, <1>02, <1>03 DEF Text
<1>2. ASSUME NEW p \in Inked(s)
      PROVE  moved[p] \in Inked(t)
  <2>1. p[1] \in 1 .. Len(s) /\ p[2] \in DOMAIN s[p[1]] /\ s[p[1]][p[2]] # "."
    BY CellsIs DEF Inked
  <2>. DEFINE l == IF p[1] < i THEN p[1] ELSE p[1] + 1
  <2>2. l \in 1 .. Len(t) /\ t[l] = s[p[1]]
    BY <1>1, <2>1
  <2>3. moved[p] = <<l, p[2]>>
    OBVIOUS
  <2>. HIDE DEF l, moved
  <2>4. <<l, p[2]>> \in Cells(t)
    BY <1>1, <2>1, <2>2, CellsIs
  <2>. QED BY <2>1, <2>2, <2>3, <2>4 DEF Inked
<1>3. ASSUME NEW p \in Inked(s), NEW q \in Inked(s), moved[p] = moved[q]
      PROVE  p = q
  <2>1. p = <<p[1], p[2]>> /\ q = <<q[1], q[2]>> /\ p[1] \in 1 .. Len(s) /\ q[1] \in 1 .. Len(s)
    BY CellsIs DEF Inked
  <2>2. p[2] = q[2] /\ (IF p[1] < i THEN p[1] ELSE p[1] + 1) = (IF q[1] < i THEN q[1] ELSE q[1] + 1)
    BY <1>3
  <2>3. p[1] = q[1]
    BY <1>1, <2>1, <2>2
  <2>. QED BY <2>1, <2>2, <2>3
<1>4. moved \in Injection(Inked(s), Inked(t))
  <2>1. moved \in [Inked(s) -> Inked(t)]
    BY <1>2
  <2>2. \A p, q \in Inked(s) : moved[p] = moved[q] => p = q
    BY <1>3
  <2>3. DOMAIN moved = Inked(s)
    OBVIOUS
  <2>. HIDE DEF moved
  <2>. QED BY <2>1, <2>2, <2>3 DEF Injection, IsInjective
<1>5. IsFiniteSet(Inked(t)) /\ IsFiniteSet(Inked(s))
  <2>1. IsFiniteSet(Cells(t)) /\ IsFiniteSet(Cells(s))
    BY <1>1, CellsIs
  <2>2. Inked(t) \in SUBSET Cells(t) /\ Inked(s) \in SUBSET Cells(s)
    BY DEF Inked
  <2>. QED BY <2>1, <2>2, FS_Subset
<1>. HIDE DEF moved
<1>6. Cardinality(Inked(s)) <= Cardinality(Inked(t))
  BY <1>4, <1>5, FS_Injection
<1>7. Note!Chars(s) = Cardinality(Inked(s)) /\ Note!Chars(t) = Cardinality(Inked(t))
  BY CharsIs
<1>8. Cardinality(Inked(s)) \in Nat /\ Cardinality(Inked(t)) \in Nat
  BY <1>5, FS_CardinalityType
<1>. QED BY <1>03, <1>6, <1>7, <1>8

Kept(e, d) == Note!Chars(d.text) >= Note!Chars(e.text)

LEMMA KeptIs ==
  ASSUME NEW e, NEW d, Fits(e), d.text = e.text
  PROVE  Kept(e, d)
<1>1. e.text \in Text
  BY FitsIs
<1>2. IsFiniteSet(Inked(e.text))
  <2>1. Inked(e.text) \in SUBSET Cells(e.text)
    BY DEF Inked
  <2>. QED BY <1>1, <2>1, CellsIs, FS_Subset
<1>3. Note!Chars(e.text) \in Nat
  BY <1>2, CharsIs, FS_CardinalityType
<1>. QED BY <1>3 DEF Kept

LEMMA BeforeIs == ASSUME NEW n \in Nat PROVE Note!Before(n) \in 0 .. n
BY DEF Note!Before

LEMMA LeastIs ==
  ASSUME NEW a \in Nat, NEW b \in Nat
  PROVE  /\ Note!Least(a, b) \in 0 .. a /\ Note!Least(a, b) \in 0 .. b
         /\ a > 0 /\ b > 0 => Note!Least(a, b) > 0
BY DEF Note!Least

\* clamp_normal puts the caret on a character.
OnOne(e) == Inside(e) /\ (e.normal => e.col <= Note!Before(Len(e.text[e.line])))
CaretOK(e) == OnOne(e) /\ (e.pending # "none" => e.normal)

LEMMA ClampIs ==
  ASSUME NEW e, Fits(e)
  PROVE  Moves(e, Note!ClampNormal(e)) /\ OnOne(Note!ClampNormal(e))
<1>. DEFINE w == Len(e.text[e.line])
            c == Note!Least(e.col, Note!Before(w))
            d == Note!Col(e, c)
<1>1. w \in Nat /\ e.col \in Nat /\ e.line \in 1 .. Len(e.text) /\ e \in Note!Editor
  BY FitsIs
<1>2. Note!ClampNormal(e) = d
  BY DEF Note!ClampNormal, Note!Width, Note!Here
<1>3. d.col = c /\ d.line = e.line /\ d.text = e.text
  BY <1>1 DEF Note!Col, Note!Editor
<1>. HIDE DEF w, d
<1>4. c \in 0 .. w /\ c <= Note!Before(w)
  <2>. DEFINE b == Note!Before(w)
  <2>1. b \in 0 .. w
    BY <1>1, BeforeIs
  <2>2. c = Note!Least(e.col, b)
    OBVIOUS
  <2>. HIDE DEF b, c
  <2>3. c \in 0 .. w /\ c <= b
    BY <1>1, <2>1, <2>2 DEF Note!Least
  <2>. QED BY <2>3 DEF b
<1>. HIDE DEF c
<1>5. Acts(e, d)
  BY <1>4, ColIs DEF w, d
<1>6. Moves(e, d)
  BY <1>3, <1>5 DEF Moves
<1>7. d.col <= Note!Before(Len(d.text[d.line]))
  BY <1>3, <1>4 DEF w
<1>. QED BY <1>2, <1>5, <1>6, <1>7 DEF OnOne, Acts

LEMMA TypingIs ==
  ASSUME NEW e, NEW d, Acts(e, d)
  PROVE  /\ Inside(Note!Typing(d)) /\ Same(e, Note!Typing(d)) /\ Note!Typing(d).text = d.text
         /\ ~ Note!Typing(d).normal /\ Note!Typing(d).pending = e.pending
BY DEF Note!Typing, Acts, Inside, Fits, Same, Note!Editor

LEMMA EnterNormalIs ==
  ASSUME NEW e, Fits(e)
  PROVE  /\ CaretOK(Note!EnterNormal(e)) /\ Same(e, Note!EnterNormal(e))
         /\ Note!EnterNormal(e).normal /\ Note!EnterNormal(e).text = e.text
         /\ Note!EnterNormal(e).pending = "none"
         /\ Note!EnterNormal(e).dirty = e.dirty
<1>. DEFINE d == [e EXCEPT !.normal = TRUE, !.pending = "none"]
            c == Note!ClampNormal(d)
<1>1. /\ Fits(d) /\ Same(e, d) /\ d.text = e.text /\ d.normal /\ d.pending = "none" /\ d.dirty = e.dirty
      /\ d \in Note!Editor
  BY DEF Fits, Same, Note!Editor
<1>2. Note!EnterNormal(e) = c
  BY DEF Note!EnterNormal
<1>21. c.dirty = d.dirty
  BY <1>1 DEF Note!ClampNormal, Note!Col, Note!Editor
<1>. HIDE DEF d
<1>3. Moves(d, c) /\ OnOne(c)
  BY <1>1, ClampIs
<1>. HIDE DEF c
<1>. QED BY <1>1, <1>2, <1>21, <1>3 DEF Moves, Acts, Same, CaretOK

LEMMA OpenLineIs ==
  ASSUME NEW e, Inside(e), NEW at \in 1 .. Len(e.text) + 1
  PROVE  /\ Inside(Note!OpenLine(e, at)) /\ Same(e, Note!OpenLine(e, at)) /\ Kept(e, Note!OpenLine(e, at))
         /\ ~ Note!OpenLine(e, at).normal /\ Note!OpenLine(e, at).pending = e.pending
<1>. DEFINE prefix == Note!Continued(Note!Here(e))
            text == Note!InsertAt(e.text, at, prefix)
            d == Note!At(Note!Wrote(e, text), at, Len(prefix))
<1>1. Fits(e) /\ e.text \in Text /\ e.text \in Seq(Line) /\ Len(e.text) \in Nat /\ Note!Here(e) \in Line
  BY HereIs, FitsIs DEF Text
<1>2. prefix \in Line /\ Len(prefix) \in Nat
  <2>1. prefix \in Line
    BY <1>1, ContinuedIs
  <2>. QED BY <2>1, LenProperties DEF Line
<1>. HIDE DEF prefix
<1>3. text \in Text /\ Len(text) = Len(e.text) + 1 /\ text[at] = prefix
  BY <1>1, <1>2, InsertAtIs DEF Text
<1>4. Note!Chars(text) >= Note!Chars(e.text)
  BY <1>1, <1>2, LineMore
<1>5. Note!OpenLine(e, at) = Note!Typing(d)
  BY DEF Note!OpenLine, prefix
<1>. HIDE DEF text
<1>6. at \in 1 .. Len(text) /\ Len(prefix) \in 0 .. Len(text[at])
  BY <1>1, <1>2, <1>3
<1>7. Acts(e, d) /\ d.text = text
  BY <1>1, <1>3, <1>6, WroteIs
<1>. HIDE DEF d
<1>8. /\ Inside(Note!Typing(d)) /\ Same(e, Note!Typing(d)) /\ Note!Typing(d).text = text
      /\ ~ Note!Typing(d).normal /\ Note!Typing(d).pending = e.pending
  BY <1>7, TypingIs
<1>. QED BY <1>4, <1>5, <1>8 DEF Kept

LEMMA DeleteLineIs ==
  ASSUME NEW e, Inside(e)
  PROVE  Acts(e, Note!DeleteLine(e)) /\ Note!DeleteLine(e).col = 0
<1>1. /\ Fits(e) /\ e \in Note!Editor /\ e.text \in Seq(Line) /\ Len(e.text) \in Nat \ {0}
      /\ e.line \in 1 .. Len(e.text) /\ Len(e.text[e.line]) \in Nat
  BY HereIs, FitsIs DEF Text
<1>2. CASE Len(e.text) = 1
  <2>1. 0 \in 0 .. Len(e.text[e.line])
    BY <1>1
  <2>2. \/ Note!DeleteLine(e) = Note!Col(e, 0)
        \/ Note!DeleteLine(e) = Note!Col(Note!WroteHere(e, <<>>), 0)
    BY <1>2 DEF Note!DeleteLine
  <2>3. Acts(e, Note!Col(e, 0)) /\ Note!Col(e, 0).col = 0
    BY <1>1, <2>1, ColIs DEF Note!Col, Note!Editor
  <2>4. Acts(e, Note!Col(Note!WroteHere(e, <<>>), 0)) /\ Note!Col(Note!WroteHere(e, <<>>), 0).col = 0
    <3>1. Acts(e, Note!Col(Note!WroteHere(e, <<>>), 0))
      <4>1. <<>> \in Line /\ 0 \in 0 .. Len(<<>>)
        BY NoLineIs
      <4>. QED BY <1>1, <4>1, WroteHereIs
    <3>2. Note!Col(Note!WroteHere(e, <<>>), 0).col = 0
      BY <1>1 DEF Note!Col, Note!WroteHere, Note!Wrote, Note!Editor
    <3>. QED BY <3>1, <3>2
  <2>. QED BY <2>2, <2>3, <2>4
<1>3. CASE Len(e.text) # 1
  <2>. DEFINE text == Note!RemoveAt(e.text, e.line)
              line == Note!Least(e.line, Len(e.text) - 1)
              d == Note!At(Note!Wrote(e, text), line, 0)
  <2>1. text \in Text /\ Len(text) = Len(e.text) - 1
    BY <1>1, RemoveAtIs DEF Text
  <2>2. Note!DeleteLine(e) = d
    BY <1>3 DEF Note!DeleteLine
  <2>3. line \in 1 .. Len(e.text) - 1
    <3>. DEFINE n == Len(e.text) - 1
                k == e.line
    <3>1. n \in Nat /\ n > 0
      <4>. DEFINE m == Len(e.text)
      <4>1. m \in Nat /\ m # 0 /\ m # 1 /\ n = m - 1
        BY <1>1, <1>3
      <4>. HIDE DEF m, n
      <4>. QED BY <4>1
    <3>2. k \in Nat /\ k > 0
      BY <1>1
    <3>3. line = Note!Least(k, n)
      OBVIOUS
    <3>. HIDE DEF line, n, k
    <3>4. line \in 0 .. n /\ line > 0
      BY <3>1, <3>2, <3>3, LeastIs
    <3>5. line \in 1 .. n
      BY <3>1, <3>4
    <3>. QED BY <3>5 DEF n
  <2>. HIDE DEF text, line
  <2>4. line \in 1 .. Len(text) /\ 0 \in 0 .. Len(text[line])
    <3>1. line \in 1 .. Len(text)
      BY <2>1, <2>3
    <3>2. Len(text[line]) \in Nat
      BY <2>1, <3>1, TextIs
    <3>. QED BY <3>1, <3>2
  <2>5. Acts(e, d)
    BY <1>1, <2>1, <2>4, WroteIs
  <2>6. d.col = 0
    BY <1>1 DEF Note!At, Note!Wrote, Note!Editor
  <2>. QED BY <2>2, <2>5, <2>6
<1>. QED BY <1>2, <1>3

\* What a verb leaves, before the caret is put back on a character.
Lands(e, d) == Fits(d) /\ Same(e, d) /\ (~ d.normal => Inside(d))

LEMMA MovesLand ==
  ASSUME NEW e, NEW d, Inside(e), Moves(e, d)
  PROVE  Lands(e, d) /\ d.pending = e.pending /\ Kept(e, d)
BY KeptIs DEF Moves, Acts, Lands, Inside

LEMMA VerbIs ==
  ASSUME NEW e, Inside(e), e.normal, NEW v \in Note!Verbs
  PROVE  /\ Lands(e, Note!Verb(e, v))
         /\ Note!Verb(e, v).pending = (IF v \in {"g", "d"} THEN v ELSE e.pending)
         /\ v \in {"g", "d"} => Note!Verb(e, v).normal = e.normal
         /\ v # "x" => Kept(e, Note!Verb(e, v))
<1>. DEFINE w == Len(e.text[e.line])
            d == Note!Verb(e, v)
<1>0. e.col \in Nat
  BY HereIs, FitsIs
<1>1. /\ Fits(e) /\ Note!Here(e) = e.text[e.line] /\ Note!Here(e) \in Line /\ Note!Width(e) = w /\ w \in Nat
      /\ e.col \in 0 .. w /\ e.line \in 1 .. Len(e.text) /\ Len(e.text) \in Nat \ {0} /\ e \in Note!Editor
  BY HereIs, FitsIs
<1>2. /\ Note!Before(e.col) \in 0 .. w /\ Note!Indent(Note!Here(e)) \in 0 .. w
      /\ Note!Least(e.col + 1, Note!Before(w)) \in 0 .. w /\ Note!Least(e.col + 1, w) \in 0 .. w
  <2>1. Note!Before(e.col) \in 0 .. w
    <3>1. e.col \in Nat
      BY <1>1
    <3>2. Note!Before(e.col) \in 0 .. e.col
      BY <3>1, BeforeIs
    <3>. QED BY <1>1, <3>2
  <2>2. Note!Indent(Note!Here(e)) \in 0 .. w
    BY <1>1, IndentIs
  <2>3. \A b \in 0 .. w : Note!Least(e.col + 1, b) \in 0 .. w
    <3>. SUFFICES ASSUME NEW b \in 0 .. w PROVE Note!Least(e.col + 1, b) \in 0 .. w
      OBVIOUS
    <3>1. e.col + 1 \in Nat /\ b \in Nat
      BY <1>1
    <3>. DEFINE m == Note!Least(e.col + 1, b)
    <3>2. m \in 0 .. b
      BY <3>1, LeastIs
    <3>. HIDE DEF m
    <3>3. m \in 0 .. w
      BY <1>1, <3>2
    <3>. QED BY <3>3 DEF m
  <2>4. Note!Before(w) \in 0 .. w /\ w \in 0 .. w
    <3>. HIDE DEF w
    <3>. QED BY <1>1, BeforeIs
  <2>. QED BY <2>1, <2>2, <2>3, <2>4
<1>. HIDE DEF w
<1>3. \A col \in 0 .. w : Moves(e, Note!Col(e, col))
  BY <1>1, ColIs DEF w, Moves
<1>4. CASE v \in {"h", "l", "j", "k", "0", "^", "$"}
  <2>1. Moves(e, d)
    <3>1. CASE v = "h"
      BY <1>2, <1>3, <3>1 DEF Note!Verb
    <3>2. CASE v = "l"
      BY <1>1, <1>2, <1>3, <3>2 DEF Note!Verb
    <3>3. CASE v = "j"
      BY <3>3, MovesIs DEF Note!Verb
    <3>4. CASE v = "k"
      BY <3>4, MovesIs DEF Note!Verb
    <3>5. CASE v = "0"
      BY <3>5, MovesIs DEF Note!Verb
    <3>6. CASE v = "^"
      BY <1>2, <1>3, <3>6 DEF Note!Verb
    <3>7. CASE v = "$"
      BY <3>7, MovesIs DEF Note!Verb
    <3>. QED BY <1>4, <3>1, <3>2, <3>3, <3>4, <3>5, <3>6, <3>7
  <2>. QED BY <1>4, <2>1, MovesLand
<1>5. CASE v \in {"w", "W", "b", "B", "e", "E"}
  <2>1. Moves(e, d)
    <3>1. CASE v \in {"w", "W"}
      BY <3>1, WordsIs DEF Note!Verb
    <3>2. CASE v \in {"b", "B"}
      BY <3>2, WordsIs DEF Note!Verb
    <3>3. CASE v \in {"e", "E"}
      BY <3>3, WordsIs DEF Note!Verb
    <3>. QED BY <1>5, <3>1, <3>2, <3>3
  <2>. QED BY <1>5, <2>1, MovesLand
<1>6. CASE v = "G"
  <2>1. d = Note!At(e, Len(e.text), e.col)
    BY <1>6 DEF Note!Verb
  <2>2. Fits(d) /\ Same(e, d) /\ d.text = e.text /\ d.normal = e.normal /\ d.pending = e.pending
    <3>. DEFINE c == Note!At(e, Len(e.text), e.col)
    <3>1. /\ c.text = e.text /\ c.line = Len(e.text) /\ c.branch = e.branch /\ c.seen = e.seen
          /\ c.viewport = e.viewport /\ c.dirty = e.dirty /\ c.normal = e.normal /\ c.pending = e.pending
      BY <1>1 DEF Note!At, Note!Editor
    <3>2. c \in Note!Editor
      BY <1>0, <1>1 DEF Note!At, Note!Editor
    <3>3. Len(e.text) \in DOMAIN e.text /\ e.text # <<>> /\ e.dirty \in BOOLEAN
      BY <1>1, FitsIs DEF Fits
    <3>4. d = c
      BY <2>1
    <3>. HIDE DEF c, d
    <3>. QED BY <3>1, <3>2, <3>3, <3>4 DEF Fits, Same
  <2>. QED BY <1>1, <1>6, <2>2, KeptIs DEF Lands
<1>7. CASE v \in {"g", "d"}
  <2>1. d = [e EXCEPT !.pending = v]
    BY <1>7 DEF Note!Verb
  <2>2. Fits(d) /\ Same(e, d) /\ d.text = e.text /\ d.normal = e.normal /\ d.pending = v
    BY <1>1, <1>7, <2>1 DEF Fits, Same, Note!Editor
  <2>. QED BY <1>1, <1>7, <2>2, KeptIs DEF Lands
<1>8. CASE v = "x"
  <2>1. d = Note!DeleteUnder(e)
    BY <1>8 DEF Note!Verb
  <2>2. Acts(e, d)
    BY <2>1, DeletesIs
  <2>. QED BY <1>8, <2>2 DEF Acts, Lands, Inside
<1>9. CASE v \in {"i", "I", "a", "A"}
  <2>1. PICK m : Moves(e, m) /\ d = Note!Typing(m)
    <3>1. CASE v = "i"
      BY <3>1, StaysIs DEF Note!Verb
    <3>2. CASE v = "I"
      BY <1>2, <1>3, <3>2 DEF Note!Verb
    <3>3. CASE v = "a"
      BY <1>1, <1>2, <1>3, <3>3 DEF Note!Verb
    <3>4. CASE v = "A"
      BY <3>4, MovesIs DEF Note!Verb
    <3>. QED BY <1>9, <3>1, <3>2, <3>3, <3>4
  <2>2. Acts(e, m) /\ m.text = e.text
    BY <2>1 DEF Moves
  <2>3. Inside(d) /\ Same(e, d) /\ d.text = e.text /\ ~ d.normal /\ d.pending = e.pending
    BY <2>1, <2>2, TypingIs
  <2>. QED BY <1>1, <1>9, <2>3, KeptIs DEF Lands, Inside
<1>10. CASE v \in {"o", "O"}
  <2>1. PICK at \in 1 .. Len(e.text) + 1 : d = Note!OpenLine(e, at)
    <3>1. e.line \in 1 .. Len(e.text) + 1 /\ e.line + 1 \in 1 .. Len(e.text) + 1
      BY <1>1
    <3>. QED BY <1>10, <3>1 DEF Note!Verb
  <2>2. Inside(d) /\ Same(e, d) /\ Kept(e, d) /\ ~ d.normal /\ d.pending = e.pending
    BY <2>1, OpenLineIs
  <2>. QED BY <1>10, <2>2 DEF Lands, Inside
<1>. QED BY <1>4, <1>5, <1>6, <1>7, <1>8, <1>9, <1>10 DEF Note!Verbs

LEMMA MovedIs ==
  ASSUME NEW e, Inside(e), NEW k \in Note!Shared
  PROVE  Acts(e, Note!Moved(e, k)) /\ (k \notin {"bullet", "checkbox"} => Moves(e, Note!Moved(e, k)))
<1>1. CASE k \in {"Left", "Right", "Up", "Down", "Home", "End", "PageUp", "PageDown"}
  <2>1. Moves(e, Note!Moved(e, k))
    <3>1. CASE k = "Left"
      BY <3>1, MovesIs DEF Note!Moved
    <3>2. CASE k = "Right"
      BY <3>2, MovesIs DEF Note!Moved
    <3>3. CASE k = "Up"
      BY <3>3, MovesIs DEF Note!Moved
    <3>4. CASE k = "Down"
      BY <3>4, MovesIs DEF Note!Moved
    <3>5. CASE k = "Home"
      BY <3>5, MovesIs DEF Note!Moved
    <3>6. CASE k = "End"
      BY <3>6, MovesIs DEF Note!Moved
    <3>7. CASE k = "PageUp"
      BY <3>7, MovesIs DEF Note!Moved
    <3>8. CASE k = "PageDown"
      BY <3>8, MovesIs DEF Note!Moved
    <3>. QED BY <1>1, <3>1, <3>2, <3>3, <3>4, <3>5, <3>6, <3>7, <3>8
  <2>. QED BY <2>1 DEF Moves
<1>2. CASE k = "bullet"
  BY <1>2, TogglesIs DEF Note!Moved
<1>3. CASE k = "checkbox"
  BY <1>3, TogglesIs DEF Note!Moved
<1>. QED BY <1>1, <1>2, <1>3 DEF Note!Shared

\* A verb that was half typed is dropped.
LEMMA CalmIs ==
  ASSUME NEW e, CaretOK(e)
  PROVE  LET d == [e EXCEPT !.pending = "none"]
         IN  /\ CaretOK(d) /\ Inside(d) /\ Fits(d) /\ Same(e, d) /\ Kept(e, d) /\ d.text = e.text
             /\ d.normal = e.normal /\ d.pending = "none" /\ d.line = e.line
<1>. DEFINE d == [e EXCEPT !.pending = "none"]
<1>0. Inside(e) /\ Fits(e)
  BY DEF CaretOK, OnOne, Inside
<1>1. /\ d \in Note!Editor /\ d.text = e.text /\ d.line = e.line /\ d.col = e.col /\ d.branch = e.branch
      /\ d.seen = e.seen /\ d.viewport = e.viewport /\ d.dirty = e.dirty /\ d.normal = e.normal
      /\ d.pending = "none"
  BY <1>0 DEF Fits, Note!Editor
<1>2. e.dirty \in BOOLEAN
  BY <1>0, FitsIs
<1>3. Kept(e, d)
  BY <1>0, <1>1, KeptIs
<1>. HIDE DEF d
<1>4. Inside(d) /\ Fits(d) /\ Same(e, d)
  BY <1>0, <1>1, <1>2 DEF Fits, Inside, Same
<1>5. CaretOK(d)
  BY <1>1, <1>4 DEF CaretOK, OnOne
<1>. QED BY <1>1, <1>3, <1>4, <1>5 DEF d

LEMMA SameOn == ASSUME NEW e, NEW d, NEW f, Same(e, d), Same(d, f) PROVE Same(e, f)
BY DEF Same

\* What a key does: a change of the text is remembered, and a verb that waits is the key.
Plays(e, k, d) ==
  /\ CaretOK(d) /\ Same(e, d) /\ (d.normal => e.normal)
  /\ d.pending # "none" => d.pending = k

LEMMA ClampPlays ==
  ASSUME NEW e, NEW d, NEW k, Lands(e, d), e.normal, d.normal, d.pending # "none" => d.pending = k
  PROVE  Plays(e, k, Note!ClampNormal(d)) /\ (Kept(e, d) => Kept(e, Note!ClampNormal(d)))
<1>. DEFINE c == Note!ClampNormal(d)
<1>1. Moves(d, c) /\ OnOne(c)
  BY ClampIs DEF Lands
<1>. HIDE DEF c
<1>2. Same(e, c)
  BY <1>1, SameOn DEF Lands, Moves, Acts
<1>3. c.text = d.text /\ c.normal = d.normal /\ c.pending = d.pending
  BY <1>1 DEF Moves, Acts
<1>. QED BY <1>1, <1>2, <1>3 DEF Plays, CaretOK, Kept, c

LEMMA SharedKeyIs ==
  ASSUME NEW e, CaretOK(e), NEW k \in Note!Shared
  PROVE  /\ Plays(e, k, Note!SharedKey(e, k))
         /\ e.normal /\ k \notin {"bullet", "checkbox"} => Kept(e, Note!SharedKey(e, k))
<1>1. CASE e.normal
  <2>. DEFINE r == [e EXCEPT !.pending = "none"]
              m == Note!Moved(r, k)
  <2>1. /\ Inside(r) /\ Fits(r) /\ Same(e, r) /\ r.text = e.text /\ r.normal = e.normal /\ r.pending = "none"
        /\ Fits(e)
    BY CalmIs DEF CaretOK, OnOne, Inside
  <2>2. Note!SharedKey(e, k) = Note!ClampNormal(m)
    BY <1>1 DEF Note!SharedKey
  <2>. HIDE DEF r
  <2>3. Acts(r, m) /\ (k \notin {"bullet", "checkbox"} => Moves(r, m))
    BY <2>1, MovedIs
  <2>. HIDE DEF m
  <2>4. Lands(e, m) /\ m.normal /\ m.pending = "none"
    BY <1>1, <2>1, <2>3, SameOn DEF Acts, Lands, Inside
  <2>5. k \notin {"bullet", "checkbox"} => Kept(e, m)
    BY <2>1, <2>3, KeptIs DEF Moves
  <2>. QED BY <1>1, <2>2, <2>4, <2>5, ClampPlays
<1>2. CASE ~ e.normal
  <2>1. Note!SharedKey(e, k) = Note!Moved(e, k)
    BY <1>2 DEF Note!SharedKey
  <2>2. Acts(e, Note!Moved(e, k))
    BY MovedIs DEF CaretOK, OnOne
  <2>. QED BY <1>2, <2>1, <2>2 DEF Acts, Plays, CaretOK, OnOne
<1>. QED BY <1>1, <1>2

LEMMA InsertKeyIs ==
  ASSUME NEW e, Inside(e), NEW k \in Note!EditKeys \cup Note!Character
  PROVE  Acts(e, Note!InsertKey(e, k))
<1>1. CASE k = "Enter"
  BY <1>1, NewlineIs DEF Note!InsertKey
<1>2. CASE k = "Backspace"
  BY <1>2, DeletesIs DEF Note!InsertKey
<1>3. CASE k = "Delete"
  BY <1>3, DeletesIs DEF Note!InsertKey
<1>4. CASE k \notin {"Enter", "Backspace", "Delete"}
  <2>1. k \in Note!Character
    BY <1>4 DEF Note!EditKeys
  <2>2. Note!InsertKey(e, k) = Note!Inserted(e, k)
    BY <1>4 DEF Note!InsertKey
  <2>. QED BY <2>1, <2>2, InsertedIs
<1>. QED BY <1>1, <1>2, <1>3, <1>4

LEMMA NormalKeyIs ==
  ASSUME NEW e, CaretOK(e), e.normal, NEW v \in Note!Verbs
  PROVE  /\ Plays(e, v, Note!NormalKey(e, v))
         /\ v = "x" \/ (v = "d" /\ e.pending = "d") \/ Kept(e, Note!NormalKey(e, v))
<1>. DEFINE r == [e EXCEPT !.pending = "none"]
<1>1. /\ CaretOK(r) /\ Inside(r) /\ Fits(r) /\ Same(e, r) /\ Kept(e, r) /\ r.text = e.text
      /\ r.normal /\ r.pending = "none" /\ Fits(e) /\ Inside(e) /\ r \in Note!Editor
  <2>1. Inside(e) /\ Fits(e)
    BY DEF CaretOK, OnOne, Inside
  <2>. QED BY <2>1, CalmIs DEF Fits
<1>2. CASE e.pending = "g" /\ v = "g"
  <2>. DEFINE d == [r EXCEPT !.line = 1]
  <2>0. Note!NormalKey(e, v) = Note!ClampNormal(d)
    BY <1>2 DEF Note!NormalKey
  <2>. HIDE DEF r
  <2>1. /\ d \in Note!Editor /\ d.text = r.text /\ d.line = 1 /\ d.branch = r.branch /\ d.seen = r.seen
        /\ d.viewport = r.viewport /\ d.dirty = r.dirty /\ d.normal = r.normal /\ d.pending = r.pending
    BY <1>1 DEF Note!Editor
  <2>2. 1 \in DOMAIN r.text /\ r.text # <<>> /\ r.dirty \in BOOLEAN
    BY <1>1, FitsIs DEF Fits
  <2>. HIDE DEF d
  <2>3. Fits(d) /\ Same(r, d)
    BY <2>1, <2>2 DEF Fits, Same
  <2>4. Lands(e, d) /\ d.normal /\ d.pending = "none" /\ Kept(e, d)
    BY <1>1, <2>1, <2>3, SameOn, KeptIs DEF Lands
  <2>. QED BY <2>0, <2>4, ClampPlays
<1>3. CASE e.pending = "d" /\ v = "d"
  <2>0. Note!NormalKey(e, v) = Note!DeleteLine(r)
    BY <1>3 DEF Note!NormalKey
  <2>. DEFINE d == Note!DeleteLine(r)
  <2>. HIDE DEF r
  <2>1. Acts(r, d) /\ d.col = 0
    BY <1>1, DeleteLineIs
  <2>. HIDE DEF d
  <2>2. d.line \in 1 .. Len(d.text) /\ Len(d.text[d.line]) \in Nat
    BY <2>1, FitsIs DEF Acts, Inside
  <2>3. 0 <= Note!Before(Len(d.text[d.line]))
    <3>. DEFINE w == Len(d.text[d.line])
    <3>1. w \in Nat
      BY <2>2
    <3>. HIDE DEF w
    <3>2. Note!Before(w) \in 0 .. w
      BY <3>1, BeforeIs
    <3>3. 0 <= Note!Before(w)
      BY <3>1, <3>2
    <3>. QED BY <3>3 DEF w
  <2>4. Same(e, d)
    BY <1>1, <2>1, SameOn DEF Acts
  <2>. QED BY <1>1, <1>3, <2>0, <2>1, <2>3, <2>4 DEF Plays, CaretOK, OnOne, Acts, d
<1>4. CASE e.pending # "none" /\ ~ (e.pending = "g" /\ v = "g") /\ ~ (e.pending = "d" /\ v = "d")
  <2>1. Note!NormalKey(e, v) = r
    BY <1>4 DEF Note!NormalKey
  <2>. HIDE DEF r
  <2>. QED BY <1>1, <2>1 DEF Plays
<1>5. CASE e.pending = "none"
  <2>. DEFINE d == Note!Verb(e, v)
  <2>1. Note!NormalKey(e, v) = IF d.normal THEN Note!ClampNormal(d) ELSE d
    BY <1>5 DEF Note!NormalKey
  <2>2. /\ Lands(e, d) /\ d.pending = (IF v \in {"g", "d"} THEN v ELSE e.pending)
        /\ v \in {"g", "d"} => d.normal = e.normal
        /\ v # "x" => Kept(e, d)
    BY <1>1, VerbIs
  <2>. HIDE DEF d
  <2>3. CASE d.normal
    BY <1>5, <2>1, <2>2, <2>3, ClampPlays
  <2>4. CASE ~ d.normal
    BY <1>5, <2>1, <2>2, <2>4 DEF Plays, CaretOK, OnOne, Lands
  <2>. QED BY <2>3, <2>4
<1>. QED BY <1>2, <1>3, <1>4, <1>5

LEMMA PressedIs ==
  ASSUME NEW e, CaretOK(e),
         NEW k \in Note!Shared \cup Note!EditKeys \cup (IF e.normal THEN Note!Verbs ELSE Typed)
  PROVE  /\ Plays(e, k, Note!Pressed(e, k))
         /\ e.normal => \/ k \in {"x", "Delete", "bullet", "checkbox"} \/ (k = "d" /\ e.pending = "d")
                        \/ Kept(e, Note!Pressed(e, k))
<1>1. CASE k \in Note!Shared
  BY <1>1, SharedKeyIs DEF Note!Pressed
<1>2. CASE k \notin Note!Shared /\ e.normal
  <2>1. Note!Pressed(e, k) = Note!NormalKey(e, Note!AsVerb(k))
    BY <1>2 DEF Note!Pressed
  <2>2. /\ Note!AsVerb(k) \in Note!Verbs
        /\ Note!AsVerb(k) = "x" => k \in {"x", "Delete"}
        /\ Note!AsVerb(k) \in {"g", "d"} => k = Note!AsVerb(k)
    <3>1. CASE k \in Note!EditKeys
      BY <3>1 DEF Note!EditKeys, Note!AsVerb, Note!Verbs
    <3>2. CASE k \in Note!Verbs /\ k \notin Note!EditKeys
      BY <3>2 DEF Note!EditKeys, Note!AsVerb, Note!Verbs
    <3>. QED BY <1>2, <3>1, <3>2
  <2>. DEFINE v == Note!AsVerb(k)
              d == Note!NormalKey(e, v)
  <2>3. /\ Plays(e, v, d)
        /\ v = "x" \/ (v = "d" /\ e.pending = "d") \/ Kept(e, d)
    <3>. HIDE DEF v
    <3>. QED BY <1>2, <2>2, NormalKeyIs DEF v
  <2>4. d \in Note!Editor
    BY <2>3 DEF Plays, CaretOK, OnOne, Inside, Fits
  <2>. HIDE DEF d
  <2>5. d.pending \in {"none", "g", "d"}
    BY <2>4 DEF Note!Editor
  <2>. QED BY <2>1, <2>2, <2>3, <2>5 DEF Plays, d
<1>3. CASE k \notin Note!Shared /\ ~ e.normal
  <2>1. Note!Pressed(e, k) = Note!InsertKey(e, k)
    BY <1>3 DEF Note!Pressed
  <2>2. k \in Note!EditKeys \cup Note!Character
    BY <1>3 DEF Note!Character
  <2>3. Acts(e, Note!InsertKey(e, k))
    BY <2>2, InsertKeyIs DEF CaretOK, OnOne
  <2>. QED BY <1>3, <2>1, <2>3 DEF Plays, CaretOK, OnOne, Acts
<1>. QED BY <1>1, <1>2, <1>3

\* clamp_scroll puts the caret on the screen.
OnScreen(e) == e.line - 1 \in e.scroll .. e.scroll + e.viewport - 1

LEMMA ScrolledIs ==
  ASSUME NEW e, CaretOK(e), NEW h \in Nat \ {0}
  PROVE  LET d == Note!Scrolled(e, h)
         IN  /\ CaretOK(d) /\ OnScreen(d) /\ d.viewport = h /\ d \in Note!Editor
             /\ d.branch = e.branch /\ d.seen = e.seen /\ d.dirty = e.dirty /\ d.text = e.text
             /\ d.normal = e.normal /\ d.pending = e.pending
<1>. DEFINE d == Note!Scrolled(e, h)
            to == IF e.line - 1 < e.scroll THEN e.line - 1
                  ELSE IF e.line - 1 >= e.scroll + h THEN e.line - h ELSE e.scroll
<1>0. Inside(e) /\ Fits(e) /\ e \in Note!Editor
  BY DEF CaretOK, OnOne, Inside, Fits
<1>11. e.line \in 1 .. Len(e.text) /\ Len(e.text) \in Nat
  BY <1>0, FitsIs
<1>1. e.line \in Nat \ {0} /\ e.scroll \in Nat
  BY <1>0, <1>11 DEF Note!Editor
<1>2. to \in Nat /\ e.line - 1 \in to .. to + h - 1
  <2>. DEFINE a == e.line
              b == e.scroll
  <2>1. a \in Nat /\ a # 0 /\ b \in Nat /\ h # 0
    BY <1>1
  <2>2. to = IF a - 1 < b THEN a - 1 ELSE IF a - 1 >= b + h THEN a - h ELSE b
    OBVIOUS
  <2>. HIDE DEF a, b, to
  <2>3. to \in Nat /\ a - 1 \in to .. to + h - 1
    BY <2>1, <2>2
  <2>. QED BY <2>3 DEF a
<1>3. d = [e EXCEPT !.viewport = h, !.scroll = to]
  BY DEF Note!Scrolled
<1>. HIDE DEF to
<1>4. /\ d \in Note!Editor /\ d.viewport = h /\ d.scroll = to /\ d.line = e.line /\ d.col = e.col
      /\ d.branch = e.branch /\ d.seen = e.seen /\ d.dirty = e.dirty /\ d.text = e.text
      /\ d.normal = e.normal /\ d.pending = e.pending
  BY <1>0, <1>2, <1>3 DEF Note!Editor
<1>. HIDE DEF d
<1>5. CaretOK(d)
  BY <1>0, <1>4 DEF CaretOK, OnOne, Inside, Fits
<1>6. OnScreen(d)
  BY <1>2, <1>4 DEF OnScreen
<1>. QED BY <1>4, <1>5, <1>6 DEF d

-----------------------------------------------------------------------------
(* What is read of a note is what was saved. *)

LEMMA NoTextIs ==
  /\ <<>> \in Text /\ Note!IsBlank(<<>>) /\ Note!Prose(<<>>) = <<>>
  /\ <<<<>>>> \in Text /\ Note!IsBlank(<<<<>>>>) /\ Note!Prose(<<<<>>>>) = <<>> /\ Len(<<<<>>>>) = 1
<1>1. <<>> \in Text /\ Note!IsBlank(<<>>)
  BY DEF Text, Note!IsBlank
<1>2. <<>> \in Line /\ Note!Blank(<<>>)
  BY DEF Line, Note!Blank
<1>3. <<<<>>>> \in Text /\ Len(<<<<>>>>) = 1
  BY <1>2 DEF Text
<1>4. Note!IsBlank(<<<<>>>>)
  BY <1>2 DEF Note!IsBlank
<1>. QED BY <1>1, <1>3, <1>4 DEF Note!Prose

\* Up to which line there is something.
UpTo(text, k) ==
  /\ k \in 0 .. Len(text) /\ (k = 0 \/ text[k] # <<>>)
  /\ \A i \in 1 .. Len(text) : i > k => text[i] = <<>>

LEMMA TrimIs ==
  ASSUME NEW text \in Text, NEW k, UpTo(text, k)
  PROVE  Note!Trimmed(text) = SubSeq(text, 1, k)
<1>. DEFINE some == {0} \cup {i \in DOMAIN text : text[i] # <<>>}
<1>1. Len(text) \in Nat /\ DOMAIN text = 1 .. Len(text)
  BY LenProperties DEF Text
<1>2. k \in some /\ \A i \in some : k >= i
  BY <1>1 DEF UpTo
<1>3. \A j \in some : (\A i \in some : j >= i) => j = k
  <2>1. some \subseteq Nat
    BY <1>1
  <2>. HIDE DEF some
  <2>. QED BY <1>2, <2>1
<1>4. Note!Trimmed(text) = SubSeq(text, 1, Note!Max(some))
  BY DEF Note!Trimmed
<1>. HIDE DEF some
<1>5. Note!Max(some) = k
  BY <1>2, <1>3 DEF Note!Max
<1>. QED BY <1>4, <1>5

LEMMA SomeUpTo == ASSUME NEW text \in Text PROVE \E k : UpTo(text, k)
<1>. DEFINE some == {0} \cup {i \in DOMAIN text : text[i] # <<>>}
<1>1. Len(text) \in Nat /\ DOMAIN text = 1 .. Len(text)
  BY LenProperties DEF Text
<1>2. some \in SUBSET Nat /\ some # {} /\ \A i \in some : i <= Len(text)
  BY <1>1
<1>. HIDE DEF some
<1>3. PICK k \in some : \A i \in some : i <= k
  BY <1>1, <1>2, GreatestOf
<1>. QED BY <1>1, <1>2, <1>3 DEF some, UpTo

LEMMA TrimmedIs ==
  ASSUME NEW text \in Text
  PROVE  /\ Note!Trimmed(text) \in Text
         /\ Note!IsBlank(Note!Trimmed(text)) = Note!IsBlank(text)
         /\ Note!Trimmed(Append(Note!Trimmed(text), <<>>)) = Note!Trimmed(text)
         /\ Note!IsBlank(Append(Note!Trimmed(text), <<>>)) = Note!IsBlank(text)
         /\ Append(Note!Trimmed(text), <<>>) \in Text
         /\ Append(Note!Trimmed(text), <<>>) # <<<<"?">>>>
<1>. DEFINE t == Note!Trimmed(text)
            s == Append(t, <<>>)
<1>1. PICK k : UpTo(text, k)
  BY SomeUpTo
<1>2. Len(text) \in Nat /\ k \in 0 .. Len(text) /\ \A i \in 1 .. Len(text) : text[i] \in Line
  BY <1>1, LenProperties, ElementOfSeq DEF Text, UpTo
<1>3. t \in Seq(Line) /\ Len(t) = k /\ \A i \in 1 .. k : t[i] = text[i]
  <2>1. t = SubSeq(text, 1, k)
    BY <1>1, TrimIs
  <2>. HIDE DEF t
  <2>. QED BY <1>2, <2>1, SubSeqProperties DEF Text
<1>. HIDE DEF t
<1>4. <<>> \in Line /\ Note!Blank(<<>>)
  BY DEF Line, Note!Blank
<1>5. s \in Seq(Line) /\ Len(s) = k + 1 /\ \A i \in 1 .. k + 1 : s[i] = IF i <= k THEN t[i] ELSE <<>>
  BY <1>2, <1>3, <1>4, AppendProperties
<1>. HIDE DEF s
<1>6. DOMAIN text = 1 .. Len(text) /\ DOMAIN t = 1 .. k /\ DOMAIN s = 1 .. k + 1
  BY <1>3, <1>5, LenProperties DEF Text
<1>7. \A i \in 1 .. Len(text) : i > k => text[i] = <<>>
  BY <1>1 DEF UpTo
<1>8. Note!IsBlank(t) = Note!IsBlank(text)
  BY <1>2, <1>3, <1>4, <1>6, <1>7 DEF Note!IsBlank
<1>9. Note!IsBlank(s) = Note!IsBlank(text)
  <2>1. Note!IsBlank(s) = Note!IsBlank(t)
    BY <1>2, <1>4, <1>5, <1>6 DEF Note!IsBlank
  <2>. QED BY <1>8, <2>1
<1>10. UpTo(s, k)
  BY <1>1, <1>2, <1>3, <1>5 DEF UpTo
<1>11. Note!Trimmed(s) = SubSeq(s, 1, k)
  BY <1>5, <1>10, TrimIs DEF Text
<1>12. SubSeq(s, 1, k) = t
  <2>. DEFINE u == SubSeq(s, 1, k)
  <2>1. u \in Seq(Line) /\ Len(u) = k /\ \A i \in 1 .. k : u[i] = s[i]
    BY <1>2, <1>5, SubSeqProperties
  <2>. HIDE DEF u
  <2>2. u = t
    BY <1>2, <1>3, <1>5, <2>1, SeqEqual
  <2>. QED BY <2>2 DEF u
<1>13. s # <<<<"?">>>>
  <2>. SUFFICES ASSUME s = <<<<"?">>>> PROVE FALSE
    OBVIOUS
  <2>1. Len(s) = 1 /\ s[1] = <<"?">>
    OBVIOUS
  <2>2. s[1] = <<>>
    BY <1>2, <1>5, <2>1
  <2>. QED BY <2>1, <2>2
<1>. QED BY <1>3, <1>5, <1>8, <1>9, <1>11, <1>12, <1>13 DEF Text, s, t

\* What can be read of a file, and what is written to one.
Legible == Text \ {<<<<"?">>>>}

LEMMA ProseIs == ASSUME NEW text \in Text PROVE Note!Prose(text) \in Text
BY TrimmedIs, NoTextIs DEF Note!Prose

LEMMA SavedIs ==
  ASSUME NEW text \in Text
  PROVE  /\ Note!Saved(text) \in Legible /\ Note!Prose(Note!Saved(text)) = Note!Prose(text)
         /\ Note!IsBlank(Note!Saved(text)) <=> Note!IsBlank(text)
         /\ (Note!Saved(text) = <<>>) <=> Note!IsBlank(text)
<1>1. CASE Note!IsBlank(text)
  <2>1. Note!Saved(text) = <<>>
    BY <1>1 DEF Note!Saved
  <2>2. <<>> # <<<<"?">>>>
    OBVIOUS
  <2>. QED BY <1>1, <2>1, <2>2, NoTextIs DEF Legible, Note!Prose
<1>2. CASE ~ Note!IsBlank(text)
  <2>. DEFINE t == Note!Trimmed(text)
              s == Append(t, <<>>)
  <2>1. Note!Saved(text) = s
    BY <1>2 DEF Note!Saved
  <2>2. Note!Prose(text) = t
    BY <1>2 DEF Note!Prose
  <2>3. s \in Text /\ s # <<<<"?">>>> /\ Note!Trimmed(s) = t /\ Note!IsBlank(s) = Note!IsBlank(text)
    BY TrimmedIs
  <2>. HIDE DEF s, t
  <2>4. Note!Prose(s) = t
    BY <1>2, <2>3 DEF Note!Prose
  <2>5. s # <<>>
    BY <1>2, <2>3, NoTextIs
  <2>6. s \in Legible
    BY <2>3 DEF Legible
  <2>7. ~ Note!IsBlank(s)
    BY <1>2, <2>3
  <2>. QED BY <1>2, <2>1, <2>2, <2>4, <2>5, <2>6, <2>7
<1>. QED BY <1>1, <1>2

LEMMA ReadIs ==
  ASSUME NEW file, file.text \in Legible
  PROVE  /\ Note!Readable(file) /\ Note!Read(file) \in Text /\ Note!Read(file) # <<>>
         /\ Note!Prose(Note!Read(file)) = Note!Prose(file.text)
<1>1. Note!Readable(file) /\ file.text \in Text
  BY DEF Note!Readable, Note!Unreadable, Legible
<1>2. CASE Note!IsBlank(file.text)
  <2>1. Note!Read(file) = <<<<>>>>
    BY <1>2 DEF Note!Read
  <2>2. Note!Prose(file.text) = <<>>
    BY <1>2 DEF Note!Prose
  <2>3. <<<<>>>> # <<>>
    OBVIOUS
  <2>. QED BY <1>1, <2>1, <2>2, <2>3, NoTextIs
<1>3. CASE ~ Note!IsBlank(file.text)
  <2>1. Note!Read(file) = file.text
    BY <1>1, <1>3 DEF Note!Read
  <2>2. file.text # <<>>
    BY <1>3, NoTextIs
  <2>. QED BY <1>1, <2>1, <2>2
<1>. QED BY <1>2, <1>3

\* An editor that shows `text`, as it was read.
Shows(e, b, text) ==
  /\ CaretOK(e) /\ OnScreen(e) /\ e \in Note!Editor /\ e.branch = b /\ e.text = text
  /\ e.seen = Note!Prose(text) /\ ~ e.dirty /\ e.pending = "none" /\ e.viewport # 0

Placed(b, text, l, c, n, h) ==
  LET e == Note!At(Note!Opened(b, text, FALSE), l, c)
  IN  Note!Scrolled(IF n THEN Note!EnterNormal(e) ELSE e, h)

LEMMA PlacedIs ==
  ASSUME NEW b \in Branches, NEW text \in Text, text # <<>>, NEW l \in 1 .. Len(text),
         NEW c \in 0 .. Len(text[l]), NEW n \in BOOLEAN, NEW h \in Nat \ {0}
  PROVE  Shows(Placed(b, text, l, c, n, h), b, text) /\ Placed(b, text, l, c, n, h).normal = n
<1>. DEFINE o == Note!Opened(b, text, FALSE)
            e == Note!At(o, l, c)
            f == IF n THEN Note!EnterNormal(e) ELSE e
            d == Note!Scrolled(f, h)
            final == Note!Last(text)
<1>1. Len(text) \in Nat \ {0} /\ Len(text[l]) \in Nat /\ DOMAIN text = 1 .. Len(text)
  BY TextIs
<1>2. Len(final) \in Nat
  <2>1. Len(text) \in 1 .. Len(text)
    BY <1>1
  <2>2. final = text[Len(text)]
    BY DEF Note!Last
  <2>. QED BY <2>1, <2>2, TextIs
<1>. HIDE DEF final
<1>3. Note!Prose(text) \in Text
  BY ProseIs
<1>4. o = [up |-> TRUE, branch |-> b, text |-> text, line |-> Len(text),
           col |-> Len(final), scroll |-> 0, viewport |-> 10, dirty |-> FALSE,
           normal |-> FALSE, pending |-> "none", seen |-> Note!Prose(text)]
  BY DEF Note!Opened, final
<1>5. /\ e \in Note!Editor /\ e.text = text /\ e.line = l /\ e.col = c /\ e.branch = b /\ ~ e.dirty
      /\ ~ e.normal /\ e.pending = "none" /\ e.seen = Note!Prose(text)
  <2>. HIDE DEF o
  <2>1. o \in Note!Editor
    BY <1>1, <1>2, <1>3, <1>4 DEF Note!Editor, Text, Line
  <2>2. l \in Nat /\ c \in Nat
    BY <1>1
  <2>. QED BY <1>4, <2>1, <2>2 DEF Note!At, Note!Editor
<1>. HIDE DEF o, e
<1>6. Inside(e) /\ Fits(e) /\ CaretOK(e)
  BY <1>1, <1>5 DEF Inside, Fits, CaretOK, OnOne
<1>7. /\ CaretOK(f) /\ f.text = text /\ f.branch = b /\ f.seen = Note!Prose(text) /\ ~ f.dirty
      /\ f.normal = n /\ f.pending = "none"
  <2>1. CASE n
    <3>. DEFINE m == Note!EnterNormal(e)
    <3>1. CaretOK(m) /\ Same(e, m) /\ m.normal /\ m.text = e.text /\ m.pending = "none" /\ m.dirty = e.dirty
      BY <1>6, EnterNormalIs
    <3>. HIDE DEF m
    <3>2. m.normal \in BOOLEAN
      BY <3>1, FitsIs DEF CaretOK, OnOne, Inside
    <3>3. f = m
      BY <2>1 DEF m
    <3>. HIDE DEF f
    <3>. QED BY <1>5, <2>1, <3>1, <3>2, <3>3 DEF Same
  <2>2. CASE ~ n
    <3>1. f = e
      BY <2>2
    <3>2. e.normal \in BOOLEAN
      BY <1>6, FitsIs
    <3>. HIDE DEF f
    <3>. QED BY <1>5, <1>6, <2>2, <3>1, <3>2
  <2>. QED BY <2>1, <2>2
<1>71. d = Placed(b, text, l, c, n, h)
  BY DEF Placed, e, o
<1>. HIDE DEF f
<1>8. /\ CaretOK(d) /\ OnScreen(d) /\ d.viewport = h /\ d \in Note!Editor
      /\ d.branch = b /\ d.seen = f.seen /\ d.dirty = f.dirty /\ d.text = f.text
      /\ d.normal = f.normal /\ d.pending = f.pending
  BY <1>7, ScrolledIs
<1>. HIDE DEF d
<1>9. Shows(d, b, text) /\ d.normal = n
  BY <1>7, <1>8 DEF Shows
<1>. QED BY <1>9, <1>71

LEMMA FreshlyOpened ==
  ASSUME NEW b \in Branches, NEW text \in Text, text # <<>>, NEW n \in BOOLEAN, NEW h \in Nat \ {0}
  PROVE  /\ Shows(Note!Scrolled(Note!Opened(b, text, n), h), b, text)
         /\ Note!Scrolled(Note!Opened(b, text, n), h).normal = n
<1>. DEFINE o == Note!Opened(b, text, FALSE)
            l == Len(text)
            c == Len(text[l])
            e == Note!At(o, l, c)
<1>1. l \in 1 .. Len(text)
  <2>1. Len(text) \in Nat /\ Len(text) # 0
    BY LenProperties, EmptySeq DEF Text
  <2>. QED BY <2>1
<1>2. c \in 0 .. Len(text[l])
  <2>1. Len(text[l]) \in Nat
    BY <1>1, TextIs
  <2>. QED BY <2>1
<1>3. o = e
  <2>1. o = [up |-> TRUE, branch |-> b, text |-> text, line |-> l,
           col |-> c, scroll |-> 0, viewport |-> 10, dirty |-> FALSE,
           normal |-> FALSE, pending |-> "none", seen |-> Note!Prose(text)]
    BY DEF Note!Opened, Note!Last
  <2>2. o = [o EXCEPT !.line = l, !.col = c]
    <3>1. Note!Prose(text) \in Text /\ l \in Nat /\ c \in Nat
      BY <1>1, <1>2, ProseIs, TextIs
    <3>. HIDE DEF o, l, c
    <3>2. o \in Note!Editor /\ o.line = l /\ o.col = c
      BY <2>1, <3>1 DEF Note!Editor, Text, Line
    <3>. QED BY <3>2 DEF Note!Editor
  <2>3. e = [o EXCEPT !.line = l, !.col = c]
    BY DEF Note!At
  <2>. QED BY <2>2, <2>3
<1>4. Note!Opened(b, text, n) = IF n THEN Note!EnterNormal(o) ELSE o
  BY DEF Note!Opened
<1>. DEFINE d == Note!Scrolled(Note!Opened(b, text, n), h)
<1>5. d = Placed(b, text, l, c, n, h)
  <2>1. Placed(b, text, l, c, n, h) = Note!Scrolled(IF n THEN Note!EnterNormal(e) ELSE e, h)
    BY DEF Placed
  <2>. HIDE DEF o, e
  <2>. QED BY <1>3, <1>4, <2>1
<1>. HIDE DEF l, c, d
<1>6. Shows(d, b, text) /\ d.normal = n
  BY <1>1, <1>2, <1>5, PlacedIs
<1>. QED BY <1>6 DEF d

-----------------------------------------------------------------------------
(* The notes: a file has one owner, the rows say who has a note, and what the
   editor was opened on is still on disk.                                    *)

Files == {FileOf[b] : b \in Branches}
Owns(d, b) == d[FileOf[b]].by = b /\ Note!HasNote(d[FileOf[b]])

DiskOK(d) ==
  /\ d \in [Files -> [text : Legible, by : Branches \cup {"none"}]]
  /\ \A f \in Files : d[f].by = "none" => ~ Note!HasNote(d[f])

MarksOK ==
  \A b \in Branches : ~ (editor.up /\ b = editor.branch) => (b \in marks <=> Owns(disk, b))

EditorOK ==
  editor.up =>
    /\ CaretOK(editor) /\ OnScreen(editor) /\ editor.viewport # 0
    /\ editor.normal => vim
    /\ editor.pending # "none" => last = editor.pending
    /\ cursor = editor.branch
    /\ disk[FileOf[cursor]].by \in {"none", cursor}
    /\ Note!Prose(disk[FileOf[cursor]].text) = editor.seen
    /\ ~ editor.dirty => Note!Prose(editor.text) = editor.seen

NoteIInv == Note!NoteTypeOK /\ DiskOK(disk) /\ MarksOK /\ EditorOK /\ lost = {}

Undisturbed == {"notes", "full", "bytes", "selection"} \cap Windows = {}

LEMMA LegibleTexts ==
  ASSUME Undisturbed
  PROVE  Texts \cup Outside \subseteq Legible
BY TextsAssumption DEF Undisturbed, Legible, Text, Line, Note!Unreadable

LEMMA Safe ==
  ASSUME NoteIInv
  PROVE  /\ Note!CaretIsInTheText /\ Note!OneNameToAFile /\ Note!MarksAreTrue /\ Note!NoProseIsLost
<1>1. Note!CaretIsInTheText
  <2>. SUFFICES ASSUME editor.up
                PROVE  /\ editor.text # <<>> /\ editor.line \in DOMAIN editor.text
                       /\ editor.col <= IF editor.normal THEN Note!Before(Note!Width(editor)) ELSE Note!Width(editor)
                       /\ editor.line - 1 \in editor.scroll .. editor.scroll + editor.viewport - 1
                       /\ editor.normal => vim
                       /\ editor.pending # "none" => editor.normal /\ last = editor.pending
    BY DEF Note!CaretIsInTheText
  <2>. QED BY DEF NoteIInv, EditorOK, CaretOK, OnOne, Inside, Fits, OnScreen, Note!Width, Note!Here
<1>2. Note!OneNameToAFile
  BY DEF NoteIInv, EditorOK, Note!OneNameToAFile
<1>3. Note!MarksAreTrue
  BY DEF NoteIInv, MarksOK, DiskOK, Owns, Files, Note!MarksAreTrue, Note!NoteTypeOK
<1>4. Note!NoProseIsLost
  BY DEF NoteIInv, EditorOK, Note!NoProseIsLost
<1>. QED BY <1>1, <1>2, <1>3, <1>4

LEMMA NoFileIs == Note!NoFile.text \in Legible /\ Note!NoFile.by = "none" /\ ~ Note!HasNote(Note!NoFile)
<1>1. <<>> # <<<<"?">>>>
  OBVIOUS
<1>. QED BY <1>1, NoTextIs DEF Note!NoFile, Note!HasNote, Legible

\* What is flushed is what is on the screen, in a file of that branch.
LEMMA FlushedIs ==
  ASSUME NoteIInv, editor.up
  PROVE  LET d == Note!Flushed(editor)
         IN  /\ DiskOK(d) /\ d[FileOf[cursor]].by \in {"none", cursor}
             /\ \A b \in Branches \ {cursor} : Owns(d, b) <=> Owns(disk, b)
             /\ \A flushed : flushed = d /\ Note!Losing(editor, flushed) => lost' = {}
<1>. DEFINE d == Note!Flushed(editor)
            f == FileOf[cursor]
            text == Note!Saved(editor.text)
<1>0. cursor \in Branches /\ f \in Files /\ cursor = editor.branch /\ "none" \notin Branches
  BY NotesAssumption DEF NoteIInv, Note!NoteTypeOK, EditorOK, Files
<1>1. Fits(editor) /\ editor.text \in Text
  BY FitsIs DEF NoteIInv, EditorOK, CaretOK, OnOne, Inside
<1>2. /\ text \in Legible /\ Note!Prose(text) = Note!Prose(editor.text)
      /\ text = <<>> <=> Note!IsBlank(editor.text)
  BY <1>1, SavedIs
<1>3. /\ DiskOK(disk) /\ disk[f].by \in {"none", cursor} /\ Note!Prose(disk[f].text) = editor.seen
      /\ ~ editor.dirty => Note!Prose(editor.text) = editor.seen
      /\ lost = {}
  BY DEF NoteIInv, EditorOK
<1>. HIDE DEF d
<1>4. CASE ~ editor.dirty
  <2>1. d = disk
    BY <1>4 DEF Note!Flushed, d
  <2>2. ASSUME Note!Losing(editor, disk) PROVE lost' = {}
    BY <1>3, <1>4, <2>2 DEF Note!Losing
  <2>. QED BY <1>3, <2>1, <2>2 DEF d
<1>5. CASE editor.dirty
  <2>. DEFINE file == IF text = <<>> THEN Note!NoFile
                      ELSE [text |-> text, by |-> IF disk[f].by = "none" THEN cursor ELSE disk[f].by]
  <2>1. d = [disk EXCEPT ![f] = file]
    BY <1>0, <1>5 DEF Note!Flushed, d
  <2>2. /\ file \in [text : Legible, by : Branches \cup {"none"}] /\ file.by \in {"none", cursor}
        /\ file.by = "none" => ~ Note!HasNote(file)
        /\ Note!Prose(file.text) = Note!Prose(editor.text)
    <3>1. CASE text = <<>>
      <4>1. file = Note!NoFile /\ file.text = <<>>
        BY <3>1 DEF Note!NoFile
      <4>2. file \in [text : Legible, by : {"none"}]
        BY <4>1, NoFileIs DEF Note!NoFile
      <4>. HIDE DEF file
      <4>. QED BY <1>2, <3>1, <4>1, <4>2, NoFileIs
    <3>2. CASE text # <<>>
      <4>. HIDE DEF text, f
      <4>1. file = [text |-> text, by |-> cursor]
        BY <1>3, <3>2
      <4>. QED BY <1>0, <1>2, <4>1
    <3>. QED BY <3>1, <3>2
  <2>. HIDE DEF file
  <2>3. d \in [Files -> [text : Legible, by : Branches \cup {"none"}]] /\ d[f] = file
        /\ \A g \in Files \ {f} : d[g] = disk[g]
    BY <1>0, <1>3, <2>1, <2>2 DEF DiskOK
  <2>4. DiskOK(d)
    BY <1>3, <2>2, <2>3 DEF DiskOK
  <2>5. ASSUME NEW b \in Branches \ {cursor} PROVE Owns(d, b) <=> Owns(disk, b)
    <3>1. FileOf[b] \in Files
      BY DEF Files
    <3>2. CASE FileOf[b] = f
      <4>1. d[FileOf[b]].by # b /\ disk[FileOf[b]].by # b
        BY <1>0, <1>3, <2>2, <2>3, <3>2
      <4>. QED BY <4>1 DEF Owns
    <3>3. CASE FileOf[b] # f
      BY <2>3, <3>1, <3>3 DEF Owns
    <3>. QED BY <3>2, <3>3
  <2>6. ASSUME Note!Losing(editor, d) PROVE lost' = {}
    BY <1>0, <1>3, <2>2, <2>3, <2>6 DEF Note!Losing
  <2>. QED BY <2>2, <2>3, <2>4, <2>5, <2>6 DEF d
<1>. QED BY <1>4, <1>5

\* An editor that shows what is on disk.
LEMMA ShownIs ==
  ASSUME NoteIInv, Undisturbed, cursor' = cursor, vim' = vim, lost' = lost, DiskOK(disk'),
         disk'[FileOf[cursor]].by \in {"none", cursor},
         \A b \in Branches \ {cursor} : Owns(disk', b) <=> Owns(disk, b),
         marks' = marks, editor.up => editor.branch = cursor,
         NEW text, Note!Prose(text) = Note!Prose(disk'[FileOf[cursor]].text),
         Shows(editor', cursor, text), editor'.normal => vim
  PROVE  NoteIInv'
<1>1. editor' \in Note!Editor /\ editor'.up /\ editor'.branch = cursor
  BY DEF Shows, Note!Editor
<1>2. Note!NoteTypeOK'
  BY <1>1 DEF NoteIInv, Note!NoteTypeOK
<1>3. MarksOK'
  BY <1>1 DEF NoteIInv, MarksOK, Owns
<1>4. EditorOK'
  BY <1>1 DEF Shows, EditorOK
<1>. QED BY <1>2, <1>3, <1>4 DEF NoteIInv

LEMMA InitNote == ASSUME Undisturbed, Note!NoteInit PROVE NoteIInv
<1>. PICK text \in Texts :
        LET b == Noted
            file == IF text = <<>> THEN Note!NoFile ELSE [text |-> text, by |-> b]
        IN  /\ disk = [f \in {FileOf[c] : c \in Branches} |-> IF f = FileOf[b] THEN file ELSE Note!NoFile]
            /\ marks = IF Note!HasNote(file) THEN {b} ELSE {}
            /\ \/ editor = Note!Closed
               \/ \E l \in 1 .. Len(Note!Read(file)), n \in {FALSE, vim}, h \in Heights :
                    \E c \in 0 .. Len(Note!Read(file)[l]) :
                        /\ cursor = b
                        /\ editor = Note!Scrolled(IF n THEN Note!EnterNormal(Note!At(Note!Opened(b, Note!Read(file), FALSE), l, c))
                                             ELSE Note!At(Note!Opened(b, Note!Read(file), FALSE), l, c), h)
  BY DEF Note!NoteInit
<1>. DEFINE b == Noted
            file == IF text = <<>> THEN Note!NoFile ELSE [text |-> text, by |-> b]
<1>1. text \in Legible /\ b \in Branches /\ "none" \notin Branches /\ Heights \subseteq Nat \ {0}
  BY LegibleTexts, NotesAssumption
<1>2. vim \in BOOLEAN /\ cursor \in Branches /\ lost = {}
  BY DEF Note!NoteInit
<1>3. /\ file.text \in Legible /\ file \in [text : Legible, by : Branches \cup {"none"}]
      /\ file.by \in {"none", b} /\ (file.by = "none" => ~ Note!HasNote(file))
  <2>1. CASE text = <<>>
    <3>1. file = Note!NoFile
      BY <2>1
    <3>2. Note!NoFile \in [text : Legible, by : {"none"}]
      BY NoFileIs DEF Note!NoFile
    <3>. HIDE DEF file
    <3>. QED BY <3>1, <3>2, NoFileIs
  <2>2. CASE text # <<>>
    BY <1>1, <2>2
  <2>. QED BY <2>1, <2>2
<1>4. disk = [f \in Files |-> IF f = FileOf[b] THEN file ELSE Note!NoFile]
  BY DEF Files
<1>5. marks = IF Note!HasNote(file) THEN {b} ELSE {}
  OBVIOUS
<1>6. \/ editor = Note!Closed
      \/ \E l \in 1 .. Len(Note!Read(file)), n \in {FALSE, vim}, h \in Heights :
            \E c \in 0 .. Len(Note!Read(file)[l]) :
                cursor = b /\ editor = Placed(b, Note!Read(file), l, c, n, h)
  BY DEF Placed
<1>. HIDE DEF file, b
<1>7. \A f \in Files : disk[f] = IF f = FileOf[b] THEN file ELSE Note!NoFile
  BY <1>4
<1>8. DiskOK(disk)
  <2>1. Note!NoFile \in [text : Legible, by : Branches \cup {"none"}]
    BY NoFileIs DEF Note!NoFile
  <2>. QED BY <1>3, <1>4, <1>7, <2>1, NoFileIs DEF DiskOK
<1>9. MarksOK
  <2>. SUFFICES ASSUME NEW c \in Branches PROVE c \in marks <=> Owns(disk, c)
    BY DEF MarksOK
  <2>1. FileOf[c] \in Files
    BY DEF Files
  <2>2. CASE FileOf[c] = FileOf[b]
    <3>1. disk[FileOf[c]] = file
      BY <1>7, <2>1, <2>2
    <3>. QED BY <1>1, <1>3, <1>5, <3>1 DEF Owns
  <2>3. CASE FileOf[c] # FileOf[b]
    <3>1. disk[FileOf[c]] = Note!NoFile /\ c # b
      BY <1>7, <2>1, <2>3
    <3>. QED BY <1>1, <1>5, <3>1, NoFileIs DEF Owns
  <2>. QED BY <2>2, <2>3
<1>10. CASE editor = Note!Closed
  <2>1. ~ editor.up
    BY <1>10 DEF Note!Closed
  <2>. QED BY <1>1, <1>2, <1>5, <1>8, <1>9, <1>10, <2>1 DEF NoteIInv, Note!NoteTypeOK, EditorOK
<1>11. CASE editor # Note!Closed
  <2>1. PICK l \in 1 .. Len(Note!Read(file)), n \in {FALSE, vim}, h \in Heights :
            \E c \in 0 .. Len(Note!Read(file)[l]) :
                cursor = b /\ editor = Placed(b, Note!Read(file), l, c, n, h)
    BY <1>6, <1>11
  <2>2. PICK c \in 0 .. Len(Note!Read(file)[l]) : cursor = b /\ editor = Placed(b, Note!Read(file), l, c, n, h)
    BY <2>1
  <2>. DEFINE read == Note!Read(file)
  <2>3. read \in Text /\ read # <<>> /\ Note!Prose(read) = Note!Prose(file.text)
    BY <1>3, ReadIs
  <2>4. n \in BOOLEAN /\ h \in Nat \ {0} /\ l \in 1 .. Len(read) /\ c \in 0 .. Len(read[l])
    BY <1>1, <1>2
  <2>5. editor = Placed(b, read, l, c, n, h)
    BY <2>2
  <2>. HIDE DEF read
  <2>6. Shows(editor, b, read) /\ editor.normal = n
    BY <1>1, <2>3, <2>4, <2>5, PlacedIs
  <2>7. editor.branch = b /\ editor.seen = Note!Prose(read) /\ editor \in Note!Editor /\ editor.text = read
    BY <2>6 DEF Shows
  <2>8. disk[FileOf[cursor]] = file
    BY <1>1, <1>7, <2>2 DEF Files
  <2>9. EditorOK
    BY <1>3, <2>1, <2>2, <2>3, <2>4, <2>6, <2>7, <2>8 DEF EditorOK, Shows
  <2>. QED BY <1>1, <1>2, <1>5, <1>8, <1>9, <2>7, <2>9 DEF NoteIInv, Note!NoteTypeOK
<1>. QED BY <1>10, <1>11

LEMMA RestNote == ASSUME Note!NoteRest PROVE NoteIInv
<1>1. Noted \in Branches
  BY NotesAssumption
<1>2. cursor \in Branches
  BY <1>1 DEF Note!NoteRest
<1>3. ~ editor.up /\ editor = Note!Closed /\ marks = {} /\ vim \in BOOLEAN /\ lost = {}
  BY DEF Note!NoteRest, Note!Closed
<1>4. disk = [f \in Files |-> Note!NoFile]
  BY DEF Note!NoteRest, Files
<1>5. DiskOK(disk)
  <2>1. Note!NoFile \in [text : Legible, by : Branches \cup {"none"}]
    BY NoFileIs DEF Note!NoFile
  <2>. QED BY <1>4, <2>1, NoFileIs DEF DiskOK
<1>6. MarksOK
  BY <1>3, <1>4, NoFileIs DEF MarksOK, Owns, Files
<1>. QED BY <1>2, <1>3, <1>5, <1>6 DEF NoteIInv, Note!NoteTypeOK, EditorOK

\* Prose goes when it is asked for.
Asked ==
  (editor.up /\ editor.normal /\ editor'.up /\ last' \notin {"Ctrl-e", "bullet", "checkbox"})
    => \/ Note!Chars(editor'.text) >= Note!Chars(editor.text)
       \/ last' \in {"x", "Delete"}
       \/ last' = "d" /\ last = "d"

LEMMA SameTextAsked ==
  ASSUME NoteIInv, editor.up => editor'.text = editor.text
  PROVE  Asked
BY KeptIs DEF NoteIInv, EditorOK, CaretOK, OnOne, Inside, Asked, Kept

LEMMA OpenNoteKeeps ==
  ASSUME NoteIInv, Undisturbed, Note!OpenNote
  PROVE  NoteIInv' /\ Asked
<1>1. PICK h \in Heights :
        editor' = Note!Scrolled(Note!Opened(cursor, Note!Read(disk[FileOf[cursor]]), vim), h)
  BY DEF Note!OpenNote
<1>2. /\ ~ editor.up /\ Note!Prepared(cursor)
      /\ disk' = disk /\ marks' = marks /\ cursor' = cursor /\ vim' = vim /\ lost' = lost
  BY DEF Note!OpenNote
<1>3. cursor \in Branches /\ vim \in BOOLEAN /\ FileOf[cursor] \in Files /\ DiskOK(disk) /\ h \in Nat \ {0}
  BY NotesAssumption DEF NoteIInv, Note!NoteTypeOK, Files
<1>. DEFINE file == disk[FileOf[cursor]]
            read == Note!Read(file)
<1>4. file.text \in Legible /\ file.by \in {"none", cursor}
  BY <1>2, <1>3 DEF DiskOK, Note!Prepared, Note!Aliased
<1>5. editor' = Note!Scrolled(Note!Opened(cursor, read, vim), h)
  BY <1>1
<1>. HIDE DEF file
<1>6. read \in Text /\ read # <<>> /\ Note!Prose(read) = Note!Prose(file.text)
  BY <1>4, ReadIs
<1>. HIDE DEF read
<1>7. Shows(editor', cursor, read) /\ editor'.normal = vim
  BY <1>3, <1>5, <1>6, FreshlyOpened
<1>8. NoteIInv'
  BY <1>2, <1>3, <1>4, <1>6, <1>7, ShownIs DEF file, DiskOK, Owns
<1>. QED BY <1>2, <1>8 DEF Asked

LEMMA PressKeeps ==
  ASSUME NoteIInv, Undisturbed, NEW k, Note!Press(k)
  PROVE  NoteIInv' /\ Asked
<1>. DEFINE next == Note!Pressed(editor, k)
            h == next.viewport
<1>1. /\ editor.up /\ k \in Note!Shared \cup Note!EditKeys \cup (IF editor.normal THEN Note!Verbs ELSE Typed)
      /\ editor' = Note!Scrolled(next, h) /\ last' = k
      /\ disk' = disk /\ marks' = marks /\ cursor' = cursor /\ vim' = vim /\ lost' = lost
  BY DEF Note!Press, Note!Key
<1>2. /\ CaretOK(editor) /\ editor.viewport # 0
      /\ editor.normal => vim
      /\ editor.pending # "none" => last = editor.pending
      /\ cursor = editor.branch
      /\ disk[FileOf[cursor]].by \in {"none", cursor}
      /\ Note!Prose(disk[FileOf[cursor]].text) = editor.seen
      /\ ~ editor.dirty => Note!Prose(editor.text) = editor.seen
  BY <1>1 DEF NoteIInv, EditorOK
<1>3. /\ Plays(editor, k, next)
      /\ editor.normal => \/ k \in {"x", "Delete", "bullet", "checkbox"} \/ (k = "d" /\ editor.pending = "d")
                          \/ Kept(editor, next)
  BY <1>1, <1>2, PressedIs
<1>. HIDE DEF next
<1>4. CaretOK(next) /\ Same(editor, next) /\ (next.normal => editor.normal) /\ (next.pending # "none" => next.pending = k)
  BY <1>3 DEF Plays
<1>5. h \in Nat \ {0}
  BY <1>2, <1>4, FitsIs DEF CaretOK, OnOne, Inside, Same
<1>6. /\ CaretOK(editor') /\ OnScreen(editor') /\ editor'.viewport = h /\ editor' \in Note!Editor
      /\ editor'.branch = next.branch /\ editor'.seen = next.seen /\ editor'.dirty = next.dirty
      /\ editor'.text = next.text /\ editor'.normal = next.normal /\ editor'.pending = next.pending
  BY <1>1, <1>4, <1>5, ScrolledIs
<1>. HIDE DEF h
<1>7. editor'.up
  BY <1>6 DEF Note!Editor
<1>8. Note!NoteTypeOK'
  BY <1>1, <1>6 DEF NoteIInv, Note!NoteTypeOK
<1>9. MarksOK'
  BY <1>1, <1>2, <1>4, <1>6, <1>7 DEF NoteIInv, MarksOK, Owns, Same
<1>10. EditorOK'
  <2>1. editor'.normal => vim
    BY <1>2, <1>4, <1>6
  <2>2. editor'.pending # "none" => last' = editor'.pending
    BY <1>1, <1>4, <1>6
  <2>3. cursor' = editor'.branch /\ editor'.seen = editor.seen
    BY <1>1, <1>2, <1>4, <1>6 DEF Same
  <2>4. ~ editor'.dirty => Note!Prose(editor'.text) = editor'.seen
    BY <1>2, <1>4, <1>6, <2>3 DEF Same
  <2>. QED BY <1>1, <1>2, <1>5, <1>6, <2>1, <2>2, <2>3, <2>4 DEF EditorOK
<1>11. Asked
  <2>. SUFFICES ASSUME editor.normal, k \notin {"bullet", "checkbox"}
                PROVE  \/ Note!Chars(editor'.text) >= Note!Chars(editor.text)
                       \/ k \in {"x", "Delete"}
                       \/ k = "d" /\ last = "d"
    BY <1>1 DEF Asked
  <2>. QED BY <1>2, <1>3, <1>6 DEF Kept
<1>. QED BY <1>1, <1>8, <1>9, <1>10, <1>11 DEF NoteIInv

LEMMA ResizeKeeps ==
  ASSUME NoteIInv, Undisturbed, NEW h \in Heights, Note!Resize(h)
  PROVE  NoteIInv' /\ Asked
<1>1. /\ editor.up /\ editor' = Note!Scrolled(editor, h) /\ last' = last
      /\ disk' = disk /\ marks' = marks /\ cursor' = cursor /\ vim' = vim /\ lost' = lost
  BY DEF Note!Resize
<1>2. h \in Nat \ {0} /\ CaretOK(editor)
  BY <1>1, NotesAssumption DEF NoteIInv, EditorOK
<1>3. /\ CaretOK(editor') /\ OnScreen(editor') /\ editor'.viewport = h /\ editor' \in Note!Editor
      /\ editor'.branch = editor.branch /\ editor'.seen = editor.seen /\ editor'.dirty = editor.dirty
      /\ editor'.text = editor.text /\ editor'.normal = editor.normal /\ editor'.pending = editor.pending
  BY <1>1, <1>2, ScrolledIs
<1>4. editor'.up
  BY <1>3 DEF Note!Editor
<1>5. Note!NoteTypeOK'
  BY <1>1, <1>3 DEF NoteIInv, Note!NoteTypeOK
<1>6. MarksOK'
  BY <1>1, <1>3, <1>4 DEF NoteIInv, MarksOK, Owns
<1>7. EditorOK'
  BY <1>1, <1>2, <1>3, <1>4 DEF NoteIInv, EditorOK
<1>8. Asked
  BY <1>3, SameTextAsked
<1>. QED BY <1>1, <1>5, <1>6, <1>7, <1>8 DEF NoteIInv

LEMMA EscapeKeeps ==
  ASSUME NoteIInv, Undisturbed, Note!Escape
  PROVE  NoteIInv' /\ Asked
<1>1. editor.up /\ cursor' = cursor /\ vim' = vim
  BY DEF Note!Escape
<1>2. CASE vim /\ ~ editor.normal
  <2>1. editor' = Note!EnterNormal(editor) /\ disk' = disk /\ marks' = marks /\ lost' = lost /\ last' = "Esc"
    BY <1>2 DEF Note!Escape, Note!Key
  <2>2. Fits(editor)
    BY <1>1 DEF NoteIInv, EditorOK, CaretOK, OnOne, Inside
  <2>3. /\ CaretOK(editor') /\ Same(editor, editor') /\ editor'.normal /\ editor'.text = editor.text
        /\ editor'.pending = "none" /\ editor'.dirty = editor.dirty
    BY <2>1, <2>2, EnterNormalIs
  <2>4. editor'.line = editor.line /\ editor'.scroll = editor.scroll
    BY <2>1, <2>2 DEF Note!EnterNormal, Note!ClampNormal, Note!Col, Fits, Note!Editor
  <2>5. editor' \in Note!Editor /\ editor'.up
    BY <2>3 DEF CaretOK, OnOne, Inside, Fits, Note!Editor
  <2>6. Note!NoteTypeOK'
    BY <1>1, <2>1, <2>5 DEF NoteIInv, Note!NoteTypeOK
  <2>7. MarksOK'
    BY <1>1, <2>1, <2>3, <2>5 DEF NoteIInv, MarksOK, Owns, Same
  <2>8. EditorOK'
    BY <1>1, <1>2, <2>1, <2>3, <2>4 DEF NoteIInv, EditorOK, OnScreen, Same
  <2>9. Asked
    BY <1>2 DEF Asked
  <2>. QED BY <2>1, <2>6, <2>7, <2>8, <2>9 DEF NoteIInv
<1>3. CASE ~ (vim /\ ~ editor.normal)
  <2>1. /\ disk' = Note!Flushed(editor) /\ marks' = Note!Marked(disk') /\ Note!Losing(editor, disk')
        /\ editor' = Note!Closed
    BY <1>3 DEF Note!Escape, Note!Writes, Undisturbed
  <2>2. /\ DiskOK(disk') /\ disk'[FileOf[cursor]].by \in {"none", cursor}
        /\ \A b \in Branches \ {cursor} : Owns(disk', b) <=> Owns(disk, b)
        /\ lost' = {}
    BY <1>1, <2>1, FlushedIs
  <2>3. ~ editor'.up
    BY <2>1 DEF Note!Closed
  <2>4. cursor = editor.branch /\ cursor \in Branches /\ FileOf[cursor] \in Files /\ marks \subseteq Branches
    BY <1>1 DEF NoteIInv, Note!NoteTypeOK, EditorOK, Files
  <2>5. Note!NoteTypeOK'
    BY <1>1, <2>1, <2>4 DEF NoteIInv, Note!NoteTypeOK, Note!Marked
  <2>6. MarksOK'
    <3>. SUFFICES ASSUME NEW b \in Branches PROVE b \in marks' <=> Owns(disk', b)
      BY DEF MarksOK, Owns
    <3>1. CASE b = cursor
      <4>1. b \in marks' <=> Note!HasNote(disk'[FileOf[b]])
        BY <2>1, <3>1 DEF Note!Marked
      <4>2. Note!HasNote(disk'[FileOf[b]]) => disk'[FileOf[b]].by = b
        BY <2>2, <2>4, <3>1 DEF DiskOK
      <4>. QED BY <4>1, <4>2 DEF Owns
    <3>2. CASE b # cursor
      <4>1. b \in marks' <=> b \in marks
        BY <2>1, <3>2 DEF Note!Marked
      <4>2. b \in marks <=> Owns(disk, b)
        BY <2>4, <3>2 DEF NoteIInv, MarksOK
      <4>. QED BY <2>2, <3>2, <4>1, <4>2
    <3>. QED BY <3>1, <3>2
  <2>. QED BY <2>2, <2>3, <2>5, <2>6 DEF NoteIInv, EditorOK, Asked
<1>. QED BY <1>2, <1>3

LEMMA OpenEditorKeeps ==
  ASSUME NoteIInv, Undisturbed, NEW left \in Outside \cup {<<>>}, Note!OpenEditor(left)
  PROVE  NoteIInv' /\ Asked
<1>. DEFINE f == FileOf[cursor]
            flushed == Note!Flushed(editor)
            file == IF left = <<>> THEN flushed[f] ELSE [text |-> left, by |-> cursor]
            text == IF Note!Readable(disk'[f]) /\ disk'[f].text # <<>> THEN disk'[f].text ELSE <<<<>>>>
<1>1. /\ editor.up /\ last' = "Ctrl-e" /\ marks' = marks /\ cursor' = cursor /\ vim' = vim
      /\ cursor = editor.branch /\ cursor \in Branches /\ f \in Files /\ "none" \notin Branches
  BY NotesAssumption DEF Note!OpenEditor, Note!Key, NoteIInv, Note!NoteTypeOK, EditorOK, Files
<1>2. /\ Note!Losing(editor, flushed)
      /\ disk' = [flushed EXCEPT ![f] = file]
      /\ editor' = Note!Scrolled(Note!Opened(cursor, text, editor.normal), editor.viewport)
  BY <1>1 DEF Note!OpenEditor, Note!Writes, Undisturbed
<1>3. /\ DiskOK(flushed) /\ flushed[f].by \in {"none", cursor}
      /\ \A b \in Branches \ {cursor} : Owns(flushed, b) <=> Owns(disk, b)
      /\ lost' = {}
  BY <1>1, <1>2, FlushedIs
<1>4. left \in Legible
  BY LegibleTexts, NoFileIs DEF Note!NoFile
<1>. HIDE DEF flushed
<1>5. /\ file \in [text : Legible, by : Branches \cup {"none"}] /\ file.by \in {"none", cursor}
      /\ file.by = "none" => ~ Note!HasNote(file)
  <2>1. CASE left = <<>>
    BY <1>1, <1>3, <2>1 DEF DiskOK
  <2>2. CASE left # <<>>
    BY <1>1, <1>4, <2>2
  <2>. QED BY <2>1, <2>2
<1>. HIDE DEF file
<1>6. /\ disk' \in [Files -> [text : Legible, by : Branches \cup {"none"}]] /\ disk'[f] = file
      /\ \A g \in Files \ {f} : disk'[g] = flushed[g]
  BY <1>1, <1>2, <1>3, <1>5 DEF DiskOK
<1>7. DiskOK(disk')
  BY <1>3, <1>5, <1>6 DEF DiskOK
<1>8. ASSUME NEW b \in Branches \ {cursor} PROVE Owns(disk', b) <=> Owns(disk, b)
  <2>1. FileOf[b] \in Files
    BY DEF Files
  <2>2. CASE FileOf[b] = f
    <3>1. disk'[FileOf[b]].by # b /\ flushed[FileOf[b]].by # b
      BY <1>1, <1>3, <1>5, <1>6, <2>2
    <3>2. ~ Owns(disk', b) /\ ~ Owns(flushed, b)
      BY <3>1 DEF Owns
    <3>. QED BY <1>3, <3>2
  <2>3. CASE FileOf[b] # f
    BY <1>3, <1>6, <2>1, <2>3 DEF Owns
  <2>. QED BY <2>2, <2>3
<1>9. text \in Text /\ text # <<>> /\ Note!Prose(text) = Note!Prose(disk'[f].text)
  <2>1. disk'[f].text \in Legible
    BY <1>5, <1>6
  <2>2. Note!Readable(disk'[f]) /\ disk'[f].text \in Text
    BY <2>1, ReadIs DEF Legible
  <2>3. CASE disk'[f].text = <<>>
    <3>1. text = <<<<>>>>
      BY <2>3
    <3>2. <<<<>>>> # <<>>
      OBVIOUS
    <3>. QED BY <2>3, <3>1, <3>2, NoTextIs
  <2>4. CASE disk'[f].text # <<>>
    <3>1. text = disk'[f].text
      BY <2>2, <2>4
    <3>. QED BY <2>2, <2>4, <3>1
  <2>. QED BY <2>3, <2>4
<1>. HIDE DEF text
<1>10. editor.normal \in BOOLEAN /\ editor.viewport \in Nat \ {0} /\ (editor.normal => vim)
  BY <1>1, FitsIs DEF NoteIInv, EditorOK, CaretOK, OnOne, Inside
<1>11. Shows(editor', cursor, text) /\ editor'.normal = editor.normal
  BY <1>1, <1>2, <1>9, <1>10, FreshlyOpened
<1>12. NoteIInv'
  <2>1. lost' = lost /\ disk'[f].by \in {"none", cursor}
    BY <1>3, <1>5, <1>6 DEF NoteIInv
  <2>. QED BY <1>1, <1>7, <1>8, <1>9, <1>10, <1>11, <2>1, ShownIs
<1>. QED BY <1>1, <1>12 DEF Asked

LEMMA RereadKeeps == ASSUME NoteIInv, Undisturbed, Note!Refresh PROVE NoteIInv' /\ Asked
<1>1. ~ editor.up /\ disk' = disk /\ cursor' = cursor /\ vim' = vim /\ editor' = editor /\ lost' = lost
      /\ marks' = {b \in Branches : disk[FileOf[b]].by = b /\ Note!HasNote(disk[FileOf[b]])}
  BY DEF Note!Refresh
<1>2. MarksOK'
  BY <1>1 DEF MarksOK, Owns
<1>3. Note!NoteTypeOK'
  BY <1>1 DEF NoteIInv, Note!NoteTypeOK
<1>. QED BY <1>1, <1>2, <1>3 DEF NoteIInv, EditorOK, Asked

LEMMA SelectKeeps ==
  ASSUME NoteIInv, Undisturbed, NEW b \in Branches, Note!Select(b)
  PROVE  NoteIInv' /\ Asked
<1>1. ~ editor.up /\ disk' = disk /\ cursor' = b /\ vim' = vim /\ editor' = editor /\ lost' = lost /\ marks' = marks
  BY DEF Note!Select, Undisturbed
<1>2. MarksOK' /\ Note!NoteTypeOK'
  BY <1>1 DEF NoteIInv, Note!NoteTypeOK, MarksOK, Owns
<1>. QED BY <1>1, <1>2 DEF NoteIInv, EditorOK, Asked

LEMMA NoteSteps ==
  ASSUME NoteIInv, Undisturbed, Note!NoteNext \/ UNCHANGED noteVars
  PROVE  NoteIInv' /\ Asked
<1>1. CASE UNCHANGED noteVars
  <2>1. NoteIInv'
    BY <1>1 DEF noteVars, NoteIInv, Note!NoteTypeOK, DiskOK, MarksOK, Owns, EditorOK, CaretOK, OnOne, Inside,
                Fits, OnScreen
  <2>2. Asked
    BY <1>1, SameTextAsked DEF noteVars
  <2>. QED BY <2>1, <2>2
<1>2. CASE Note!OpenNote
  BY <1>2, OpenNoteKeeps
<1>3. CASE Note!Escape
  BY <1>3, EscapeKeeps
<1>4. CASE Note!Refresh
  BY <1>4, RereadKeeps
<1>5. ASSUME NEW k, Note!Press(k) PROVE NoteIInv' /\ Asked
  BY <1>5, PressKeeps
<1>6. ASSUME NEW h \in Heights, Note!Resize(h) PROVE NoteIInv' /\ Asked
  BY <1>6, ResizeKeeps
<1>7. ASSUME NEW left \in Outside \cup {<<>>}, Note!OpenEditor(left) PROVE NoteIInv' /\ Asked
  BY <1>7, OpenEditorKeeps
<1>8. ASSUME NEW b \in Branches, Note!Select(b) PROVE NoteIInv' /\ Asked
  BY <1>8, SelectKeeps
<1>9. ASSUME NEW b, NEW text, Note!WriteNote(b, text) PROVE FALSE
  BY <1>9 DEF Note!WriteNote, Undisturbed
<1>. QED BY <1>1, <1>2, <1>3, <1>4, <1>5, <1>6, <1>7, <1>8, <1>9 DEF Note!NoteNext

LEMMA NoteAlone ==
  ASSUME [OverlayNext]_overlayVars
  PROVE  Note!NoteNext \/ UNCHANGED noteVars
BY DEF OverlayNext, OnlyIn, overlayVars

\* What was typed is in the note of its branch, or was thrown away on request; the caret
\* stays in the text and on the screen; a file of notes has one owner, and the rows say who
\* has a note.  As long as nobody else writes a note that is open, a write does not fail,
\* a note can be read, and the selection stays while the editor is open (flush_note, handle_note_key, prepare).
THEOREM NoteIsKept == ASSUME Undisturbed PROVE OverlaySpec => NoteHolds
<1>1. OverlayInit => NoteIInv
  BY InitNote, RestNote DEF OverlayInit
<1>2. NoteIInv /\ [OverlayNext]_overlayVars => NoteIInv' /\ Asked
  BY NoteAlone, NoteSteps
<1>3. NoteIInv => Note!NoteTypeOK /\ Note!CaretIsInTheText /\ Note!OneNameToAFile /\ Note!MarksAreTrue /\ Note!NoProseIsLost
  BY Safe DEF NoteIInv
<1>4. OverlaySpec => [](Note!NoteTypeOK /\ Note!CaretIsInTheText /\ Note!OneNameToAFile /\ Note!MarksAreTrue /\ Note!NoProseIsLost)
  BY <1>1, <1>2, <1>3, PTL DEF OverlaySpec
<1>5. OverlaySpec => Note!NothingGoesUnasked
  <2>1. OverlaySpec => [][Asked]_noteVars
    BY <1>1, <1>2, PTL DEF OverlaySpec
  <2>2. [][Asked]_noteVars => Note!NothingGoesUnasked
    BY DEF Asked, Note!NothingGoesUnasked, noteVars, Note!nvars
  <2>. QED BY <2>1, <2>2
<1>. QED BY <1>4, <1>5 DEF NoteHolds, Note!NoteHolds
=============================================================================
