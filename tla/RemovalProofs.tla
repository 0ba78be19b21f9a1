----------------------------- MODULE RemovalProofs -----------------------------
(***************************************************************************)
(* Proofs about Removal, for any set of processes, worktrees, paths and    *)
(* branches, and whatever the world does in between: type correctness, and *)
(* the safety properties that RemovalWorld checks on a small instance.     *)
(***************************************************************************)
EXTENDS Removal, TLAPS

-----------------------------------------------------------------------------
(* The journal as a value. *)

LEMMA WithoutIndexType ==
  ASSUME NEW S, NEW j \in Seq(S), j # <<>>, NEW i
  PROVE  /\ WithoutIndex(j, i) \in Seq(S)
         /\ Range(WithoutIndex(j, i)) \subseteq Range(j)
<1>1. Len(j) \in Nat \ {0} /\ DOMAIN j = 1 .. Len(j)
  OBVIOUS
<1>2. \A k \in 1 .. Len(j) - 1 : k \in 1 .. Len(j) /\ k + 1 \in 1 .. Len(j)
  BY <1>1
<1> DEFINE w == WithoutIndex(j, i)
<1>3. \A k \in 1 .. Len(j) - 1 : w[k] = j[k] \/ w[k] = j[k + 1]
  BY DEF WithoutIndex
<1>4. DOMAIN w = 1 .. Len(j) - 1
  BY DEF WithoutIndex
<1>5. \A k \in 1 .. Len(j) : j[k] \in S /\ j[k] \in Range(j)
  BY <1>1 DEF Range
<1>6. \A k \in 1 .. Len(j) - 1 : w[k] \in S /\ w[k] \in Range(j)
  BY <1>2, <1>3, <1>5
<1>7. w = [k \in 1 .. Len(j) - 1 |-> w[k]]
  BY DEF WithoutIndex
<1>8. Len(j) - 1 \in Nat
  BY <1>1
<1>9. w \in [1 .. Len(j) - 1 -> S]
  BY <1>6, <1>7
<1>10. w \in Seq(S)
  BY <1>8, <1>9
<1>11. Range(w) \subseteq Range(j)
  BY <1>4, <1>6 DEF Range
<1> QED
  BY <1>10, <1>11

LEMMA AppendedType ==
  ASSUME NEW S, NEW j \in Seq(S), NEW e \in S
  PROVE  /\ Appended(j, e) \in Seq(S)
         /\ Range(Appended(j, e)) \subseteq Range(j) \cup {e}
<1> DEFINE longer == Append(j, e)
<1>1. longer \in Seq(S) /\ longer # <<>>
  <2>1. longer \in Seq(S) /\ Len(longer) = Len(j) + 1 /\ Len(j) \in Nat
    OBVIOUS
  <2>2. Len(<<>>) = 0
    OBVIOUS
  <2> QED
    BY <2>1, <2>2
<1>2. Range(longer) \subseteq Range(j) \cup {e}
  <2>1. DOMAIN longer = 1 .. Len(j) + 1 /\ DOMAIN j = 1 .. Len(j)
    OBVIOUS
  <2>2. \A k \in 1 .. Len(j) : longer[k] = j[k]
    OBVIOUS
  <2>3. longer[Len(j) + 1] = e
    OBVIOUS
  <2>4. \A k \in 1 .. Len(j) + 1 : k \in 1 .. Len(j) \/ k = Len(j) + 1
    OBVIOUS
  <2> QED
    BY <2>1, <2>2, <2>3, <2>4 DEF Range
<1>3. Appended(j, e) = longer \/ Appended(j, e) = WithoutIndex(longer, Oldest(longer))
  BY DEF Appended
<1> HIDE DEF longer
<1> QED
  BY <1>1, <1>2, <1>3, WithoutIndexType

-----------------------------------------------------------------------------
(* One process at a time. *)

LEMMA BlankType == Blank \in Proc
<1>1. (CHOOSE id \in Ids : TRUE) \in Ids /\ (CHOOSE q \in Paths : TRUE) \in Paths
  BY SomeAssumption
<1>2. <<>> \in Seq(Entry)
  OBVIOUS
<1> QED
  BY <1>1, <1>2 DEF Blank, Proc, Steps

LEMMA GoesType ==
  ASSUME NEW p \in Procs, NEW r \in Proc, proc \in [Procs -> Proc], Goes(p, r)
  PROVE  /\ proc' \in [Procs -> Proc]
         /\ proc'[p] = r
         /\ \A q \in Procs : q # p => proc'[q] = proc[q]
BY DEF Goes

\* What a process must satisfy on its own.
Sound(r) ==
    /\ r.pc \in {"held", "read", "pruned", "gone"} => r.held = r.expected
    /\ r.pc \in Recorded \cup {"popped", "rebuilt", "added"} => r.entry \in Entry
    /\ (r.pc \in Recorded /\ r.head \in Branches) => r.entry.branch = r.head

LEMMA ProcInvIsSound == ProcInv <=> \A p \in Procs : Sound(proc[p])
BY DEF ProcInv, Sound, HandleIsConfirmed, EntryIsThere, EntryNamesHead

LEMMA BlankIsSound == Sound(Blank)
BY DEF Sound, Blank, Recorded

LEMMA Moved ==
  ASSUME NEW p \in Procs, NEW r \in Proc, Sound(r), Goes(p, r),
         proc \in [Procs -> Proc], \A q \in Procs : Sound(proc[q])
  PROVE  proc' \in [Procs -> Proc] /\ \A q \in Procs : Sound(proc'[q])
<1>1. proc' \in [Procs -> Proc] /\ proc'[p] = r /\ \A q \in Procs : q # p => proc'[q] = proc[q]
  BY GoesType
<1> QED
  BY <1>1
-----------------------------------------------------------------------------
(* Every step keeps the types and what is true of each process. *)

LEMMA InitInv == Init => Inv
<1> SUFFICES ASSUME Init PROVE Inv
  OBVIOUS
<1>1. Blank \in Proc /\ Sound(Blank)
  BY BlankType, BlankIsSound
<1>2. proc \in [Procs -> Proc] /\ \A p \in Procs : proc[p] = Blank
  BY <1>1 DEF Init
<1>3. ProcInv
  BY <1>1, <1>2, ProcInvIsSound
<1>4. disk \subseteq Paths /\ admin \in [Ids -> Paths \cup {NoPath}] /\ head \in [Ids -> Heads]
  BY DEF Init, Heads
<1>5. tip \in [Branches -> Oid \cup {NoRef}]
  BY DEF Init, Oid
<1>6. journal \in Seq(Entry) /\ clock \in Nat /\ oids \in Nat /\ worldSteps \in Nat /\ fell \subseteq Paths
  BY DEF Init
<1> QED
  BY <1>2, <1>3, <1>4, <1>5, <1>6 DEF Inv, TypeOK

LEMMA WorldInv == Inv /\ World => Inv'
<1> SUFFICES ASSUME Inv, World PROVE Inv'
  OBVIOUS
<1>1. /\ admin \in [Ids -> Paths \cup {NoPath}] /\ head \in [Ids -> Heads]
      /\ disk \subseteq Paths /\ tip \in [Branches -> Oid \cup {NoRef}]
      /\ oids \in Nat /\ worldSteps \in Nat
  BY DEF Inv, TypeOK
<1>2. UNCHANGED <<journal, proc, clock, fell>> /\ worldSteps' = worldSteps + 1
  BY DEF World, Moves, Recreates, Discards, Deletes, ChecksOut, Commits, WorldMayMove
<1>3. /\ admin' \in [Ids -> Paths \cup {NoPath}] /\ head' \in [Ids -> Heads]
      /\ disk' \subseteq Paths /\ tip' \in [Branches -> Oid \cup {NoRef}] /\ oids' \in Nat
  <2>1. CASE \E id \in Ids : Discards(id)
    BY <1>1, <2>1 DEF Discards
  <2>2. CASE \E id \in Ids, q \in Paths : Moves(id, q)
    BY <1>1, <2>2 DEF Moves
  <2>3. CASE \E id \in Ids, h \in Heads : ChecksOut(id, h)
    BY <1>1, <2>3 DEF ChecksOut
  <2>4. CASE \E q \in Paths : Deletes(q)
    BY <1>1, <2>4 DEF Deletes
  <2>5. CASE \E q \in Paths, b \in Branches : Recreates(q, b)
    <3>1. PICK q \in Paths, b \in Branches : Recreates(q, b)
      BY <2>5
    <3>2. Basename[q] \in Ids /\ b \in Heads /\ 0 \in Oid
      BY BasenameAssumption DEF Heads, Oid
    <3> QED
      BY <1>1, <3>1, <3>2 DEF Recreates
  <2>6. CASE \E b \in Branches : Commits(b)
    BY <1>1, <2>6 DEF Commits, Oid
  <2> QED
    BY <2>1, <2>2, <2>3, <2>4, <2>5, <2>6 DEF World
<1>4. TypeOK'
  BY <1>1, <1>2, <1>3 DEF Inv, TypeOK
<1>5. ProcInv'
  BY <1>2 DEF Inv, ProcInv, HandleIsConfirmed, EntryIsThere, EntryNamesHead
<1> QED
  BY <1>4, <1>5 DEF Inv

\* What a step of process p leaves to show.
LEMMA StepOf ==
  ASSUME Inv, NEW p \in Procs, NEW r \in Proc, Sound(r), Goes(p, r),
         admin' \in [Ids -> Paths \cup {NoPath}], head' \in [Ids -> Heads],
         disk' \subseteq Paths, tip' \in [Branches -> Oid \cup {NoRef}],
         journal' \in Seq(Entry), clock' \in Nat, fell' \subseteq Paths,
         UNCHANGED <<oids, worldSteps>>
  PROVE  Inv'
<1>1. proc \in [Procs -> Proc] /\ oids \in Nat /\ worldSteps \in Nat
  BY DEF Inv, TypeOK
<1>2. \A q \in Procs : Sound(proc[q])
  BY ProcInvIsSound DEF Inv
<1>3. proc' \in [Procs -> Proc] /\ \A q \in Procs : Sound(proc'[q])
  BY <1>1, <1>2, Moved
<1>4. ProcInv'
  BY <1>3 DEF ProcInv, HandleIsConfirmed, EntryIsThere, EntryNamesHead, Sound
<1>5. TypeOK'
  BY <1>1, <1>3 DEF TypeOK
<1> QED
  BY <1>4, <1>5 DEF Inv

\* A step that changes the process and nothing else.
LEMMA StepOnly ==
  ASSUME Inv, NEW p \in Procs, NEW r \in Proc, Sound(r), Goes(p, r),
         UNCHANGED <<git, journal, clock, oids, worldSteps, fell>>
  PROVE  Inv'
<1>1. /\ admin' \in [Ids -> Paths \cup {NoPath}] /\ head' \in [Ids -> Heads]
      /\ disk' \subseteq Paths /\ tip' \in [Branches -> Oid \cup {NoRef}]
      /\ journal' \in Seq(Entry) /\ clock' \in Nat /\ fell' \subseteq Paths
  BY DEF Inv, TypeOK, git
<1> QED
  BY <1>1, StepOf

LEMMA EndsOnly ==
  ASSUME Inv, NEW p \in Procs, Ends(p),
         UNCHANGED <<git, journal, clock, oids, worldSteps, fell>>
  PROVE  Inv'
BY StepOnly, BlankType, BlankIsSound DEF Ends

LEMMA RemovesInv ==
  ASSUME Inv, NEW p \in Procs, Removes(p)
  PROVE  Inv'
<1>1. /\ admin \in [Ids -> Paths \cup {NoPath}] /\ head \in [Ids -> Heads]
      /\ disk \subseteq Paths /\ tip \in [Branches -> Oid \cup {NoRef}]
      /\ journal \in Seq(Entry) /\ clock \in Nat /\ fell \subseteq Paths
      /\ proc[p] \in Proc /\ Sound(proc[p])
  BY ProcInvIsSound DEF Inv, TypeOK
<1>2. CASE Confirm(p)
  <2>1. PICK id \in Ids, d \in BOOLEAN :
          /\ admin[id] # NoPath
          /\ Goes(p, [Blank EXCEPT
               !.pc = "confirmed", !.id = id, !.deleteBranch = d,
               !.expected = admin[id], !.found = admin[id],
               !.listed = IF admin[id] \in disk THEN head[id] ELSE NoBranch])
    BY <1>2 DEF Confirm
  <2> DEFINE r == [Blank EXCEPT
               !.pc = "confirmed", !.id = id, !.deleteBranch = d,
               !.expected = admin[id], !.found = admin[id],
               !.listed = IF admin[id] \in disk THEN head[id] ELSE NoBranch]
  <2>2. admin[id] \in Paths /\ head[id] \in Heads
    BY <1>1, <2>1
  <2>3. r \in Proc
    BY <2>2, BlankType DEF Proc, Steps
  <2>4. Sound(r)
    BY <2>3 DEF Sound, Recorded, Proc, Blank
  <2>5. UNCHANGED <<git, journal, clock, oids, worldSteps, fell>>
    BY <1>2 DEF Confirm
  <2> HIDE DEF r
  <2>6. Goes(p, r)
    BY <2>1 DEF r
  <2> QED
    BY <2>3, <2>4, <2>5, <2>6, StepOnly
<1>3. CASE Relist(p)
  <2>0. UNCHANGED <<git, journal, clock, oids, worldSteps, fell>>
    BY <1>3 DEF Relist
  <2>1. CASE Ends(p)
    BY <2>0, <2>1, EndsOnly
  <2>2. CASE ~ Ends(p)
    <3> DEFINE id == proc[p].id
               r == [proc[p] EXCEPT
                       !.found = admin[id],
                       !.listed = IF admin[id] \in disk THEN head[id] ELSE NoBranch]
    <3>1. Goes(p, r) /\ admin[id] # NoPath
      BY <1>3, <2>2 DEF Relist
    <3>2. id \in Ids
      BY <1>1 DEF Proc
    <3>3. admin[id] \in Paths /\ head[id] \in Heads
      BY <1>1, <3>1, <3>2
    <3>4. r \in Proc
      BY <1>1, <3>3 DEF Proc
    <3>5. Sound(r)
      BY <1>1 DEF Sound, Proc
    <3> HIDE DEF r
    <3> QED
      BY <2>0, <3>1, <3>4, <3>5, StepOnly
  <2> QED
    BY <2>1, <2>2
<1>4. CASE VerifyPath(p)
  <2>0. UNCHANGED <<git, journal, clock, oids, worldSteps, fell>>
    BY <1>4 DEF VerifyPath
  <2> DEFINE r == [proc[p] EXCEPT !.pc = "verified"]
  <2>1. r \in Proc /\ Sound(r)
    BY <1>1 DEF Proc, Steps, Sound, Recorded
  <2>2. Goes(p, r) \/ Ends(p)
    BY <1>4 DEF VerifyPath
  <2> HIDE DEF r
  <2> QED
    BY <2>0, <2>1, <2>2, StepOnly, EndsOnly
<1>5. CASE PreRemove(p)
  <2>0. UNCHANGED <<git, journal, clock, oids, worldSteps, fell>>
    BY <1>5 DEF PreRemove
  <2> DEFINE r == [proc[p] EXCEPT !.pc = "hooked"]
  <2>1. r \in Proc /\ Sound(r)
    BY <1>1 DEF Proc, Steps, Sound, Recorded
  <2>2. Goes(p, r) \/ Ends(p)
    BY <1>5 DEF PreRemove
  <2> HIDE DEF r
  <2> QED
    BY <2>0, <2>1, <2>2, StepOnly, EndsOnly
<1>6. CASE TakeHandle(p)
  <2>0. UNCHANGED <<git, journal, clock, oids, worldSteps, fell>>
    BY <1>6 DEF TakeHandle
  <2> DEFINE r == [proc[p] EXCEPT !.pc = "held", !.held = proc[p].expected]
  <2>1. proc[p].expected \in Paths
    BY <1>1 DEF Proc
  <2>2. r \in Proc /\ Sound(r)
    BY <1>1, <2>1 DEF Proc, Steps, Sound, Recorded
  <2>3. Goes(p, r) \/ Ends(p)
    BY <1>6 DEF TakeHandle
  <2> HIDE DEF r
  <2> QED
    BY <2>0, <2>2, <2>3, StepOnly, EndsOnly
<1>7. CASE ReadHead(p)
  <2>0. UNCHANGED <<git, journal, clock, oids, worldSteps, fell>>
    BY <1>7 DEF ReadHead
  <2>1. PICK h \in HeadsAt(proc[p].held) : Goes(p, [proc[p] EXCEPT !.pc = "read", !.head = h])
    BY <1>7 DEF ReadHead
  <2>2. h \in Heads \cup {Unreadable}
    BY <1>1, <2>1 DEF HeadsAt
  <2> DEFINE r == [proc[p] EXCEPT !.pc = "read", !.head = h]
  <2>3. At(p, "held")
    BY <1>7 DEF ReadHead
  <2>4. r \in Proc /\ Sound(r)
    BY <1>1, <2>2, <2>3 DEF Proc, Steps, Sound, Recorded, At
  <2>5. Goes(p, r)
    BY <2>1
  <2> HIDE DEF r
  <2> QED
    BY <2>0, <2>4, <2>5, StepOnly
<1>8. CASE Prune(p)
  <2>0. /\ UNCHANGED <<head, disk, tip, journal, clock, oids, worldSteps, fell>>
        /\ At(p, "read")
    BY <1>8 DEF Prune
  <2> DEFINE r == [proc[p] EXCEPT !.pc = "pruned"]
  <2>1. r \in Proc /\ Sound(r)
    BY <1>1, <2>0 DEF Proc, Steps, Sound, Recorded, At
  <2>2. Goes(p, r) \/ Goes(p, Blank)
    BY <1>8 DEF Prune, Ends
  <2>3. admin' \in [Ids -> Paths \cup {NoPath}]
    BY <1>1, <1>8 DEF Prune
  <2>4. /\ head' \in [Ids -> Heads] /\ disk' \subseteq Paths /\ tip' \in [Branches -> Oid \cup {NoRef}]
        /\ journal' \in Seq(Entry) /\ clock' \in Nat /\ fell' \subseteq Paths
        /\ UNCHANGED <<oids, worldSteps>>
    BY <1>1, <2>0
  <2> HIDE DEF r
  <2> QED
    BY <2>1, <2>2, <2>3, <2>4, StepOf, BlankType, BlankIsSound
<1>9. CASE RemoveDir(p)
  <2>0. /\ UNCHANGED <<admin, head, tip, journal, clock, oids, worldSteps>>
        /\ At(p, "pruned")
    BY <1>9 DEF RemoveDir
  <2> DEFINE r == [proc[p] EXCEPT !.pc = "gone"]
  <2>1. r \in Proc /\ Sound(r)
    BY <1>1, <2>0 DEF Proc, Steps, Sound, Recorded, At
  <2>2. Goes(p, r) \/ Goes(p, Blank)
    BY <1>9 DEF RemoveDir, Ends
  <2>3. proc[p].held \in Paths
    BY <1>1 DEF Proc
  <2>4. disk' \subseteq Paths /\ fell' \subseteq Paths
    BY <1>1, <1>9, <2>3 DEF RemoveDir
  <2>5. /\ admin' \in [Ids -> Paths \cup {NoPath}] /\ head' \in [Ids -> Heads]
        /\ tip' \in [Branches -> Oid \cup {NoRef}]
        /\ journal' \in Seq(Entry) /\ clock' \in Nat /\ UNCHANGED <<oids, worldSteps>>
    BY <1>1, <2>0
  <2> HIDE DEF r
  <2> QED
    BY <2>1, <2>2, <2>4, <2>5, StepOf, BlankType, BlankIsSound
<1>10. CASE LoadJournal(p)
  <2>0. UNCHANGED <<git, journal, oids, worldSteps, fell>> /\ At(p, "gone") /\ clock' = clock + 1
    BY <1>10 DEF LoadJournal
  <2> DEFINE b == BranchToRecord(p)
             e == [ts |-> clock, path |-> proc[p].found, branch |-> b, oid |-> TipOf(b)]
             r == [proc[p] EXCEPT !.pc = "recording", !.snapshot = journal, !.entry = e]
  <2>1. b \in Heads \cup {NoBranch} /\ (proc[p].head \in Branches => b = proc[p].head)
    <3>1. proc[p].head \in Heads \cup {Unreadable} /\ proc[p].listed \in Heads \cup {NoBranch}
      BY <1>1 DEF Proc
    <3>2. Detached \notin Branches /\ Unreadable \notin Branches
      BY NoneAssumption
    <3> QED
      BY <3>1, <3>2 DEF BranchToRecord
  <2>2. TipOf(b) \in Oid \cup {NoRef}
    BY <1>1 DEF TipOf
  <2>3. e \in Entry /\ e.branch = b
    <3>1. proc[p].found \in Paths
      BY <1>1 DEF Proc
    <3> HIDE DEF b
    <3> QED
      BY <1>1, <2>1, <2>2, <3>1 DEF Entry
  <2>4. Goes(p, r)
    BY <1>10 DEF LoadJournal
  <2> HIDE DEF e, b
  <2>5. r \in Proc
    BY <1>1, <2>3 DEF Proc, Steps
  <2>6. r.pc = "recording" /\ r.head = proc[p].head /\ r.entry = e
    BY <1>1 DEF Proc
  <2>7. Sound(r)
    <3> HIDE DEF r
    <3> QED
      BY <2>1, <2>3, <2>6 DEF Sound
  <2>8. /\ admin' \in [Ids -> Paths \cup {NoPath}] /\ head' \in [Ids -> Heads]
        /\ disk' \subseteq Paths /\ tip' \in [Branches -> Oid \cup {NoRef}]
        /\ journal' \in Seq(Entry) /\ clock' \in Nat /\ fell' \subseteq Paths
        /\ UNCHANGED <<oids, worldSteps>>
    BY <1>1, <2>0 DEF git
  <2> HIDE DEF r
  <2> QED
    BY <2>4, <2>5, <2>7, <2>8, StepOf
<1>11. CASE SaveJournal(p)
  <2>0. UNCHANGED <<git, clock, oids, worldSteps, fell>> /\ At(p, "recording")
    BY <1>11 DEF SaveJournal
  <2> DEFINE r == [proc[p] EXCEPT !.pc = "recorded"]
             u == [proc[p] EXCEPT !.pc = "recorded", !.warned = TRUE]
  <2>1. r \in Proc /\ Sound(r) /\ u \in Proc /\ Sound(u)
    BY <1>1, <2>0 DEF Proc, Steps, Sound, Recorded, At
  <2>2. Goes(p, r) \/ Goes(p, u)
    BY <1>11 DEF SaveJournal
  <2>3. proc[p].entry \in Entry /\ proc[p].snapshot \in Seq(Entry)
    BY <1>1, <2>0 DEF At, Sound, Recorded, Proc
  <2>4. journal' \in Seq(Entry)
    <3>1. Appended(proc[p].snapshot, proc[p].entry) \in Seq(Entry)
      BY <2>3, AppendedType
    <3>2. journal' = Appended(proc[p].snapshot, proc[p].entry) \/ journal' = journal
      BY <1>11 DEF SaveJournal
    <3> QED
      BY <1>1, <3>1, <3>2
  <2>5. /\ admin' \in [Ids -> Paths \cup {NoPath}] /\ head' \in [Ids -> Heads]
        /\ disk' \subseteq Paths /\ tip' \in [Branches -> Oid \cup {NoRef}]
        /\ clock' \in Nat /\ fell' \subseteq Paths /\ UNCHANGED <<oids, worldSteps>>
    BY <1>1, <2>0 DEF git
  <2> HIDE DEF r, u
  <2> QED
    BY <2>1, <2>2, <2>4, <2>5, StepOf
<1>12. CASE DeleteBranch(p)
  <2>0. /\ UNCHANGED <<admin, head, disk, journal, clock, oids, worldSteps, fell>>
        /\ Goes(p, Blank)
    BY <1>12 DEF DeleteBranch, Ends
  <2>1. tip' \in [Branches -> Oid \cup {NoRef}]
    BY <1>1, <1>12 DEF DeleteBranch
  <2>2. /\ admin' \in [Ids -> Paths \cup {NoPath}] /\ head' \in [Ids -> Heads] /\ disk' \subseteq Paths
        /\ journal' \in Seq(Entry) /\ clock' \in Nat /\ fell' \subseteq Paths
        /\ UNCHANGED <<oids, worldSteps>>
    BY <1>1, <2>0
  <2> QED
    BY <2>0, <2>1, <2>2, StepOf, BlankType, BlankIsSound
<1> QED
  BY <1>2, <1>3, <1>4, <1>5, <1>6, <1>7, <1>8, <1>9, <1>10, <1>11, <1>12 DEF Removes

LEMMA UndoesInv ==
  ASSUME Inv, NEW p \in Procs, Undoes(p)
  PROVE  Inv'
<1>1. /\ admin \in [Ids -> Paths \cup {NoPath}] /\ head \in [Ids -> Heads]
      /\ disk \subseteq Paths /\ tip \in [Branches -> Oid \cup {NoRef}]
      /\ journal \in Seq(Entry) /\ clock \in Nat /\ fell \subseteq Paths
      /\ proc[p] \in Proc /\ Sound(proc[p])
  BY ProcInvIsSound DEF Inv, TypeOK
<1>2. CASE Pop(p)
  <2>0. UNCHANGED <<git, journal, clock, oids, worldSteps, fell>>
    BY <1>2 DEF Pop
  <2>1. PICK i \in DOMAIN journal :
          Goes(p, [Blank EXCEPT !.pc = "popped", !.entry = journal[i],
                                !.snapshot = WithoutIndex(journal, i)])
    BY <1>2 DEF Pop
  <2> DEFINE rest == WithoutIndex(journal, i)
             r == [Blank EXCEPT !.pc = "popped", !.entry = journal[i], !.snapshot = rest]
  <2>2. journal # <<>> /\ journal[i] \in Entry
    <3>1. DOMAIN journal = 1 .. Len(journal) /\ \A k \in 1 .. Len(journal) : journal[k] \in Entry
      BY <1>1
    <3>2. DOMAIN <<>> = {}
      OBVIOUS
    <3> QED
      BY <2>1, <3>1, <3>2
  <2>3. rest \in Seq(Entry)
    BY <1>1, <2>2, WithoutIndexType
  <2>4. Goes(p, r)
    BY <2>1
  <2> HIDE DEF rest
  <2>5. r \in Proc
    BY <2>2, <2>3, BlankType DEF Proc, Steps
  <2>6. r.pc = "popped" /\ r.entry = journal[i]
    BY BlankType DEF Proc
  <2>7. Sound(r)
    <3> HIDE DEF r
    <3> QED
      BY <2>2, <2>6 DEF Sound, Recorded
  <2> HIDE DEF r
  <2> QED
    BY <2>0, <2>4, <2>5, <2>7, StepOnly
<1>3. CASE Resurrect(p)
  <2>0. /\ UNCHANGED <<admin, head, disk, journal, clock, oids, worldSteps, fell>>
        /\ At(p, "popped")
    BY <1>3 DEF Resurrect
  <2> DEFINE r == [proc[p] EXCEPT !.pc = "rebuilt"]
  <2>1. proc[p].entry \in Entry
    BY <1>1, <2>0 DEF At, Sound, Recorded
  <2>2. r \in Proc /\ Sound(r)
    BY <1>1, <2>0 DEF Proc, Steps, Sound, Recorded, At
  <2>3. Goes(p, r)
    BY <1>3 DEF Resurrect
  <2>4. tip' \in [Branches -> Oid \cup {NoRef}]
    <3>1. proc[p].entry.oid \in Oid \cup {NoRef}
      BY <2>1 DEF Entry
    <3> QED
      BY <1>1, <1>3, <3>1 DEF Resurrect
  <2>5. /\ admin' \in [Ids -> Paths \cup {NoPath}] /\ head' \in [Ids -> Heads] /\ disk' \subseteq Paths
        /\ journal' \in Seq(Entry) /\ clock' \in Nat /\ fell' \subseteq Paths
        /\ UNCHANGED <<oids, worldSteps>>
    BY <1>1, <2>0
  <2> HIDE DEF r
  <2> QED
    BY <2>2, <2>3, <2>4, <2>5, StepOf
<1>4. CASE ReAdd(p)
  <2>0. UNCHANGED <<journal, clock, oids, worldSteps, fell>> /\ At(p, "rebuilt")
    BY <1>4 DEF ReAdd
  <2> DEFINE e == proc[p].entry
             r == [proc[p] EXCEPT !.pc = "added"]
  <2>1. e \in Entry
    BY <1>1, <2>0 DEF At, Sound, Recorded
  <2>2. r \in Proc /\ Sound(r)
    BY <1>1, <2>0 DEF Proc, Steps, Sound, Recorded, At
  <2>3. journal' \in Seq(Entry) /\ clock' \in Nat /\ fell' \subseteq Paths /\ UNCHANGED <<oids, worldSteps>>
    BY <1>1, <2>0
  <2>4. CASE CanAdd(e)
    <3>1. e.branch \in Branches /\ e.path \in Paths
      BY <2>1, <2>4 DEF CanAdd, Entry
    <3>2. Basename[e.path] \in Ids /\ e.branch \in Heads /\ 0 \in Oid
      BY <3>1, BasenameAssumption DEF Heads, Oid
    <3>3. /\ admin' = [admin EXCEPT ![Basename[e.path]] = e.path]
          /\ head' = [head EXCEPT ![Basename[e.path]] = e.branch]
          /\ disk' = disk \cup {e.path}
          /\ tip' = [tip EXCEPT ![e.branch] = IF @ = NoRef THEN 0 ELSE @]
          /\ Goes(p, r)
      BY <1>4, <2>4 DEF ReAdd
    <3> HIDE DEF e, r
    <3>4. /\ admin' \in [Ids -> Paths \cup {NoPath}] /\ head' \in [Ids -> Heads]
          /\ disk' \subseteq Paths /\ tip' \in [Branches -> Oid \cup {NoRef}]
      BY <1>1, <3>1, <3>2, <3>3
    <3> QED
      BY <2>2, <2>3, <3>3, <3>4, StepOf
  <2>5. CASE ~ CanAdd(e)
    <3>1. /\ Goes(p, Blank) /\ UNCHANGED <<admin, head, disk>>
          /\ tip' = IF Orphans(e) THEN [tip EXCEPT ![e.branch] = 0] ELSE tip
      BY <1>4, <2>5 DEF ReAdd, Ends
    <3>2. 0 \in Oid
      BY DEF Oid
    <3> HIDE DEF e
    <3>3. tip' \in [Branches -> Oid \cup {NoRef}]
      BY <1>1, <3>1, <3>2
    <3>4. admin' \in [Ids -> Paths \cup {NoPath}] /\ head' \in [Ids -> Heads] /\ disk' \subseteq Paths
      BY <1>1, <3>1
    <3> QED
      BY <2>3, <3>1, <3>3, <3>4, StepOf, BlankType, BlankIsSound
  <2> QED
    BY <2>4, <2>5
<1>5. CASE SaveUndo(p)
  <2>0. UNCHANGED <<git, clock, oids, worldSteps, fell>> /\ Goes(p, Blank)
    BY <1>5 DEF SaveUndo, Ends
  <2>1. journal' \in Seq(Entry)
    <3>1. proc[p].snapshot \in Seq(Entry)
      BY <1>1 DEF Proc
    <3> QED
      BY <1>1, <1>5, <3>1 DEF SaveUndo
  <2>2. /\ admin' \in [Ids -> Paths \cup {NoPath}] /\ head' \in [Ids -> Heads]
        /\ disk' \subseteq Paths /\ tip' \in [Branches -> Oid \cup {NoRef}]
        /\ clock' \in Nat /\ fell' \subseteq Paths /\ UNCHANGED <<oids, worldSteps>>
    BY <1>1, <2>0 DEF git
  <2> QED
    BY <2>0, <2>1, <2>2, StepOf, BlankType, BlankIsSound
<1> QED
  BY <1>2, <1>3, <1>4, <1>5 DEF Undoes

\* Types, and what each process carries, hold whatever the world does.
LEMMA NextInv ==
  ASSUME Inv, [Next]_vars
  PROVE  Inv'
<1>1. CASE World
  BY <1>1, WorldInv
<1>2. CASE \E p \in Procs : Removes(p)
  BY <1>2, RemovesInv
<1>3. CASE \E p \in Procs : Undoes(p)
  BY <1>3, UndoesInv
<1>4. CASE \E p \in Procs : Stops(p)
  <2>1. PICK p \in Procs : Stops(p)
    BY <1>4
  <2>2. Ends(p) /\ UNCHANGED <<git, journal, clock, oids, worldSteps, fell>>
    BY <2>1 DEF Stops
  <2> QED
    BY <2>2, EndsOnly
<1>5. CASE UNCHANGED vars
  <2>1. TypeOK'
    BY <1>5 DEF Inv, TypeOK, vars, git
  <2>2. ProcInv'
    BY <1>5 DEF Inv, ProcInv, HandleIsConfirmed, EntryIsThere, EntryNamesHead, vars
  <2> QED
    BY <2>1, <2>2 DEF Inv
<1> QED
  BY <1>1, <1>2, <1>3, <1>4, <1>5 DEF Next

THEOREM Inductive == Spec => []Inv
BY InitInv, NextInv, PTL DEF Spec

\* Every variable stays in its type (the state of remove_with_lifecycle,
\* remove_inner, history::record and cmd_undo).
THEOREM TypeCorrect == Spec => []TypeOK
<1>1. Inv => TypeOK
  BY DEF Inv
<1> QED
  BY <1>1, Inductive, PTL

-----------------------------------------------------------------------------
\* The directory that falls is the one its process committed to, with any
\* number of processes and anything going on around them (remove_inner).
THEOREM OnlyConfirmedFall == Spec => OnlyConfirmedPathsFall
<1> DEFINE Falls == \A q \in fell' \ fell : \E p \in Procs : At(p, "pruned") /\ proc[p].expected = q
<1>1. Inv /\ [Next]_vars => Falls
  <2> SUFFICES ASSUME Inv, [Next]_vars, NEW q \in fell' \ fell
               PROVE  \E p \in Procs : At(p, "pruned") /\ proc[p].expected = q
    OBVIOUS
  <2>1. PICK p \in Procs : RemoveDir(p)
    <3>1. fell' # fell
      OBVIOUS
    <3>2. ~ World /\ ~ UNCHANGED vars
      BY <3>1 DEF World, Moves, Recreates, Discards, Deletes, ChecksOut, Commits, WorldMayMove, vars
    <3>3. PICK p \in Procs : Removes(p) \/ Undoes(p) \/ Stops(p)
      BY <3>2 DEF Next
    <3>4. ~ Stops(p) /\ ~ Undoes(p)
      BY <3>1 DEF Stops, Undoes, Pop, Resurrect, ReAdd, SaveUndo
    <3>5. RemoveDir(p)
      BY <3>1, <3>3, <3>4 DEF Removes, Confirm, Relist, VerifyPath, PreRemove, TakeHandle,
         ReadHead, Prune, LoadJournal, SaveJournal, DeleteBranch
    <3> QED
      BY <3>5
  <2>2. At(p, "pruned") /\ q = proc[p].held
    BY <2>1 DEF RemoveDir
  <2>3. proc[p].held = proc[p].expected
    BY <2>2 DEF Inv, ProcInv, HandleIsConfirmed, At
  <2> QED
    BY <2>2, <2>3
<1>2. Spec => [][Falls]_vars
  BY <1>1, Inductive, PTL DEF Spec
<1> QED
  BY <1>2 DEF OnlyConfirmedPathsFall

\* Only a process that was asked to deletes a branch, the one its entry names.
LEMMA DroppedByTheRecorder ==
  ASSUME Inv, [Next]_vars, NEW b \in Branches, tip[b] # NoRef, tip'[b] = NoRef
  PROVE  \E p \in Procs : DroppedBy(p, b) /\ proc[p].deleteBranch /\ proc[p].entry.branch = b
<1>0. tip \in [Branches -> Oid \cup {NoRef}] /\ oids \in Nat /\ NoRef \notin Nat
  BY NoneAssumption DEF Inv, TypeOK
<1>1. ~ World
  <2>1. ~ \E id \in Ids : Discards(id) \/ \E q \in Paths : Moves(id, q)
    BY DEF Discards, Moves
  <2>2. ~ \E id \in Ids : \E h \in Heads : ChecksOut(id, h)
    BY DEF ChecksOut
  <2>3. ~ \E q \in Paths : Deletes(q)
    BY DEF Deletes
  <2>4. ~ \E q \in Paths : \E c \in Branches : Recreates(q, c)
    BY <1>0 DEF Recreates
  <2>5. ~ \E c \in Branches : Commits(c)
    BY <1>0 DEF Commits
  <2> QED
    BY <2>1, <2>2, <2>3, <2>4, <2>5 DEF World
<1>2. ~ UNCHANGED vars
  BY DEF vars, git
<1>3. PICK p \in Procs : Removes(p) \/ Undoes(p) \/ Stops(p)
  BY <1>1, <1>2 DEF Next
<1>4. ~ Stops(p)
  BY DEF Stops, git
<1>5. ~ Undoes(p)
  <2>1. ~ Pop(p) /\ ~ SaveUndo(p)
    BY DEF Pop, SaveUndo, git
  <2>2. ~ Resurrect(p)
    BY <1>0 DEF Resurrect, Resurrects
  <2>3. ~ ReAdd(p)
    BY <1>0 DEF ReAdd, git, CanAdd
  <2> QED
    BY <2>1, <2>2, <2>3 DEF Undoes
<1>6. DeleteBranch(p)
  BY <1>3, <1>4, <1>5 DEF Removes, Confirm, Relist, VerifyPath, PreRemove, TakeHandle,
     ReadHead, Prune, RemoveDir, LoadJournal, SaveJournal, git
<1>7. At(p, "recorded") /\ proc[p].head = b /\ proc[p].deleteBranch
  BY <1>0, <1>6 DEF DeleteBranch
<1>8. proc[p].entry.branch = b
  BY <1>7 DEF Inv, ProcInv, EntryNamesHead, Recorded, At
<1> QED
  BY <1>7, <1>8 DEF DroppedBy

\* A branch goes only for a process that was asked to delete it, and whose
\* entry names it (branch_to_record, and remove_with_lifecycle 122-130).
THEOREM DeletedIsRecorded == Spec => DeletedBranchIsTheRecordedOne
<1> DEFINE Named == \A b \in Branches : (tip[b] # NoRef /\ tip'[b] = NoRef) =>
              \E p \in Procs : DroppedBy(p, b) /\ proc[p].deleteBranch /\ proc[p].entry.branch = b
<1>1. Inv /\ [Next]_vars => Named
  BY DroppedByTheRecorder
<1>2. Spec => [][Named]_vars
  BY <1>1, Inductive, PTL DEF Spec
<1> QED
  BY <1>2 DEF DeletedBranchIsTheRecordedOne

-----------------------------------------------------------------------------
(* The journal and the directories that fell. *)

Backed(r, gone) ==
    /\ \A e \in Range(r.snapshot) : e.path \in gone
    /\ r.pc = "gone" => r.held \in gone
    /\ r.pc = "recording" => r.entry.path \in gone
    /\ r.found = r.expected

LEMMA BlankIsBacked == ASSUME NEW gone PROVE Backed(Blank, gone)
<1>1. Range(<<>>) = {}
  BY DEF Range
<1> QED
  BY <1>1 DEF Backed, Blank

LEMMA BackedStep ==
  ASSUME Inv, FallenInv, NEW p \in Procs, NEW r \in Proc, Goes(p, r), Backed(r, fell'),
         fell \subseteq fell', \A e \in Range(journal') : e.path \in fell'
  PROVE  FallenInv'
<1>1. proc \in [Procs -> Proc]
  BY DEF Inv, TypeOK
<1>2. proc' \in [Procs -> Proc] /\ proc'[p] = r /\ \A q \in Procs : q # p => proc'[q] = proc[q]
  BY <1>1, GoesType
<1>3. \A q \in Procs : Backed(proc[q], fell)
  BY DEF FallenInv, SnapshotFell, Backed
<1>4. \A q \in Procs : Backed(proc'[q], fell')
  BY <1>2, <1>3 DEF Backed
<1> QED
  BY <1>4 DEF FallenInv, SnapshotFell, Backed, NoPhantomEntry

\* What a process that moves without touching journal or disk leaves to show.
LEMMA BackedQuietly ==
  ASSUME Inv, FallenInv, NEW p \in Procs, NEW r \in Proc, Goes(p, r), Backed(r, fell),
         UNCHANGED <<journal, fell>>
  PROVE  FallenInv'
BY BackedStep DEF FallenInv, NoPhantomEntry

LEMMA BackedEnds ==
  ASSUME Inv, FallenInv, NEW p \in Procs, Ends(p), UNCHANGED <<journal, fell>>
  PROVE  FallenInv'
BY BackedQuietly, BlankIsBacked, BlankType DEF Ends

LEMMA RemovesFallen ==
  ASSUME Inv, FallenInv, Drifts = FALSE, NEW p \in Procs, Removes(p)
  PROVE  FallenInv'
<1>1. /\ admin \in [Ids -> Paths \cup {NoPath}] /\ head \in [Ids -> Heads]
      /\ journal \in Seq(Entry) /\ clock \in Nat /\ proc[p] \in Proc /\ Sound(proc[p])
      /\ proc \in [Procs -> Proc]
  BY ProcInvIsSound DEF Inv, TypeOK
<1>2. Backed(proc[p], fell) /\ \A e \in Range(journal) : e.path \in fell
  BY DEF FallenInv, SnapshotFell, Backed, NoPhantomEntry
<1>3. CASE Confirm(p)
  <2>1. PICK id \in Ids, d \in BOOLEAN :
          /\ admin[id] # NoPath
          /\ Goes(p, [Blank EXCEPT
               !.pc = "confirmed", !.id = id, !.deleteBranch = d,
               !.expected = admin[id], !.found = admin[id],
               !.listed = IF admin[id] \in disk THEN head[id] ELSE NoBranch])
    BY <1>3 DEF Confirm
  <2> DEFINE r == [Blank EXCEPT
               !.pc = "confirmed", !.id = id, !.deleteBranch = d,
               !.expected = admin[id], !.found = admin[id],
               !.listed = IF admin[id] \in disk THEN head[id] ELSE NoBranch]
  <2>2. admin[id] \in Paths /\ head[id] \in Heads
    BY <1>1, <2>1
  <2>3. r \in Proc
    BY <2>2, BlankType DEF Proc, Steps
  <2>4. r.snapshot = Blank.snapshot /\ r.pc = "confirmed" /\ r.found = r.expected
    BY BlankType DEF Proc
  <2>5. Backed(r, fell)
    <3> HIDE DEF r
    <3> QED
      BY <2>4, BlankIsBacked DEF Backed
  <2>6. Goes(p, r)
    BY <2>1
  <2>7. UNCHANGED <<journal, fell>>
    BY <1>3 DEF Confirm
  <2> HIDE DEF r
  <2> QED
    BY <2>3, <2>5, <2>6, <2>7, BackedQuietly
<1>4. CASE Relist(p)
  <2> DEFINE l == IF admin[proc[p].id] \in disk THEN head[proc[p].id] ELSE NoBranch
             r == [proc[p] EXCEPT !.found = proc[p].expected, !.listed = l]
  <2>1. l \in Heads \cup {NoBranch}
    BY <1>1 DEF Proc
  <2>2. r \in Proc
    BY <1>1, <2>1 DEF Proc
  <2>3. /\ r.pc = proc[p].pc /\ r.snapshot = proc[p].snapshot /\ r.expected = proc[p].expected
        /\ r.found = r.expected /\ r.held = proc[p].held /\ r.entry = proc[p].entry
    BY <1>1 DEF Proc
  <2>4. Goes(p, r) \/ Ends(p)
    BY <1>4 DEF Relist
  <2>5. UNCHANGED <<journal, fell>>
    BY <1>4 DEF Relist
  <2> HIDE DEF r
  <2>6. Backed(r, fell)
    BY <1>2, <2>3 DEF Backed
  <2> QED
    BY <2>2, <2>4, <2>5, <2>6, BackedQuietly, BackedEnds
<1>5. ASSUME NEW step \in {"verified", "hooked", "pruned"},
             Goes(p, [proc[p] EXCEPT !.pc = step]) \/ Ends(p), UNCHANGED <<journal, fell>>
      PROVE  FallenInv'
  <2> DEFINE r == [proc[p] EXCEPT !.pc = step]
  <2>1. r \in Proc
    BY <1>1 DEF Proc, Steps
  <2>2. r.pc = step /\ r.snapshot = proc[p].snapshot /\ r.found = proc[p].found /\ r.expected = proc[p].expected
    BY <1>1 DEF Proc
  <2>3. Backed(r, fell)
    <3> HIDE DEF r
    <3> QED
      BY <1>2, <2>2 DEF Backed
  <2> HIDE DEF r
  <2> QED
    BY <1>5, <2>1, <2>3, BackedQuietly, BackedEnds DEF r
<1>6. CASE VerifyPath(p)
  BY <1>5, <1>6 DEF VerifyPath
<1>7. CASE PreRemove(p)
  BY <1>5, <1>7 DEF PreRemove
<1>8. CASE Prune(p)
  BY <1>5, <1>8 DEF Prune
<1>9. CASE TakeHandle(p)
  <2> DEFINE r == [proc[p] EXCEPT !.pc = "held", !.held = proc[p].expected]
  <2>1. r \in Proc
    BY <1>1 DEF Proc, Steps
  <2>2. r.pc = "held" /\ r.snapshot = proc[p].snapshot /\ r.found = proc[p].found /\ r.expected = proc[p].expected
    BY <1>1 DEF Proc
  <2>3. Goes(p, r) \/ Ends(p)
    BY <1>9 DEF TakeHandle
  <2>4. UNCHANGED <<journal, fell>>
    BY <1>9 DEF TakeHandle
  <2> HIDE DEF r
  <2>5. Backed(r, fell)
    BY <1>2, <2>2 DEF Backed
  <2> QED
    BY <2>1, <2>3, <2>4, <2>5, BackedQuietly, BackedEnds
<1>10. CASE ReadHead(p)
  <2>1. PICK h \in HeadsAt(proc[p].held) : Goes(p, [proc[p] EXCEPT !.pc = "read", !.head = h])
    BY <1>10 DEF ReadHead
  <2>2. h \in Heads \cup {Unreadable}
    BY <1>1, <2>1 DEF HeadsAt
  <2> DEFINE r == [proc[p] EXCEPT !.pc = "read", !.head = h]
  <2>3. r \in Proc
    BY <1>1, <2>2 DEF Proc, Steps
  <2>4. r.pc = "read" /\ r.snapshot = proc[p].snapshot /\ r.found = proc[p].found /\ r.expected = proc[p].expected
    BY <1>1 DEF Proc
  <2>5. Goes(p, r)
    BY <2>1
  <2>6. UNCHANGED <<journal, fell>>
    BY <1>10 DEF ReadHead
  <2> HIDE DEF r
  <2>7. Backed(r, fell)
    BY <1>2, <2>4 DEF Backed
  <2> QED
    BY <2>3, <2>5, <2>6, <2>7, BackedQuietly
<1>11. CASE RemoveDir(p)
  <2> DEFINE r == [proc[p] EXCEPT !.pc = "gone"]
  <2>1. r \in Proc
    BY <1>1 DEF Proc, Steps
  <2>2. /\ r.pc = "gone" /\ r.snapshot = proc[p].snapshot /\ r.found = proc[p].found
        /\ r.expected = proc[p].expected /\ r.held = proc[p].held
    BY <1>1 DEF Proc
  <2>3. UNCHANGED journal
    BY <1>11 DEF RemoveDir
  <2>4. CASE Goes(p, r) /\ fell' = fell \cup {proc[p].held}
    <3> HIDE DEF r
    <3>1. Backed(r, fell')
      BY <1>2, <2>2, <2>4 DEF Backed
    <3>2. fell \subseteq fell' /\ \A e \in Range(journal') : e.path \in fell'
      BY <1>2, <2>3, <2>4
    <3> QED
      BY <2>1, <2>4, <3>1, <3>2, BackedStep
  <2>5. CASE Ends(p) /\ UNCHANGED fell
    BY <2>3, <2>5, BackedEnds
  <2> QED
    BY <1>11, <2>4, <2>5 DEF RemoveDir
<1>12. CASE LoadJournal(p)
  <2>0. At(p, "gone") /\ UNCHANGED <<journal, fell>>
    BY <1>12 DEF LoadJournal
  <2> DEFINE b == BranchToRecord(p)
             e == [ts |-> clock, path |-> proc[p].found, branch |-> b, oid |-> TipOf(b)]
             r == [proc[p] EXCEPT !.pc = "recording", !.snapshot = journal, !.entry = e]
  <2>1. Inv'
    BY <1>12, RemovesInv
  <2>2. Goes(p, r)
    BY <1>12 DEF LoadJournal
  <2>3. proc'[p] = r /\ r \in Proc
    <3>1. proc'[p] = r
      BY <1>1, <2>2 DEF Goes
    <3>2. proc'[p] \in Proc
      BY <2>1 DEF Inv, TypeOK
    <3> QED
      BY <3>1, <3>2
  <2>4. e.path = proc[p].found
    OBVIOUS
  <2> HIDE DEF e
  <2>5. /\ r.pc = "recording" /\ r.snapshot = journal /\ r.entry = e
        /\ r.found = proc[p].found /\ r.expected = proc[p].expected
    BY <1>1 DEF Proc
  <2>6. proc[p].found \in fell
    BY <1>1, <1>2, <2>0 DEF Backed, Sound, At
  <2> HIDE DEF r
  <2>7. Backed(r, fell)
    BY <1>2, <2>4, <2>5, <2>6 DEF Backed
  <2> QED
    BY <2>0, <2>2, <2>3, <2>7, BackedQuietly
<1>13. CASE SaveJournal(p)
  <2>0. At(p, "recording") /\ UNCHANGED fell
    BY <1>13 DEF SaveJournal
  <2> DEFINE q == proc[p]
             saved == Appended(q.snapshot, q.entry)
             r == [q EXCEPT !.pc = "recorded"]
             u == [q EXCEPT !.pc = "recorded", !.warned = TRUE]
  <2>1. r \in Proc /\ u \in Proc
    BY <1>1 DEF Proc, Steps
  <2>2. /\ r.pc = "recorded" /\ r.snapshot = q.snapshot /\ r.found = q.found /\ r.expected = q.expected
        /\ u.pc = "recorded" /\ u.snapshot = q.snapshot /\ u.found = q.found /\ u.expected = q.expected
    BY <1>1 DEF Proc
  <2>3. Goes(p, r) \/ Goes(p, u)
    BY <1>13 DEF SaveJournal
  <2>4. q.snapshot \in Seq(Entry) /\ q.entry \in Entry
    BY <1>1, <2>0 DEF At, Sound, Recorded, Proc
  <2>5. Range(saved) \subseteq Range(q.snapshot) \cup {q.entry}
    BY <2>4, AppendedType
  <2>6. journal' = saved \/ journal' = journal
    BY <1>13 DEF SaveJournal
  <2>7. q.entry.path \in fell /\ \A e \in Range(q.snapshot) : e.path \in fell
    BY <1>2, <2>0 DEF Backed, At
  <2> HIDE DEF saved, r, u
  <2>8. \A e \in Range(journal') : e.path \in fell'
    BY <1>2, <2>0, <2>5, <2>6, <2>7
  <2>9. Backed(r, fell') /\ Backed(u, fell')
    BY <1>2, <2>0, <2>2 DEF Backed
  <2> QED
    BY <2>0, <2>1, <2>3, <2>8, <2>9, BackedStep
<1>14. CASE DeleteBranch(p)
  <2>1. Ends(p) /\ UNCHANGED <<journal, fell>>
    BY <1>14 DEF DeleteBranch
  <2> QED
    BY <2>1, BackedEnds
<1> QED
  BY <1>3, <1>4, <1>6, <1>7, <1>8, <1>9, <1>10, <1>11, <1>12, <1>13, <1>14 DEF Removes

LEMMA UndoesFallen ==
  ASSUME Inv, FallenInv, NEW p \in Procs, Undoes(p)
  PROVE  FallenInv'
<1>1. journal \in Seq(Entry) /\ proc[p] \in Proc /\ proc \in [Procs -> Proc]
  BY DEF Inv, TypeOK
<1>2. Backed(proc[p], fell) /\ \A e \in Range(journal) : e.path \in fell
  BY DEF FallenInv, SnapshotFell, Backed, NoPhantomEntry
<1>3. CASE Pop(p)
  <2>0. UNCHANGED <<journal, fell>>
    BY <1>3 DEF Pop
  <2>1. PICK i \in DOMAIN journal :
          Goes(p, [Blank EXCEPT !.pc = "popped", !.entry = journal[i],
                                !.snapshot = WithoutIndex(journal, i)])
    BY <1>3 DEF Pop
  <2> DEFINE rest == WithoutIndex(journal, i)
             r == [Blank EXCEPT !.pc = "popped", !.entry = journal[i], !.snapshot = rest]
  <2>2. journal # <<>>
    <3>1. DOMAIN <<>> = {}
      OBVIOUS
    <3> QED
      BY <2>1, <3>1
  <2>3. Range(rest) \subseteq Range(journal)
    BY <1>1, <2>2, WithoutIndexType
  <2>4. Goes(p, r)
    BY <2>1
  <2>5. r \in Proc
    <3>1. Inv'
      BY <1>3, UndoesInv DEF Undoes
    <3>2. proc'[p] = r
      BY <1>1, <2>4 DEF Goes
    <3>3. proc'[p] \in Proc
      BY <3>1 DEF Inv, TypeOK
    <3> QED
      BY <3>2, <3>3
  <2> HIDE DEF rest
  <2>6. r.pc = "popped" /\ r.snapshot = rest /\ r.found = Blank.found /\ r.expected = Blank.expected
    BY BlankType DEF Proc
  <2> HIDE DEF r
  <2>7. Backed(r, fell)
    BY <1>2, <2>3, <2>6, BlankIsBacked DEF Backed
  <2> QED
    BY <2>0, <2>4, <2>5, <2>7, BackedQuietly
<1>4. ASSUME NEW step \in {"rebuilt", "added"},
             Goes(p, [proc[p] EXCEPT !.pc = step]), UNCHANGED <<journal, fell>>
      PROVE  FallenInv'
  <2> DEFINE r == [proc[p] EXCEPT !.pc = step]
  <2>1. r \in Proc
    BY <1>1 DEF Proc, Steps
  <2>2. r.pc = step /\ r.snapshot = proc[p].snapshot /\ r.found = proc[p].found /\ r.expected = proc[p].expected
    BY <1>1 DEF Proc
  <2>3. Goes(p, r)
    BY <1>4
  <2> HIDE DEF r
  <2>4. Backed(r, fell)
    BY <1>2, <2>2 DEF Backed
  <2> QED
    BY <1>4, <2>1, <2>3, <2>4, BackedQuietly
<1>5. CASE Resurrect(p)
  BY <1>4, <1>5 DEF Resurrect
<1>6. CASE ReAdd(p)
  BY <1>4, <1>6, BackedEnds DEF ReAdd
<1>7. CASE SaveUndo(p)
  <2>1. Ends(p) /\ UNCHANGED fell /\ (journal' = proc[p].snapshot \/ journal' = journal)
    BY <1>7 DEF SaveUndo
  <2>2. \A e \in Range(journal') : e.path \in fell'
    BY <1>2, <2>1 DEF Backed
  <2> QED
    BY <2>1, <2>2, BackedStep, BlankIsBacked, BlankType DEF Ends
<1> QED
  BY <1>3, <1>5, <1>6, <1>7 DEF Undoes

\* Every entry of the journal is about a directory that did fall, as long as
\* a caller removes what it resolved (the CLI; removal.rs 63-143).
THEOREM NoPhantoms ==
  ASSUME Drifts = FALSE
  PROVE  Spec => []NoPhantomEntry
<1>1. Init => FallenInv
  <2> SUFFICES ASSUME Init PROVE FallenInv
    OBVIOUS
  <2>1. \A p \in Procs : proc[p] = Blank
    BY DEF Init
  <2>2. Range(journal) = {}
    BY DEF Init, Range
  <2>3. \A p \in Procs : Backed(proc[p], fell)
    BY <2>1, BlankIsBacked
  <2> QED
    BY <2>2, <2>3 DEF FallenInv, SnapshotFell, Backed, NoPhantomEntry
<1>2. Inv /\ FallenInv /\ [Next]_vars => FallenInv'
  <2> SUFFICES ASSUME Inv, FallenInv, [Next]_vars PROVE FallenInv'
    OBVIOUS
  <2>1. CASE World \/ UNCHANGED vars
    <3>1. UNCHANGED <<journal, proc, fell>>
      BY <2>1 DEF World, Moves, Recreates, Discards, Deletes, ChecksOut, Commits, WorldMayMove, vars
    <3> QED
      BY <3>1 DEF FallenInv, NoPhantomEntry, SnapshotFell, Range
  <2>2. ASSUME NEW p \in Procs, Removes(p) \/ Undoes(p) PROVE FallenInv'
    BY <2>2, RemovesFallen, UndoesFallen
  <2>3. ASSUME NEW p \in Procs, Stops(p) PROVE FallenInv'
    <3>1. Ends(p) /\ UNCHANGED <<journal, fell>>
      BY <2>3 DEF Stops
    <3> QED
      BY <3>1, BackedEnds
  <2> QED
    BY <2>1, <2>2, <2>3 DEF Next
<1>3. FallenInv => NoPhantomEntry
  BY DEF FallenInv
<1> QED
  BY <1>1, <1>2, <1>3, Inductive, PTL DEF Spec

-----------------------------------------------------------------------------
(* What an undo brings back, with one process at work: between a load of the  *)
(* journal and its save nobody else writes it.                               *)

OneProcess == \A p, q \in Procs : p = q

\* In the order of their times, as they were appended: so the oldest is the first.
Sorted(j) == \A i, k \in DOMAIN j : i < k => j[i].ts < j[k].ts

JournalInv ==
    /\ Len(journal) <= MaxEntries /\ Sorted(journal)
    /\ \A i \in DOMAIN journal : journal[i].ts < clock

\* What a process knows of the journal and of the branch of its entry.
Anchored(r) ==
    /\ r.pc = "recording" =>
         /\ r.snapshot = journal /\ r.entry.ts < clock
         /\ \A i \in DOMAIN journal : journal[i].ts < r.entry.ts
    /\ r.pc = "recorded" => r.entry \in Range(journal) \/ r.warned
    /\ r.pc \in {"popped", "rebuilt", "added"} =>
         \E i \in DOMAIN journal : r.entry = journal[i] /\ r.snapshot = WithoutIndex(journal, i)
    /\ r.pc = "rebuilt" /\ r.entry.branch \in Branches /\ r.entry.oid # NoRef =>
         tip[r.entry.branch] # NoRef

AnchorInv == JournalInv /\ \A p \in Procs : Anchored(proc[p])

Early == {"idle", "confirmed", "verified", "hooked", "held", "read", "pruned", "gone"}

LEMMA AnchoredEarly ==
  ASSUME OneProcess, AnchorInv, NEW p \in Procs, proc'[p].pc \in Early, UNCHANGED <<journal, clock>>
  PROVE  AnchorInv'
BY DEF OneProcess, AnchorInv, Anchored, JournalInv, Early

\* Past the cap the entry that goes is the oldest, which is not the one that comes.
LEMMA WithoutIndexKeeps ==
  ASSUME NEW j \in Seq(Entry), j # <<>>, NEW i \in DOMAIN j, Sorted(j)
  PROVE  /\ Len(WithoutIndex(j, i)) = Len(j) - 1 /\ Sorted(WithoutIndex(j, i))
         /\ Range(j) = Range(WithoutIndex(j, i)) \cup {j[i]}
<1>. DEFINE w == WithoutIndex(j, i)
            n == Len(j)
<1>1. n \in Nat \ {0} /\ DOMAIN j = 1 .. n /\ i \in 1 .. n
  OBVIOUS
<1>2. w = [k \in 1 .. n - 1 |-> IF k < i THEN j[k] ELSE j[k + 1]]
  BY DEF WithoutIndex
<1>3. Len(w) = n - 1 /\ DOMAIN w = 1 .. n - 1
  BY <1>1, <1>2
<1>4. \A k \in 1 .. n - 1 : w[k] = j[IF k < i THEN k ELSE k + 1] /\ k \in 1 .. n /\ k + 1 \in 1 .. n
  BY <1>1, <1>2
<1>5. \A k \in 1 .. n : k # i => \E l \in 1 .. n - 1 : w[l] = j[k]
  <2>1. \A k \in 1 .. n : k < i => k \in 1 .. n - 1 /\ w[k] = j[k]
    BY <1>1, <1>2
  <2>2. \A k \in 1 .. n : i < k => k - 1 \in 1 .. n - 1 /\ w[k - 1] = j[k]
    BY <1>1, <1>2
  <2>. QED BY <1>1, <2>1, <2>2
<1>. HIDE DEF w
<1>6. Sorted(w)
  <2>. SUFFICES ASSUME NEW k \in 1 .. n - 1, NEW l \in 1 .. n - 1, k < l PROVE w[k].ts < w[l].ts
    BY <1>3 DEF Sorted
  <2>. DEFINE at(m) == IF m < i THEN m ELSE m + 1
  <2>1. at(k) \in 1 .. n /\ at(l) \in 1 .. n /\ at(k) < at(l)
    BY <1>1
  <2>2. w[k] = j[at(k)] /\ w[l] = j[at(l)]
    BY <1>4
  <2>. HIDE DEF at
  <2>. QED BY <1>1, <2>1, <2>2 DEF Sorted
<1>7. Range(j) = Range(w) \cup {j[i]}
  <2>1. \A k \in 1 .. n - 1 : w[k] \in Range(j)
    BY <1>1, <1>4 DEF Range
  <2>. QED BY <1>1, <1>3, <1>5, <2>1 DEF Range
<1>. QED BY <1>3, <1>6, <1>7 DEF w

LEMMA AppendedKeeps ==
  ASSUME NEW j \in Seq(Entry), NEW e \in Entry, Len(j) <= MaxEntries, Sorted(j),
         \A i \in DOMAIN j : j[i].ts < e.ts
  PROVE  /\ Len(Appended(j, e)) <= MaxEntries /\ Sorted(Appended(j, e))
         /\ e \in Range(Appended(j, e)) /\ Range(Appended(j, e)) \subseteq Range(j) \cup {e}
         /\ \A f \in Range(j) \ Range(Appended(j, e)) :
              Len(j) = MaxEntries /\ \A g \in Range(j) : f.ts <= g.ts
<1>. DEFINE longer == Append(j, e)
            n == Len(j)
            i == Oldest(longer)
<1>1. /\ longer \in Seq(Entry) /\ Len(longer) = n + 1 /\ n \in Nat
      /\ longer[n + 1] = e /\ DOMAIN longer = 1 .. n + 1 /\ DOMAIN j = 1 .. n
      /\ \A k \in 1 .. n : longer[k] = j[k] /\ j[k] \in Entry
  OBVIOUS
<1>2. \A f \in Entry : f.ts \in Nat
  BY DEF Entry
<1>3. Sorted(longer)
  <2>. SUFFICES ASSUME NEW k \in 1 .. n + 1, NEW l \in 1 .. n + 1, k < l
                PROVE  longer[k].ts < longer[l].ts
    BY <1>1 DEF Sorted
  <2>1. k \in 1 .. n
    BY <1>1
  <2>2. CASE l = n + 1
    BY <1>1, <2>1, <2>2
  <2>3. CASE l # n + 1
    BY <1>1, <2>1, <2>3 DEF Sorted
  <2>. QED BY <2>2, <2>3
<1>4. Range(longer) = Range(j) \cup {e}
  BY <1>1 DEF Range
<1>5. CASE n < MaxEntries
  <2>1. Appended(j, e) = longer
    BY <1>1, <1>5, MaxEntriesAssumption DEF Appended
  <2>. HIDE DEF longer
  <2>2. Len(longer) <= MaxEntries
    BY <1>1, <1>5, MaxEntriesAssumption
  <2>. QED BY <1>3, <1>4, <2>1, <2>2
<1>6. CASE n = MaxEntries
  <2>1. Appended(j, e) = WithoutIndex(longer, i)
    BY <1>1, <1>6, MaxEntriesAssumption DEF Appended
  <2>. HIDE DEF longer
  <2>2. \A l \in 1 .. n + 1 : longer[1].ts <= longer[l].ts
    <3>1. 1 \in 1 .. n + 1 /\ \A l \in 1 .. n + 1 : longer[l] \in Entry
      BY <1>1
    <3>2. \A l \in 1 .. n + 1 : l # 1 => 1 < l
      BY <1>1
    <3>. QED BY <1>1, <1>2, <1>3, <3>1, <3>2 DEF Sorted
  <2>3. i \in 1 .. n + 1 /\ \A l \in 1 .. n + 1 : longer[i].ts <= longer[l].ts
    <3>1. \E k \in DOMAIN longer : \A l \in DOMAIN longer : longer[k].ts <= longer[l].ts
      BY <1>1, <2>2
    <3>. QED BY <1>1, <3>1 DEF Oldest
  <2>4. i # n + 1
    <3>1. 1 \in 1 .. n /\ longer[1].ts < e.ts /\ longer[1] \in Entry
      BY <1>1, <1>6, MaxEntriesAssumption
    <3>. QED BY <1>1, <1>2, <2>3, <3>1
  <2>. HIDE DEF i
  <2>5. longer[i] \in Range(j) /\ longer[i] # e /\ \A g \in Range(j) : longer[i].ts <= g.ts
    <3>1. longer[i] = j[i] /\ i \in 1 .. n
      BY <1>1, <2>3, <2>4
    <3>2. j[i].ts < e.ts /\ j[i] \in Entry
      BY <1>1, <3>1
    <3>. QED BY <1>1, <1>2, <2>3, <3>1, <3>2 DEF Range
  <2>6. /\ Len(WithoutIndex(longer, i)) = n /\ Sorted(WithoutIndex(longer, i))
        /\ Range(longer) = Range(WithoutIndex(longer, i)) \cup {longer[i]}
    <3>1. longer # <<>> /\ i \in DOMAIN longer
      BY <1>1, <2>3
    <3>. QED BY <1>1, <1>3, <3>1, WithoutIndexKeeps
  <2>. DEFINE kept == WithoutIndex(longer, i)
  <2>7. Range(j) \cup {e} = Range(kept) \cup {longer[i]} /\ Len(kept) <= MaxEntries /\ Sorted(kept)
    BY <1>1, <1>4, <1>6, <2>6
  <2>. HIDE DEF kept
  <2>8. e \in Range(kept) /\ Range(kept) \subseteq Range(j) \cup {e}
    BY <2>5, <2>7
  <2>9. \A f \in Range(j) \ Range(kept) : f = longer[i]
    BY <2>7
  <2>10. \A f \in Range(j) \ Range(kept) : Len(j) = MaxEntries /\ \A g \in Range(j) : f.ts <= g.ts
    BY <1>6, <2>5, <2>9
  <2>11. Appended(j, e) = kept
    BY <2>1 DEF kept
  <2>. QED BY <2>7, <2>8, <2>10, <2>11
<1>7. n < MaxEntries \/ n = MaxEntries
  <2>1. n \in Nat /\ n <= MaxEntries
    OBVIOUS
  <2>. HIDE DEF n
  <2>. QED BY <2>1, MaxEntriesAssumption
<1>. QED BY <1>5, <1>6, <1>7

LEMMA AnchorMoves ==
  ASSUME OneProcess, Inv, NEW p \in Procs, NEW r \in Proc, Goes(p, r), JournalInv', Anchored(r)'
  PROVE  AnchorInv'
<1>1. proc'[p] = r
  BY GoesType DEF Inv, TypeOK
<1>2. \A q \in Procs : q = p
  BY DEF OneProcess
<1>. QED BY <1>1, <1>2 DEF AnchorInv, Anchored

LEMMA AnchorEnds ==
  ASSUME OneProcess, Inv, NEW p \in Procs, Ends(p), JournalInv'
  PROVE  AnchorInv'
<1>1. Anchored(Blank)'
  BY DEF Anchored, Blank
<1>. QED BY <1>1, AnchorMoves, BlankType DEF Ends

LEMMA RemovesAnchored ==
  ASSUME OneProcess, Inv, Inv', AnchorInv, NEW p \in Procs, Removes(p)
  PROVE  AnchorInv'
<1>1. /\ journal \in Seq(Entry) /\ clock \in Nat /\ proc[p] \in Proc /\ Sound(proc[p])
      /\ proc \in [Procs -> Proc] /\ JournalInv /\ Anchored(proc[p])
  BY ProcInvIsSound DEF Inv, TypeOK, AnchorInv
<1>2. \A e \in Entry : e.ts \in Nat
  BY DEF Entry
<1>3. CASE Confirm(p) \/ Relist(p) \/ VerifyPath(p) \/ PreRemove(p) \/ TakeHandle(p)
           \/ ReadHead(p) \/ Prune(p) \/ RemoveDir(p)
  <2>0. Blank.pc = "idle" /\ DOMAIN Blank = DOMAIN proc[p]
    BY <1>1, BlankType DEF Blank, Proc
  <2>1. Ends(p) => proc'[p].pc = "idle"
    BY <1>1, <2>0 DEF Ends, Goes
  <2>2. CASE Confirm(p)
    <3>1. proc'[p].pc = "confirmed"
      <4>. HIDE DEF Blank
      <4>. QED BY <1>1, <2>0, <2>2 DEF Confirm, Goes, Proc
    <3>. QED BY <2>2, <3>1, AnchoredEarly DEF Confirm, Early
  <2>3. CASE Relist(p) \/ VerifyPath(p) \/ PreRemove(p) \/ TakeHandle(p)
    <3>1. \/ proc'[p].pc \in {"confirmed", "verified", "hooked", "held"}
          \/ Ends(p)
      <4>1. CASE Relist(p)
        <5>1. PICK r : r.pc = proc[p].pc /\ (Goes(p, r) \/ Ends(p))
          BY <1>1, <4>1 DEF Relist, Proc
        <5>2. proc[p].pc = "confirmed"
          BY <4>1 DEF Relist, At
        <5>. QED BY <1>1, <5>1, <5>2 DEF Goes
      <4>2. CASE VerifyPath(p)
        BY <1>1, <4>2 DEF VerifyPath, Goes, Proc
      <4>3. CASE PreRemove(p)
        BY <1>1, <4>3 DEF PreRemove, Goes, Proc
      <4>4. CASE TakeHandle(p)
        BY <1>1, <4>4 DEF TakeHandle, Goes, Proc
      <4>. QED BY <2>3, <4>1, <4>2, <4>3, <4>4
    <3>2. UNCHANGED <<journal, clock>>
      BY <2>3 DEF Relist, VerifyPath, PreRemove, TakeHandle
    <3>. QED BY <2>1, <3>1, <3>2, AnchoredEarly DEF Early
  <2>4. CASE ReadHead(p) \/ Prune(p) \/ RemoveDir(p)
    <3>1. proc'[p].pc \in {"read", "pruned", "gone"} \/ Ends(p)
      <4>1. CASE ReadHead(p)
        BY <1>1, <4>1 DEF ReadHead, Goes, Proc
      <4>2. CASE Prune(p)
        BY <1>1, <4>2 DEF Prune, Goes, Proc
      <4>3. CASE RemoveDir(p)
        BY <1>1, <4>3 DEF RemoveDir, Goes, Proc
      <4>. QED BY <2>4, <4>1, <4>2, <4>3
    <3>2. UNCHANGED <<journal, clock>>
      BY <2>4 DEF ReadHead, Prune, RemoveDir
    <3>. QED BY <2>1, <3>1, <3>2, AnchoredEarly DEF Early
  <2>. QED BY <1>3, <2>2, <2>3, <2>4
<1>4. CASE LoadJournal(p)
  <2>1. PICK r \in Proc : /\ Goes(p, r) /\ r.pc = "recording" /\ r.snapshot = journal
                          /\ r.entry.ts = clock
    <3>1. proc'[p] \in Proc /\ Goes(p, proc'[p])
      BY <1>1, <1>4 DEF Inv, TypeOK, LoadJournal, Goes
    <3>2. proc'[p].pc = "recording" /\ proc'[p].snapshot = journal /\ proc'[p].entry.ts = clock
      BY <1>1, <1>4 DEF LoadJournal, Goes, Proc
    <3>. QED BY <3>1, <3>2
  <2>2. clock' = clock + 1 /\ journal' = journal
    BY <1>4 DEF LoadJournal
  <2>3. JournalInv'
    BY <1>1, <1>2, <2>2 DEF JournalInv
  <2>4. Anchored(r)'
    BY <1>1, <2>1, <2>2 DEF Anchored, JournalInv
  <2>. QED BY <2>1, <2>3, <2>4, AnchorMoves
<1>5. CASE SaveJournal(p)
  <2>0. /\ proc[p].pc = "recording" /\ proc[p].entry \in Entry /\ proc[p].snapshot = journal
        /\ proc[p].entry.ts < clock /\ \A i \in DOMAIN journal : journal[i].ts < proc[p].entry.ts
    BY <1>1, <1>5 DEF SaveJournal, At, Sound, Recorded, Anchored
  <2>1. CASE journal' = Appended(journal, proc[p].entry) /\ Goes(p, [proc[p] EXCEPT !.pc = "recorded"])
    <3>. DEFINE e == proc[p].entry
    <3>1. PICK r \in Proc : r.pc = "recorded" /\ r.entry = e /\ Goes(p, r)
      <4>. DEFINE s == [proc[p] EXCEPT !.pc = "recorded"]
      <4>1. s \in Proc /\ s.pc = "recorded" /\ s.entry = e
        BY <1>1 DEF Proc, Steps
      <4>. QED BY <2>1, <4>1
    <3>2. /\ Len(journal') <= MaxEntries /\ Sorted(journal') /\ e \in Range(journal')
          /\ Range(journal') \subseteq Range(journal) \cup {e}
      BY <1>1, <2>0, <2>1, AppendedKeeps DEF JournalInv
    <3>3. clock' = clock
      BY <1>5 DEF SaveJournal
    <3>4. \A f \in Range(journal') : f.ts < clock
      BY <1>1, <2>0, <3>2 DEF JournalInv, Range
    <3>5. JournalInv'
      BY <3>2, <3>3, <3>4 DEF JournalInv, Range
    <3>6. Anchored(r)'
      BY <3>1, <3>2 DEF Anchored
    <3>. QED BY <3>1, <3>5, <3>6, AnchorMoves
  <2>2. CASE Goes(p, [proc[p] EXCEPT !.pc = "recorded", !.warned = TRUE]) /\ UNCHANGED journal
    <3>1. PICK r \in Proc : r.pc = "recorded" /\ r.warned /\ Goes(p, r)
      <4>. DEFINE s == [proc[p] EXCEPT !.pc = "recorded", !.warned = TRUE]
      <4>1. s \in Proc /\ s.pc = "recorded" /\ s.warned
        BY <1>1 DEF Proc, Steps
      <4>. QED BY <2>2, <4>1
    <3>2. JournalInv'
      BY <1>1, <1>5, <2>2 DEF SaveJournal, JournalInv
    <3>3. Anchored(r)'
      BY <3>1 DEF Anchored
    <3>. QED BY <3>1, <3>2, <3>3, AnchorMoves
  <2>. QED BY <1>5, <2>0, <2>1, <2>2 DEF SaveJournal
<1>6. CASE DeleteBranch(p)
  <2>1. Ends(p) /\ UNCHANGED <<journal, clock>>
    BY <1>6 DEF DeleteBranch
  <2>. QED BY <1>1, <2>1, AnchorEnds DEF JournalInv
<1>. QED BY <1>3, <1>4, <1>5, <1>6 DEF Removes

LEMMA UndoesAnchored ==
  ASSUME OneProcess, Inv, Inv', AnchorInv, NEW p \in Procs, Undoes(p)
  PROVE  AnchorInv'
<1>1. /\ journal \in Seq(Entry) /\ clock \in Nat /\ proc[p] \in Proc
      /\ proc \in [Procs -> Proc] /\ JournalInv /\ Anchored(proc[p])
      /\ tip \in [Branches -> Oid \cup {NoRef}]
  BY DEF Inv, TypeOK, AnchorInv
<1>2. CASE Pop(p)
  <2>1. PICK i \in DOMAIN journal :
          Goes(p, [Blank EXCEPT !.pc = "popped", !.entry = journal[i],
                                !.snapshot = WithoutIndex(journal, i)])
    BY <1>2 DEF Pop
  <2>2. PICK r \in Proc : /\ r.pc = "popped" /\ r.entry = journal[i]
                          /\ r.snapshot = WithoutIndex(journal, i) /\ Goes(p, r)
    <3>. DEFINE s == [Blank EXCEPT !.pc = "popped", !.entry = journal[i],
                                   !.snapshot = WithoutIndex(journal, i)]
    <3>1. journal[i] \in Entry /\ journal # <<>>
      BY <1>1
    <3>2. s \in Proc
      BY <1>1, <3>1, WithoutIndexType, BlankType DEF Proc, Steps
    <3>3. s.pc = "popped" /\ s.entry = journal[i] /\ s.snapshot = WithoutIndex(journal, i)
      BY BlankType DEF Proc
    <3>. QED BY <2>1, <3>2, <3>3
  <2>4. UNCHANGED <<journal, clock>>
    BY <1>2 DEF Pop
  <2>6. Anchored(r)' /\ JournalInv'
    BY <1>1, <2>2, <2>4 DEF Anchored, JournalInv
  <2>. QED BY <2>2, <2>6, AnchorMoves
<1>3. CASE Resurrect(p)
  <2>1. PICK r \in Proc : /\ r.pc = "rebuilt" /\ r.entry = proc[p].entry
                          /\ r.snapshot = proc[p].snapshot /\ Goes(p, r)
    <3>. DEFINE s == [proc[p] EXCEPT !.pc = "rebuilt"]
    <3>1. s \in Proc /\ s.pc = "rebuilt" /\ s.entry = proc[p].entry /\ s.snapshot = proc[p].snapshot
      BY <1>1 DEF Proc, Steps
    <3>. QED BY <1>3, <3>1 DEF Resurrect
  <2>2. /\ UNCHANGED <<journal, clock>> /\ proc[p].pc = "popped"
        /\ tip' = IF Resurrects(r.entry) THEN [tip EXCEPT ![r.entry.branch] = r.entry.oid] ELSE tip
    BY <1>3, <2>1 DEF Resurrect, At
  <2>3. r.entry.branch \in Branches /\ r.entry.oid # NoRef => tip'[r.entry.branch] # NoRef
    BY <1>1, <2>2 DEF Resurrects
  <2>4. Anchored(r)' /\ JournalInv'
    BY <1>1, <2>1, <2>2, <2>3 DEF Anchored, JournalInv
  <2>. QED BY <2>1, <2>4, AnchorMoves
<1>4. CASE ReAdd(p)
  <2>0. UNCHANGED <<journal, clock>> /\ proc[p].pc = "rebuilt"
    BY <1>4 DEF ReAdd, At
  <2>1. CASE Ends(p)
    BY <1>1, <2>0, <2>1, AnchorEnds DEF JournalInv
  <2>2. CASE Goes(p, [proc[p] EXCEPT !.pc = "added"])
    <3>1. PICK r \in Proc : /\ r.pc = "added" /\ r.entry = proc[p].entry
                            /\ r.snapshot = proc[p].snapshot /\ Goes(p, r)
      <4>. DEFINE s == [proc[p] EXCEPT !.pc = "added"]
      <4>1. s \in Proc /\ s.pc = "added" /\ s.entry = proc[p].entry /\ s.snapshot = proc[p].snapshot
        BY <1>1 DEF Proc, Steps
      <4>. QED BY <2>2, <4>1
    <3>2. Anchored(r)' /\ JournalInv'
      BY <1>1, <2>0, <3>1 DEF Anchored, JournalInv
    <3>. QED BY <3>1, <3>2, AnchorMoves
  <2>. QED BY <1>4, <2>1, <2>2 DEF ReAdd
<1>5. CASE SaveUndo(p)
  <2>1. Ends(p) /\ UNCHANGED clock /\ (journal' = proc[p].snapshot \/ journal' = journal)
        /\ proc[p].pc = "added"
    BY <1>5 DEF SaveUndo, At
  <2>2. CASE journal' = journal
    BY <1>1, <2>1, <2>2, AnchorEnds DEF JournalInv
  <2>3. CASE journal' = proc[p].snapshot
    <3>1. PICK i \in DOMAIN journal : journal' = WithoutIndex(journal, i)
      BY <1>1, <2>1, <2>3 DEF Anchored
    <3>2. journal # <<>> /\ Len(journal) \in Nat
      BY <1>1
    <3>3. /\ Len(journal') = Len(journal) - 1 /\ Sorted(journal')
          /\ Range(journal') \subseteq Range(journal)
      BY <1>1, <3>1, <3>2, WithoutIndexKeeps DEF JournalInv
    <3>4. Len(journal') <= MaxEntries
      BY <1>1, <3>2, <3>3, MaxEntriesAssumption DEF JournalInv
    <3>5. \A e \in Range(journal') : e.ts < clock
      BY <1>1, <3>3 DEF JournalInv, Range
    <3>6. \A k \in DOMAIN journal' : journal'[k].ts < clock'
      BY <2>1, <3>5 DEF Range
    <3>7. JournalInv'
      BY <3>3, <3>4, <3>6 DEF JournalInv
    <3>. QED BY <2>1, <3>7, AnchorEnds
  <2>. QED BY <2>1, <2>2, <2>3
<1>. QED BY <1>2, <1>3, <1>4, <1>5 DEF Undoes

\* The world deletes no branch, and does not touch the journal.
LEMMA WorldKeepsRefs ==
  ASSUME Inv, World
  PROVE  UNCHANGED <<journal, proc, clock>> /\ \A b \in Branches : tip[b] # NoRef => tip'[b] # NoRef
<1>0. tip \in [Branches -> Oid \cup {NoRef}] /\ oids \in Nat /\ NoRef \notin Nat
  BY NoneAssumption DEF Inv, TypeOK
<1>1. CASE \E id \in Ids : Discards(id) \/ \E q \in Paths : Moves(id, q)
  BY <1>1 DEF Discards, Moves, WorldMayMove
<1>2. CASE \E id \in Ids : \E h \in Heads : ChecksOut(id, h)
  BY <1>2 DEF ChecksOut, WorldMayMove
<1>3. CASE \E q \in Paths : Deletes(q) \/ \E b \in Branches : Recreates(q, b)
  BY <1>0, <1>3 DEF Deletes, Recreates, WorldMayMove
<1>4. CASE \E b \in Branches : Commits(b)
  BY <1>0, <1>4 DEF Commits, WorldMayMove
<1>. QED BY <1>1, <1>2, <1>3, <1>4 DEF World

LEMMA AnchorStep ==
  ASSUME OneProcess, Inv, Inv', AnchorInv, [Next]_vars
  PROVE  AnchorInv'
<1>1. CASE World
  BY <1>1, WorldKeepsRefs DEF AnchorInv, JournalInv, Anchored
<1>2. ASSUME NEW p \in Procs, Removes(p) \/ Undoes(p) PROVE AnchorInv'
  BY <1>2, RemovesAnchored, UndoesAnchored
<1>3. ASSUME NEW p \in Procs, Stops(p) PROVE AnchorInv'
  BY <1>3, AnchorEnds DEF Stops, AnchorInv, JournalInv
<1>4. CASE UNCHANGED vars
  BY <1>4 DEF vars, git, AnchorInv, JournalInv, Anchored
<1>. QED BY <1>1, <1>2, <1>3, <1>4 DEF Next

\* What takes an entry from the journal is an undo that is done, or the cap.
LEMMA EntriesGo ==
  ASSUME OneProcess, Inv, AnchorInv, [Next]_vars, NEW e \in Range(journal) \ Range(journal')
  PROVE  Replayed(e) \/ (Len(journal) = MaxEntries /\ \A f \in Range(journal) : e.ts <= f.ts)
<1>0. /\ journal \in Seq(Entry) /\ JournalInv
      /\ \A p \in Procs : Sound(proc[p]) /\ Anchored(proc[p])
  BY ProcInvIsSound DEF Inv, TypeOK, AnchorInv
<1>1. PICK p \in Procs : SaveJournal(p) \/ SaveUndo(p)
  <2>1. journal' # journal
    OBVIOUS
  <2>2. ~ World /\ ~ UNCHANGED vars
    BY <2>1, WorldKeepsRefs DEF vars
  <2>3. PICK p \in Procs : Removes(p) \/ Undoes(p) \/ Stops(p)
    BY <2>2 DEF Next
  <2>. QED BY <2>1, <2>3
         DEF Removes, Undoes, Stops, Confirm, Relist, VerifyPath, PreRemove, TakeHandle, ReadHead, Prune,
             RemoveDir, LoadJournal, DeleteBranch, Pop, Resurrect, ReAdd
<1>2. CASE SaveJournal(p)
  <2>1. /\ proc[p].pc = "recording" /\ proc[p].entry \in Entry /\ proc[p].snapshot = journal
        /\ \A i \in DOMAIN journal : journal[i].ts < proc[p].entry.ts
    BY <1>0, <1>2 DEF SaveJournal, At, Sound, Recorded, Anchored
  <2>2. journal' = Appended(journal, proc[p].entry)
    BY <1>2, <2>1 DEF SaveJournal
  <2>. QED BY <1>0, <2>1, <2>2, AppendedKeeps DEF JournalInv
<1>3. CASE SaveUndo(p)
  <2>1. proc[p].pc = "added" /\ journal' = proc[p].snapshot
    BY <1>3 DEF SaveUndo, At
  <2>2. PICK i \in DOMAIN journal : proc[p].entry = journal[i] /\ journal' = WithoutIndex(journal, i)
    BY <1>0, <2>1 DEF Anchored
  <2>3. journal # <<>>
    BY <1>0, <2>2
  <2>4. e = proc[p].entry
    BY <1>0, <2>2, <2>3, WithoutIndexKeeps DEF JournalInv
  <2>. QED BY <2>1, <2>4 DEF Replayed, At
<1>. QED BY <1>1, <1>2, <1>3

\* The branch that comes back is the recorded one, at the recorded oid.
LEMMA RebuiltAtAnchor ==
  ASSUME Inv, AnchorInv, [Next]_vars, OneProcess,
         NEW p \in Procs, proc[p].pc \in {"popped", "rebuilt"}, proc'[p] # proc[p],
         NEW b \in Branches, proc[p].entry.branch = b, proc[p].entry.oid # NoRef,
         tip[b] = NoRef, tip'[b] # NoRef
  PROVE  tip'[b] = proc[p].entry.oid
<1>0. tip \in [Branches -> Oid \cup {NoRef}] /\ Anchored(proc[p])
  BY DEF Inv, TypeOK, AnchorInv
<1>1. ~ World /\ ~ UNCHANGED vars
  BY WorldKeepsRefs DEF vars
<1>2. Removes(p) \/ Undoes(p) \/ Stops(p)
  BY <1>1 DEF Next, OneProcess
<1>3. Resurrect(p) \/ ReAdd(p)
  BY <1>2 DEF Removes, Undoes, Stops, Confirm, Relist, VerifyPath, PreRemove, TakeHandle, ReadHead,
              Prune, RemoveDir, LoadJournal, SaveJournal, DeleteBranch, Pop, SaveUndo, At, git
<1>4. ~ ReAdd(p)
  BY <1>0 DEF ReAdd, At, Anchored
<1>. QED BY <1>0, <1>3, <1>4 DEF Resurrect, Resurrects

\* What one process removed it can bring back: an entry is in the journal, or the user was told
\* that it is not, before its branch goes; it stays there until it is replayed or is the oldest
\* past the cap; and the branch comes back where it stood, whatever the world does at any step
\* (history::record, Journal::append, cmd_undo).
THEOREM UndoBringsBack ==
  ASSUME OneProcess
  PROVE  Spec => UndoCanBringBack
<1>. DEFINE Before == \A b \in Branches : (tip[b] # NoRef /\ tip'[b] = NoRef) =>
                        \E p \in Procs : /\ DroppedBy(p, b)
                                        /\ (proc[p].entry \in Range(journal) \/ proc[p].warned)
            Kept == \A e \in Range(journal) \ Range(journal') :
                      \/ Replayed(e)
                      \/ Len(journal) = MaxEntries /\ \A f \in Range(journal) : e.ts <= f.ts
            Rebuilt == \A p \in Procs : \A b \in Branches :
                         (/\ proc[p].pc \in {"popped", "rebuilt"} /\ proc'[p] # proc[p]
                          /\ proc[p].entry.branch = b /\ proc[p].entry.oid # NoRef
                          /\ tip[b] = NoRef /\ tip'[b] # NoRef)
                         => tip'[b] = proc[p].entry.oid
<1>1. Init => AnchorInv
  <2>. SUFFICES ASSUME Init PROVE AnchorInv
    OBVIOUS
  <2>1. \A p \in Procs : proc[p] = Blank
    BY DEF Init
  <2>2. Anchored(Blank)
    BY DEF Anchored, Blank
  <2>3. journal = <<>> /\ clock = 0
    BY DEF Init
  <2>4. JournalInv
    BY <2>3, MaxEntriesAssumption DEF JournalInv, Sorted
  <2>. QED BY <2>1, <2>2, <2>4 DEF AnchorInv
<1>2. Inv /\ Inv' /\ AnchorInv /\ [Next]_vars => AnchorInv'
  BY AnchorStep
<1>3. Inv /\ AnchorInv /\ [Next]_vars => Before
  BY DroppedByTheRecorder DEF AnchorInv, Anchored, DroppedBy, At
<1>4. Inv /\ AnchorInv /\ [Next]_vars => Kept
  BY EntriesGo
<1>5. Inv /\ AnchorInv /\ [Next]_vars => Rebuilt
  BY RebuiltAtAnchor
<1>6. Spec => []AnchorInv
  BY <1>1, <1>2, Inductive, PTL DEF Spec
<1>7. Spec => AnchorBeforeDelete
  <2>1. Spec => [][Before]_vars
    BY <1>3, <1>6, Inductive, PTL DEF Spec
  <2>. QED BY <2>1 DEF AnchorBeforeDelete
<1>8. Spec => AnchorKept
  <2>1. Spec => [][Kept]_vars
    BY <1>4, <1>6, Inductive, PTL DEF Spec
  <2>. QED BY <2>1 DEF AnchorKept
<1>9. Spec => UndoRebuildsAtTheAnchor
  <2>1. Spec => [][Rebuilt]_vars
    BY <1>5, <1>6, Inductive, PTL DEF Spec
  <2>. QED BY <2>1 DEF UndoRebuildsAtTheAnchor
<1>. QED BY <1>7, <1>8, <1>9 DEF UndoCanBringBack
-----------------------------------------------------------------------------
(* Who prunes first: processes that take the same worktree, and nobody else about. *)

\* A worktree keeps the place it was seen at, or is gone.
AtHome(q, home) == home[Basename[q]] = q

Claimed(home) ==
    \A id \in Ids : admin[id] # NoPath =>
        home[id] = admin[id] /\ Basename[admin[id]] = id /\ admin[id] \in disk

\* What a process holds are places of worktrees it has seen.
Homed(r, home) ==
    /\ \A e \in Range(r.snapshot) : AtHome(e.path, home)
    /\ r.pc \in Early \ {"idle"} =>
         Basename[r.expected] = r.id /\ AtHome(r.expected, home) /\ AtHome(r.found, home)
    /\ r.pc \notin Early => AtHome(r.entry.path, home)

\* Between the pruning and the removal of the directory, the directory is there alone.
Stranded(r) == r.pc = "pruned" => r.held \in disk /\ admin[r.id] = NoPath

AloneInv(home) ==
    /\ Claimed(home) /\ \A e \in Range(journal) : AtHome(e.path, home)
    /\ \A p \in Procs : Homed(proc[p], home) /\ Stranded(proc[p])
    /\ OneRemoverPerWorktree

\* What a step of a process leaves to show.
LEMMA AloneStep ==
  ASSUME Inv, NEW home, AloneInv(home), NEW p \in Procs, NEW r \in Proc, Goes(p, r), Homed(r, home),
         Claimed(home)', \A e \in Range(journal') : AtHome(e.path, home),
         \A q \in Procs \ {p} : proc[q].pc = "pruned" => proc[q].held \in disk' /\ admin'[proc[q].id] = NoPath,
         r.pc = "pruned" => /\ r.held \in disk' /\ admin'[r.id] = NoPath
                            /\ \A q \in Procs \ {p} : proc[q].pc = "pruned" => proc[q].held # r.held
  PROVE  AloneInv(home)'
<1>1. proc' \in [Procs -> Proc] /\ proc'[p] = r /\ \A q \in Procs : q # p => proc'[q] = proc[q]
  BY GoesType DEF Inv, TypeOK
<1>2. \A q \in Procs : Homed(proc'[q], home)
  BY <1>1 DEF AloneInv
<1>3. \A q \in Procs : Stranded(proc[q])' 
  BY <1>1 DEF Stranded
<1>4. OneRemoverPerWorktree'
  <2>. SUFFICES ASSUME NEW a \in Procs, NEW b \in Procs, proc'[a].pc = "pruned", proc'[b].pc = "pruned", a # b
                PROVE  proc'[a].held # proc'[b].held
    BY DEF OneRemoverPerWorktree, At
  <2>1. CASE a # p /\ b # p
    BY <2>1, <1>1 DEF AloneInv, OneRemoverPerWorktree, At
  <2>2. CASE a = p
    BY <2>2, <1>1
  <2>3. CASE b = p
    BY <2>3, <1>1
  <2>. QED BY <2>1, <2>2, <2>3
<1>5. (\A q \in Procs : Homed(proc[q], home))'
  BY <1>2
<1>. QED BY <1>3, <1>4, <1>5 DEF AloneInv

\* A step that only changes a process that is not about to remove.
LEMMA AloneQuietly ==
  ASSUME Inv, NEW home, AloneInv(home), NEW p \in Procs, NEW r \in Proc, Goes(p, r), Homed(r, home),
         r.pc # "pruned", UNCHANGED <<admin, disk, journal>>
  PROVE  AloneInv(home)'
<1>1. Claimed(home)' /\ \A e \in Range(journal') : AtHome(e.path, home)
  BY DEF AloneInv, Claimed
<1>2. \A q \in Procs : proc[q].pc = "pruned" => proc[q].held \in disk' /\ admin'[proc[q].id] = NoPath
  BY DEF AloneInv, Stranded
<1>. QED BY <1>1, <1>2, AloneStep

LEMMA BlankIsHomed == ASSUME NEW home PROVE Homed(Blank, home) /\ Blank.pc = "idle"
<1>1. Range(<<>>) = {}
  BY DEF Range
<1>2. Blank.pc = "idle" /\ Blank.snapshot = <<>> /\ "idle" \in Early
  BY DEF Blank, Early
<1>. QED BY <1>1, <1>2 DEF Homed

LEMMA AloneEnds ==
  ASSUME Inv, NEW home, AloneInv(home), NEW p \in Procs, Ends(p), UNCHANGED <<admin, disk, journal>>
  PROVE  AloneInv(home)'
BY AloneQuietly, BlankIsHomed, BlankType DEF Ends

LEMMA RemovesAlone ==
  ASSUME Inv, NEW home, AloneInv(home), NEW p \in Procs, Removes(p)
  PROVE  AloneInv(home)'
<1>1. /\ admin \in [Ids -> Paths \cup {NoPath}] /\ disk \subseteq Paths
      /\ journal \in Seq(Entry) /\ proc[p] \in Proc /\ Sound(proc[p])
      /\ proc \in [Procs -> Proc] /\ Inv'
  BY ProcInvIsSound, RemovesInv DEF Inv, TypeOK
<1>2. Homed(proc[p], home) /\ Stranded(proc[p]) /\ Claimed(home) /\ \A e \in Range(journal) : AtHome(e.path, home)
  BY DEF AloneInv
<1>3. ASSUME NEW r, Goes(p, r) PROVE r \in Proc
  BY <1>1, <1>3 DEF Goes, Inv, TypeOK
<1>4. \A id \in Ids : admin[id] # NoPath => AtHome(admin[id], home) /\ Basename[admin[id]] = id
  BY <1>2 DEF Claimed, AtHome
<1>5. CASE Confirm(p)
  <2>1. PICK id \in Ids, d \in BOOLEAN :
          /\ admin[id] # NoPath
          /\ Goes(p, [Blank EXCEPT
               !.pc = "confirmed", !.id = id, !.deleteBranch = d,
               !.expected = admin[id], !.found = admin[id],
               !.listed = IF admin[id] \in disk THEN head[id] ELSE NoBranch])
    BY <1>5 DEF Confirm
  <2>. DEFINE r == [Blank EXCEPT
               !.pc = "confirmed", !.id = id, !.deleteBranch = d,
               !.expected = admin[id], !.found = admin[id],
               !.listed = IF admin[id] \in disk THEN head[id] ELSE NoBranch]
  <2>2. /\ r.pc = "confirmed" /\ r.id = id /\ r.expected = admin[id] /\ r.found = admin[id]
        /\ r.snapshot = Blank.snapshot
    BY BlankType DEF Proc
  <2>3. UNCHANGED <<admin, disk, journal>>
    BY <1>5 DEF Confirm, git
  <2>4. Goes(p, r)
    BY <2>1
  <2>. HIDE DEF r
  <2>5. Homed(r, home)
    BY <2>1, <2>2, <1>4, BlankIsHomed DEF Homed, Early
  <2>. QED BY <1>3, <2>2, <2>3, <2>4, <2>5, AloneQuietly
<1>6. CASE Relist(p)
  <2>0. UNCHANGED <<admin, disk, journal>> /\ At(p, "confirmed")
    BY <1>6 DEF Relist, git
  <2>1. CASE Ends(p)
    BY <2>0, <2>1, AloneEnds
  <2>2. CASE ~ Ends(p)
    <3>. DEFINE id == proc[p].id
                r == [proc[p] EXCEPT
                        !.found = admin[id],
                        !.listed = IF admin[id] \in disk THEN head[id] ELSE NoBranch]
    <3>1. Goes(p, r) /\ admin[id] # NoPath
      BY <1>6, <2>2 DEF Relist
    <3>2. id \in Ids
      BY <1>1 DEF Proc
    <3>3. /\ r.pc = "confirmed" /\ r.id = id /\ r.expected = proc[p].expected /\ r.found = admin[id]
          /\ r.snapshot = proc[p].snapshot
      BY <1>1, <2>0 DEF Proc, At
    <3>. HIDE DEF r
    <3>4. Homed(r, home)
      BY <3>1, <3>2, <3>3, <1>2, <1>4, <2>0 DEF Homed, Early, At
    <3>. QED BY <1>3, <2>0, <3>1, <3>3, <3>4, AloneQuietly
  <2>. QED BY <2>1, <2>2
<1>7. ASSUME NEW step \in {"verified", "hooked"}, proc[p].pc \in Early \ {"idle"},
             Goes(p, [proc[p] EXCEPT !.pc = step]) \/ Ends(p), UNCHANGED <<admin, disk, journal>>
      PROVE  AloneInv(home)'
  <2>. DEFINE r == [proc[p] EXCEPT !.pc = step]
  <2>1. /\ r.pc = step /\ r.id = proc[p].id /\ r.expected = proc[p].expected /\ r.found = proc[p].found
        /\ r.snapshot = proc[p].snapshot
    BY <1>1 DEF Proc
  <2>. HIDE DEF r
  <2>2. Homed(r, home)
    BY <1>2, <1>7, <2>1 DEF Homed, Early
  <2>3. r.pc # "pruned"
    BY <2>1
  <2>4. CASE Goes(p, r)
    BY <1>3, <1>7, <2>2, <2>3, <2>4, AloneQuietly
  <2>. QED BY <1>7, <2>4, AloneEnds DEF r
<1>8. CASE VerifyPath(p)
  BY <1>7, <1>8 DEF VerifyPath, At, Early, git
<1>9. CASE PreRemove(p)
  BY <1>7, <1>9 DEF PreRemove, At, Early, git
<1>10. CASE TakeHandle(p)
  <2>. DEFINE r == [proc[p] EXCEPT !.pc = "held", !.held = proc[p].expected]
  <2>1. /\ r.pc = "held" /\ r.id = proc[p].id /\ r.expected = proc[p].expected /\ r.found = proc[p].found
        /\ r.snapshot = proc[p].snapshot
    BY <1>1 DEF Proc
  <2>2. Goes(p, r) \/ Ends(p)
    BY <1>10 DEF TakeHandle
  <2>3. UNCHANGED <<admin, disk, journal>> /\ At(p, "hooked")
    BY <1>10 DEF TakeHandle, git
  <2>. HIDE DEF r
  <2>4. Homed(r, home)
    BY <1>2, <2>1, <2>3 DEF Homed, Early, At
  <2>5. CASE Goes(p, r)
    BY <1>3, <2>1, <2>3, <2>4, <2>5, AloneQuietly
  <2>. QED BY <2>2, <2>3, <2>5, AloneEnds
<1>11. CASE ReadHead(p)
  <2>1. PICK h \in HeadsAt(proc[p].held) : Goes(p, [proc[p] EXCEPT !.pc = "read", !.head = h])
    BY <1>11 DEF ReadHead
  <2>. DEFINE r == [proc[p] EXCEPT !.pc = "read", !.head = h]
  <2>2. /\ r.pc = "read" /\ r.id = proc[p].id /\ r.expected = proc[p].expected /\ r.found = proc[p].found
        /\ r.snapshot = proc[p].snapshot
    BY <1>1 DEF Proc
  <2>3. UNCHANGED <<admin, disk, journal>> /\ At(p, "held") /\ Goes(p, r)
    BY <1>11, <2>1 DEF ReadHead, git
  <2>. HIDE DEF r
  <2>4. Homed(r, home)
    BY <1>2, <2>2, <2>3 DEF Homed, Early, At
  <2>. QED BY <1>3, <2>2, <2>3, <2>4, AloneQuietly
<1>12. CASE Prune(p)
  <2>. DEFINE r == [proc[p] EXCEPT !.pc = "pruned"]
              id == proc[p].id
  <2>0. At(p, "read") /\ UNCHANGED <<disk, journal>>
    BY <1>12 DEF Prune
  <2>1. CASE Ends(p) /\ UNCHANGED admin
    BY <2>0, <2>1, AloneEnds
  <2>2. CASE admin[id] # NoPath /\ admin' = [admin EXCEPT ![id] = NoPath] /\ Goes(p, r)
    <3>1. /\ r.pc = "pruned" /\ r.id = id /\ r.expected = proc[p].expected /\ r.found = proc[p].found
          /\ r.snapshot = proc[p].snapshot /\ r.held = proc[p].held
      BY <1>1 DEF Proc
    <3>. HIDE DEF r
    <3>2. id \in Ids /\ proc[p].held = proc[p].expected /\ Basename[proc[p].held] = id /\ home[id] = proc[p].held
      BY <1>1, <1>2, <2>0 DEF Proc, Sound, At, Homed, Early, AtHome
    <3>3. admin[id] = proc[p].held /\ proc[p].held \in disk
      BY <3>2, <2>2, <1>2 DEF Claimed
    <3>4. Homed(r, home)
      BY <1>2, <2>0, <3>1 DEF Homed, Early, At
    <3>5. admin'[id] = NoPath /\ \A i \in Ids : i # id => admin'[i] = admin[i]
      BY <2>2, <3>2, <1>1
    <3>6. Claimed(home)'
      BY <3>5, <2>0, <1>2 DEF Claimed
    <3>7. ASSUME NEW q \in Procs \ {p}, proc[q].pc = "pruned"
          PROVE  proc[q].held \in disk' /\ admin'[proc[q].id] = NoPath /\ proc[q].held # r.held
      <4>1. proc[q].held \in disk /\ admin[proc[q].id] = NoPath /\ Basename[proc[q].expected] = proc[q].id
            /\ proc[q].held = proc[q].expected /\ proc[q].id \in Ids
        BY <3>7, <1>1, ProcInvIsSound DEF AloneInv, Stranded, Homed, Early, Sound, Inv, Proc
      <4>2. proc[q].id # id
        BY <4>1, <2>2
      <4>. QED BY <4>1, <4>2, <3>1, <3>2, <3>5, <2>0
    <3>8. \A e \in Range(journal') : AtHome(e.path, home)
      BY <1>2, <2>0
    <3>9. r.held \in disk' /\ admin'[r.id] = NoPath
      BY <3>1, <3>3, <3>5, <2>0
    <3>10. r \in Proc
      BY <1>3, <2>2
    <3>. QED BY <2>2, <3>4, <3>6, <3>7, <3>8, <3>9, <3>10, AloneStep
  <2>. QED BY <1>12, <2>1, <2>2 DEF Prune
<1>13. CASE RemoveDir(p)
  <2>. DEFINE r == [proc[p] EXCEPT !.pc = "gone"]
              id == proc[p].id
  <2>0. At(p, "pruned") /\ UNCHANGED <<admin, journal>>
    BY <1>13 DEF RemoveDir
  <2>1. CASE Ends(p) /\ UNCHANGED disk
    BY <2>0, <2>1, AloneEnds
  <2>2. CASE disk' = disk \ {proc[p].held} /\ Goes(p, r)
    <3>1. /\ r.pc = "gone" /\ r.id = id /\ r.expected = proc[p].expected /\ r.found = proc[p].found
          /\ r.snapshot = proc[p].snapshot
      BY <1>1 DEF Proc
    <3>. HIDE DEF r
    <3>2. proc[p].held = proc[p].expected /\ Basename[proc[p].held] = id /\ admin[id] = NoPath
      BY <1>1, <1>2, <2>0 DEF Sound, At, Homed, Early, Stranded
    <3>3. Homed(r, home)
      BY <1>2, <2>0, <3>1 DEF Homed, Early, At
    <3>4. Claimed(home)'
      BY <1>2, <2>0, <2>2, <3>2 DEF Claimed
    <3>5. ASSUME NEW q \in Procs \ {p}, proc[q].pc = "pruned"
          PROVE  proc[q].held \in disk' /\ admin'[proc[q].id] = NoPath
      <4>1. proc[q].held \in disk /\ admin[proc[q].id] = NoPath /\ proc[q].held # proc[p].held
        BY <3>5, <2>0 DEF AloneInv, Stranded, OneRemoverPerWorktree, At
      <4>. QED BY <4>1, <2>0, <2>2
    <3>6. \A e \in Range(journal') : AtHome(e.path, home)
      BY <1>2, <2>0
    <3>7. r \in Proc /\ r.pc # "pruned"
      BY <1>3, <2>2, <3>1
    <3>. QED BY <2>2, <3>3, <3>4, <3>5, <3>6, <3>7, AloneStep
  <2>. QED BY <1>13, <2>1, <2>2 DEF RemoveDir
<1>14. CASE LoadJournal(p)
  <2>0. At(p, "gone") /\ UNCHANGED <<admin, disk, journal>>
    BY <1>14 DEF LoadJournal, git
  <2>. DEFINE b == BranchToRecord(p)
              e == [ts |-> clock, path |-> proc[p].found, branch |-> b, oid |-> TipOf(b)]
              r == [proc[p] EXCEPT !.pc = "recording", !.snapshot = journal, !.entry = e]
  <2>1. Goes(p, r)
    BY <1>14 DEF LoadJournal
  <2>2. e.path = proc[p].found
    OBVIOUS
  <2>. HIDE DEF e
  <2>3. r.pc = "recording" /\ r.snapshot = journal /\ r.entry = e
    BY <1>1 DEF Proc
  <2>. HIDE DEF r
  <2>4. Homed(r, home)
    BY <1>2, <2>0, <2>2, <2>3 DEF Homed, Early, At
  <2>. QED BY <1>3, <2>0, <2>1, <2>3, <2>4, AloneQuietly
<1>15. CASE SaveJournal(p)
  <2>0. At(p, "recording") /\ UNCHANGED <<admin, disk>>
    BY <1>15 DEF SaveJournal, git
  <2>. DEFINE q == proc[p]
              saved == Appended(q.snapshot, q.entry)
              r == [q EXCEPT !.pc = "recorded"]
              u == [q EXCEPT !.pc = "recorded", !.warned = TRUE]
  <2>2. /\ r.pc = "recorded" /\ r.snapshot = q.snapshot /\ r.entry = q.entry
        /\ u.pc = "recorded" /\ u.snapshot = q.snapshot /\ u.entry = q.entry
    BY <1>1 DEF Proc
  <2>3. Goes(p, r) \/ Goes(p, u)
    BY <1>15 DEF SaveJournal
  <2>4. q.snapshot \in Seq(Entry) /\ q.entry \in Entry
    BY <1>1, <2>0 DEF At, Sound, Recorded, Proc
  <2>5. Range(saved) \subseteq Range(q.snapshot) \cup {q.entry}
    BY <2>4, AppendedType
  <2>6. journal' = saved \/ journal' = journal
    BY <1>15 DEF SaveJournal
  <2>7. AtHome(q.entry.path, home) /\ \A e \in Range(q.snapshot) : AtHome(e.path, home)
    BY <1>2, <2>0 DEF Homed, At, Early
  <2>. HIDE DEF saved, r, u
  <2>8. \A e \in Range(journal') : AtHome(e.path, home)
    BY <1>2, <2>5, <2>6, <2>7
  <2>9. Homed(r, home) /\ Homed(u, home)
    BY <2>2, <2>7 DEF Homed, Early
  <2>10. /\ Claimed(home)'
         /\ \A o \in Procs \ {p} : proc[o].pc = "pruned" => proc[o].held \in disk' /\ admin'[proc[o].id] = NoPath
    BY <2>0 DEF AloneInv, Claimed, Stranded
  <2>11. \A s \in {r, u} : Goes(p, s) => s \in Proc
    BY <1>3
  <2>. QED BY <2>2, <2>3, <2>8, <2>9, <2>10, <2>11, AloneStep
<1>16. CASE DeleteBranch(p)
  <2>1. Ends(p) /\ UNCHANGED <<admin, disk, journal>>
    BY <1>16 DEF DeleteBranch
  <2>. QED BY <2>1, AloneEnds
<1>. QED BY <1>5, <1>6, <1>8, <1>9, <1>10, <1>11, <1>12, <1>13, <1>14, <1>15, <1>16 DEF Removes

LEMMA UndoesAlone ==
  ASSUME Inv, NEW home, AloneInv(home), NEW p \in Procs, Undoes(p)
  PROVE  AloneInv(home)'
<1>1. /\ admin \in [Ids -> Paths \cup {NoPath}] /\ disk \subseteq Paths
      /\ journal \in Seq(Entry) /\ proc[p] \in Proc /\ Sound(proc[p])
      /\ proc \in [Procs -> Proc] /\ Inv'
  BY ProcInvIsSound, UndoesInv DEF Inv, TypeOK
<1>2. Homed(proc[p], home) /\ Claimed(home) /\ \A e \in Range(journal) : AtHome(e.path, home)
  BY DEF AloneInv
<1>3. ASSUME NEW r, Goes(p, r) PROVE r \in Proc
  BY <1>1, <1>3 DEF Goes, Inv, TypeOK
<1>4. CASE Pop(p)
  <2>0. UNCHANGED <<admin, disk, journal>>
    BY <1>4 DEF Pop, git
  <2>1. PICK i \in DOMAIN journal :
          Goes(p, [Blank EXCEPT !.pc = "popped", !.entry = journal[i],
                                !.snapshot = WithoutIndex(journal, i)])
    BY <1>4 DEF Pop
  <2>. DEFINE rest == WithoutIndex(journal, i)
              r == [Blank EXCEPT !.pc = "popped", !.entry = journal[i], !.snapshot = rest]
  <2>2. journal # <<>>
    <3>1. DOMAIN <<>> = {}
      OBVIOUS
    <3>. QED BY <2>1, <3>1
  <2>3. Range(rest) \subseteq Range(journal) /\ journal[i] \in Range(journal)
    <3>1. Range(rest) \subseteq Range(journal)
      BY <1>1, <2>2, WithoutIndexType
    <3>2. journal[i] \in Range(journal)
      BY <2>1 DEF Range
    <3>. QED BY <3>1, <3>2
  <2>4. Goes(p, r)
    BY <2>1
  <2>. HIDE DEF rest
  <2>5. r.pc = "popped" /\ r.snapshot = rest /\ r.entry = journal[i]
    BY BlankType DEF Proc
  <2>. HIDE DEF r
  <2>6. Homed(r, home)
    BY <1>2, <2>3, <2>5 DEF Homed, Early
  <2>. QED BY <1>3, <2>0, <2>4, <2>5, <2>6, AloneQuietly
<1>5. CASE Resurrect(p)
  <2>. DEFINE r == [proc[p] EXCEPT !.pc = "rebuilt"]
  <2>1. r.pc = "rebuilt" /\ r.snapshot = proc[p].snapshot /\ r.entry = proc[p].entry
    BY <1>1 DEF Proc
  <2>2. Goes(p, r) /\ UNCHANGED <<admin, disk, journal>> /\ At(p, "popped")
    BY <1>5 DEF Resurrect
  <2>. HIDE DEF r
  <2>3. Homed(r, home)
    BY <1>2, <2>1, <2>2 DEF Homed, Early, At
  <2>. QED BY <1>3, <2>1, <2>2, <2>3, AloneQuietly
<1>6. CASE ReAdd(p)
  <2>. DEFINE r == [proc[p] EXCEPT !.pc = "added"]
              e == proc[p].entry
              id == Basename[e.path]
  <2>0. At(p, "rebuilt") /\ UNCHANGED journal
    BY <1>6 DEF ReAdd
  <2>1. CASE Ends(p) /\ UNCHANGED <<admin, disk>>
    BY <2>0, <2>1, AloneEnds
  <2>2. CASE /\ CanAdd(e) /\ admin' = [admin EXCEPT ![id] = e.path] /\ disk' = disk \cup {e.path}
             /\ Goes(p, r)
    <3>1. r.pc = "added" /\ r.snapshot = proc[p].snapshot /\ r.entry = e
      BY <1>1 DEF Proc
    <3>2. e \in Entry /\ e.path \in Paths /\ id \in Ids /\ AtHome(e.path, home) /\ e.path \notin disk
      BY <1>1, <1>2, <2>0, <2>2, BasenameAssumption DEF Sound, At, Homed, Early, Entry, CanAdd
    <3>. HIDE DEF r, e
    <3>3. Homed(r, home)
      BY <1>2, <2>0, <3>1, <3>2 DEF Homed, Early, At
    <3>4. admin'[id] = e.path /\ \A i \in Ids : i # id => admin'[i] = admin[i]
      BY <2>2, <3>2, <1>1
    <3>5. Claimed(home)'
      BY <2>2, <3>2, <3>4, <1>2 DEF Claimed, AtHome
    <3>6. ASSUME NEW q \in Procs \ {p}, proc[q].pc = "pruned"
          PROVE  proc[q].held \in disk' /\ admin'[proc[q].id] = NoPath
      <4>1. /\ proc[q].held \in disk /\ admin[proc[q].id] = NoPath /\ Basename[proc[q].expected] = proc[q].id
            /\ proc[q].held = proc[q].expected /\ proc[q].id \in Ids /\ AtHome(proc[q].expected, home)
        BY <3>6, <1>1, ProcInvIsSound DEF AloneInv, Stranded, Homed, Early, Sound, Inv, Proc
      <4>2. proc[q].id # id
        BY <4>1, <3>2 DEF AtHome
      <4>. QED BY <4>1, <4>2, <3>4, <2>2
    <3>7. \A f \in Range(journal') : AtHome(f.path, home)
      BY <1>2, <2>0
    <3>8. r \in Proc /\ r.pc # "pruned"
      BY <1>3, <2>2, <3>1
    <3>. QED BY <2>2, <3>3, <3>5, <3>6, <3>7, <3>8, AloneStep
  <2>. QED BY <1>6, <2>1, <2>2 DEF ReAdd
<1>7. CASE SaveUndo(p)
  <2>0. Ends(p) /\ UNCHANGED <<admin, disk>> /\ (journal' = proc[p].snapshot \/ journal' = journal)
    BY <1>7 DEF SaveUndo, git
  <2>1. \A e \in Range(journal') : AtHome(e.path, home)
    BY <1>2, <2>0 DEF Homed
  <2>2. /\ Claimed(home)'
        /\ \A o \in Procs \ {p} : proc[o].pc = "pruned" => proc[o].held \in disk' /\ admin'[proc[o].id] = NoPath
    BY <2>0 DEF AloneInv, Claimed, Stranded
  <2>. QED BY <2>0, <2>1, <2>2, AloneStep, BlankIsHomed, BlankType DEF Ends
<1>. QED BY <1>4, <1>5, <1>6, <1>7 DEF Undoes

\* Somebody has seen every worktree where it is.
AloneIInv == \E home \in [Ids -> Paths \cup {NoPath}] : AloneInv(home)

LEMMA AloneInit == Init => AloneIInv
<1>. SUFFICES ASSUME Init PROVE AloneInv(admin)
  BY DEF AloneIInv, Init
<1>1. Claimed(admin)
  BY NoneAssumption DEF Init, Claimed
<1>2. Range(journal) = {}
  BY DEF Init, Range
<1>3. \A p \in Procs : Homed(proc[p], admin) /\ proc[p].pc = "idle"
  BY BlankIsHomed DEF Init
<1>. QED BY <1>1, <1>2, <1>3 DEF AloneInv, Stranded, OneRemoverPerWorktree, At

LEMMA AloneNext ==
  ASSUME MaxWorld = 0, Inv, AloneIInv, [Next]_vars
  PROVE  AloneIInv'
<1>1. PICK home \in [Ids -> Paths \cup {NoPath}] : AloneInv(home)
  BY DEF AloneIInv
<1>2. ~ World
  <2>1. worldSteps \in Nat
    BY DEF Inv, TypeOK
  <2>2. ~ WorldMayMove
    BY <2>1 DEF WorldMayMove
  <2>. QED BY <2>2 DEF World, Moves, Recreates, Discards, Deletes, ChecksOut, Commits
<1>3. ASSUME NEW p \in Procs, Removes(p) \/ Undoes(p) PROVE AloneInv(home)'
  BY <1>1, <1>3, RemovesAlone, UndoesAlone
<1>4. ASSUME NEW p \in Procs, Stops(p) PROVE AloneInv(home)'
  <2>1. Ends(p) /\ UNCHANGED <<admin, disk, journal>>
    BY <1>4 DEF Stops, git
  <2>. QED BY <2>1, <1>1, AloneEnds
<1>5. UNCHANGED vars => AloneInv(home)'
  BY <1>1 DEF AloneInv, Claimed, Stranded, OneRemoverPerWorktree, At, vars, git
<1>6. AloneInv(home)'
  BY <1>2, <1>3, <1>4, <1>5 DEF Next
<1>. QED BY <1>6 DEF AloneIInv

\* Of the processes that took the same worktree one removes it, as long as nobody but them is about: the
\* others find the admin entry gone (remove_inner, 723-735).
THEOREM OneRemover ==
  ASSUME MaxWorld = 0
  PROVE  Spec => []OneRemoverPerWorktree
<1>1. AloneIInv => OneRemoverPerWorktree
  BY DEF AloneIInv, AloneInv
<1>. QED BY <1>1, AloneInit, AloneNext, Inductive, PTL DEF Spec
===============================================================================
