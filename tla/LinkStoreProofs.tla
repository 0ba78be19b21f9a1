----------------------------- MODULE LinkStoreProofs -----------------------------
(***************************************************************************)
(* The link store, for every set of branches, instances and numbers: what  *)
(* is stored for one repository of one backend, under its own stamp and    *)
(* marker, is never served as another's, and no purge takes such a link    *)
(* while it is current, wherever the writes of the commands before, their  *)
(* stamps among them, were cut short (LinkStore).                          *)
(*                                                                         *)
(* The argument: each write of each stage keeps a configuration Sound by   *)
(* itself, so whatever each stage leaves is sound for the next.            *)
(***************************************************************************)
EXTENDS LinkStore, TLAPS

\* The backend a marker names.
Marker(c) == IF c.marker = Nothing THEN GitHub ELSE c.marker

\* The stamp and the marker of a configuration tell the truth about every number in it
\* that was stored under its own.
Truthful(c, item) ==
  item # Nothing => /\ item.stamped => (item.of.origin = NoOrigin \/ item.of.origin = c.stamp)
                    /\ item.marked => item.of.forge = Marker(c)

Sound == {c \in BranchConfig : \A key \in {"issue", "pr", "detected"} : Truthful(c, c[key])}

Inv == TypeOK /\ config \in [Branches -> Sound]

-----------------------------------------------------------------------------
(* Sequences of writes.                                                    *)

LEMMA AfterIn ==
  ASSUME NEW S, NEW c \in S, NEW writes \in Seq(S)
  PROVE  After(c, writes) \in S
BY DEF After, Last

\* Whatever a stage leaves is what it found or one of its writes.
LEMMA UptoIn ==
  ASSUME NEW S, NEW c \in S, NEW writes \in Seq(S)
  PROVE  \A d \in Upto(c, writes) : d \in S
<1>. SUFFICES ASSUME NEW done \in 0 .. Len(writes)
              PROVE  After(c, SubSeq(writes, 1, done)) \in S
  BY DEF Upto
<1>1. SubSeq(writes, 1, done) \in Seq(S)
  OBVIOUS
<1>. QED BY <1>1, AfterIn

\* A sequence that ends in a write ends with that one.
LEMMA AfterAppend ==
  ASSUME NEW S, NEW c \in S, NEW writes \in Seq(S), NEW w \in S
  PROVE  /\ Append(writes, w) \in Seq(S) /\ After(c, Append(writes, w)) = w
         /\ Last(Append(writes, w)) = w
BY DEF After, Last

\* After two sequences is after the second, unless that is empty.
LEMMA AfterBoth ==
  ASSUME NEW S, NEW c \in S, NEW one \in Seq(S), NEW two \in Seq(S)
  PROVE  /\ one \o two \in Seq(S)
         /\ After(c, one \o two) = After(After(c, one), two)
<1>1. one \o two \in Seq(S) /\ Len(one \o two) = Len(one) + Len(two)
  OBVIOUS
<1>2. CASE two = <<>>
  <2>1. one \o two = one
    BY <1>2
  <2>. QED BY <1>2, <2>1 DEF After
<1>3. CASE two # <<>>
  <2>1. Len(two) > 0 /\ (one \o two)[Len(one) + Len(two)] = two[Len(two)]
    BY <1>3
  <2>2. one \o two # <<>>
    BY <1>1, <2>1
  <2>. QED BY <1>1, <1>3, <2>1, <2>2 DEF After, Last
<1>. QED BY <1>1, <1>2, <1>3

-----------------------------------------------------------------------------
(* Each sequence of writes is of sound configurations.                     *)

LEMMA DropIsSound ==
  ASSUME NEW c \in Sound
  PROVE  /\ Dropped(c) \in Seq(Sound) /\ Last(Dropped(c)) \in Sound
         /\ Last(Dropped(c)) = [c EXCEPT !.issue = Nothing, !.title = Nothing,
                                         !.pr = Nothing, !.detected = Nothing]
<1>. DEFINE one == [c EXCEPT !.issue = Nothing]
            two == [one EXCEPT !.title = Nothing]
            three == [two EXCEPT !.pr = Nothing]
            four == [three EXCEPT !.detected = Nothing]
<1>1. one \in Sound
  BY DEF Sound, BranchConfig, Held, Truthful, Marker
<1>2. two \in Sound
  <2>. HIDE DEF one
  <2>. QED BY <1>1 DEF Sound, BranchConfig, Held, Truthful, Marker
<1>3. three \in Sound
  <2>. HIDE DEF two
  <2>. QED BY <1>2 DEF Sound, BranchConfig, Held, Truthful, Marker
<1>4. four \in Sound
  <2>. HIDE DEF three
  <2>. QED BY <1>3 DEF Sound, BranchConfig, Held, Truthful, Marker
<1>5. four = [c EXCEPT !.issue = Nothing, !.title = Nothing, !.pr = Nothing, !.detected = Nothing]
  BY DEF Sound, BranchConfig
<1>6. Dropped(c) = <<one, two, three, four>>
  BY DEF Dropped
<1>. HIDE DEF one, two, three, four
<1>. QED BY <1>1, <1>2, <1>3, <1>4, <1>5, <1>6 DEF Last
\* A stamp: with an origin, the configuration ends stamped with it.
LEMMA StampIsSound ==
  ASSUME TypeOK, NEW c \in Sound
  PROVE  /\ Stamp(c) \in Seq(Sound) /\ After(c, Stamp(c)) \in Sound
         /\ origin # NoOrigin => After(c, Stamp(c)).stamp = origin
         /\ After(c, Stamp(c)).marker = c.marker
<1>1. CASE origin = NoOrigin
  BY <1>1 DEF Stamp, After
<1>2. CASE origin # NoOrigin
  <2>. DEFINE purge == IF c.stamp \in {Nothing, origin} THEN <<>> ELSE Dropped(c)
              p == After(c, purge)
              s == [p EXCEPT !.stamp = origin]
  <2>1. purge \in Seq(Sound)
    <3>1. Dropped(c) \in Seq(Sound)
      BY DropIsSound
    <3>2. <<>> \in Seq(Sound)
      OBVIOUS
    <3>. QED BY <3>1, <3>2
  <2>2. p \in Sound
    <3>. HIDE DEF purge
    <3>. QED BY <2>1, AfterIn
  <2>3. p.marker = c.marker /\ (p.stamp \in {Nothing, origin}
                                   \/ (p.issue = Nothing /\ p.pr = Nothing /\ p.detected = Nothing))
    <3>1. CASE c.stamp \in {Nothing, origin}
      BY <3>1 DEF After
    <3>2. CASE c.stamp \notin {Nothing, origin}
      <4>1. p = Last(Dropped(c))
        BY <3>2 DEF After, Dropped
      <4>2. p = [c EXCEPT !.issue = Nothing, !.title = Nothing, !.pr = Nothing, !.detected = Nothing]
        BY <4>1, DropIsSound
      <4>. HIDE DEF p
      <4>. QED BY <4>2 DEF Sound, BranchConfig
    <3>. QED BY <3>1, <3>2
  <2>4. origin \in Origins /\ NoOrigin # Nothing /\ Nothing \notin Origins
    BY <1>2, LinkAssumption DEF TypeOK
  <2>5. s \in Sound /\ s.stamp = origin /\ s.marker = c.marker
    <3>. HIDE DEF p
    <3>1. s \in BranchConfig /\ s.stamp = origin /\ s.marker = p.marker
          /\ \A key \in {"issue", "pr", "detected"} : s[key] = p[key]
      BY <2>2, <2>4 DEF Sound, BranchConfig
    <3>2. \A key \in {"issue", "pr", "detected"} : Truthful(p, p[key]) /\ p[key] \in Held
      BY <2>2 DEF Sound, BranchConfig
    <3>3. ASSUME NEW key \in {"issue", "pr", "detected"} PROVE Truthful(s, s[key])
      <4>. HIDE DEF s
      <4>. SUFFICES ASSUME p[key] # Nothing PROVE Truthful(s, p[key])
        BY <3>1 DEF Truthful
      <4>1. p.stamp \in {Nothing, origin}
        BY <2>3
      <4>2. p[key].of.origin # Nothing
        BY <3>2, LinkAssumption DEF Held, Item, Instance
      <4>. QED BY <3>1, <3>2, <4>1, <4>2 DEF Truthful, Marker
    <3>. QED BY <2>3, <3>1, <3>3 DEF Sound
  <2>6. Stamp(c) = Append(purge, s)
    BY <1>2 DEF Stamp
  <2>. HIDE DEF purge, p, s
  <2>7. After(c, Append(purge, s)) = s /\ Append(purge, s) \in Seq(Sound)
    BY <2>1, <2>5, AfterAppend
  <2>. QED BY <2>5, <2>6, <2>7
<1>. QED BY <1>1, <1>2

LEMMA ReconcileIsSound ==
  ASSUME TypeOK, NEW c \in Sound
  PROVE  /\ Reconcile(c) \in Seq(Sound) /\ After(c, Reconcile(c)) \in Sound
         /\ MarkedHere(c) => Reconcile(c) = <<>>
         /\ ~ MarkedHere(c) => /\ After(c, Reconcile(c)).issue = Nothing
                               /\ After(c, Reconcile(c)).pr = Nothing
                               /\ After(c, Reconcile(c)).detected = Nothing
<1>1. CASE MarkedHere(c)
  BY <1>1 DEF Reconcile, After
<1>2. CASE ~ MarkedHere(c)
  <2>. DEFINE gone == Last(Dropped(c))
              unstamped == [gone EXCEPT !.stamp = Nothing]
              marked == [unstamped EXCEPT !.marker = forge]
              end == <<unstamped, marked>>
  <2>1. gone \in Sound /\ gone.issue = Nothing /\ gone.pr = Nothing /\ gone.detected = Nothing
    <3>1. gone \in Sound /\ gone = [c EXCEPT !.issue = Nothing, !.title = Nothing,
                                            !.pr = Nothing, !.detected = Nothing]
      BY DropIsSound
    <3>. HIDE DEF gone
    <3>. QED BY <3>1 DEF Sound, BranchConfig
  <2>2. /\ unstamped \in Sound
        /\ unstamped.issue = Nothing /\ unstamped.pr = Nothing /\ unstamped.detected = Nothing
    <3>. HIDE DEF gone
    <3>. QED BY <2>1 DEF Sound, BranchConfig, Truthful
  <2>3. /\ marked \in Sound /\ marked.issue = Nothing /\ marked.pr = Nothing /\ marked.detected = Nothing
    <3>. HIDE DEF unstamped
    <3>1. forge \in Forges
      BY DEF TypeOK
    <3>. QED BY <2>2, <3>1 DEF Sound, BranchConfig, Truthful
  <2>4. Reconcile(c) = Dropped(c) \o end
    BY <1>2 DEF Reconcile
  <2>. HIDE DEF gone, unstamped, marked
  <2>5. end \in Seq(Sound) /\ Len(end) = 2 /\ end[2] = marked /\ end # <<>>
    BY <2>2, <2>3
  <2>6. Dropped(c) \in Seq(Sound)
    BY DropIsSound
  <2>. HIDE DEF end
  <2>7. After(c, Dropped(c) \o end) = marked /\ Dropped(c) \o end \in Seq(Sound)
    <3>1. After(After(c, Dropped(c)), end) = marked
      BY <2>5 DEF After, Last
    <3>. QED BY <2>5, <2>6, <3>1, AfterBoth
  <2>. QED BY <1>2, <2>3, <2>4, <2>7
<1>. QED BY <1>1, <1>2

LEMMA AdoptIsSound ==
  ASSUME TypeOK, NEW c \in Sound
  PROVE  Adopt(c) \in Seq(Sound)
<1>1. CASE c.stamp = Nothing /\ origin # NoOrigin
  <2>. DEFINE s == [c EXCEPT !.stamp = origin]
  <2>1. origin \in Origins
    BY <1>1 DEF TypeOK
  <2>2. s \in BranchConfig /\ s.marker = c.marker /\ \A key \in {"issue", "pr", "detected"} : s[key] = c[key]
    BY <2>1 DEF Sound, BranchConfig
  <2>3. ASSUME NEW key \in {"issue", "pr", "detected"}, c[key] # Nothing
        PROVE  /\ c[key].stamped => c[key].of.origin = NoOrigin
               /\ c[key].marked => c[key].of.forge = Marker(c)
    <3>1. c[key].of.origin # Nothing
      BY <2>3, LinkAssumption DEF Sound, BranchConfig, Held, Item, Instance
    <3>. QED BY <1>1, <2>3, <3>1 DEF Sound, Truthful
  <2>4. s \in Sound
    <3>. HIDE DEF s
    <3>. QED BY <2>2, <2>3 DEF Sound, Truthful, Marker
  <2>. QED BY <2>4 DEF Adopt
<1>2. CASE ~ (c.stamp = Nothing /\ origin # NoOrigin)
  BY <1>2 DEF Adopt
<1>. QED BY <1>1, <1>2

\* A number made now is one any sound configuration may hold: it knows whether it was
\* stamped and marked.
LEMMA NewIsSound ==
  ASSUME TypeOK, NEW c \in Sound, NEW n \in Numbers
  PROVE  New(c, n) \in Item /\ Truthful(c, New(c, n)) /\ New(c, n) # Nothing
<1>1. New(c, n) \in Item
  BY DEF New, Item, Here, Instance, MarkedHere, StampedHere, TypeOK
<1>2. MarkedHere(c) => forge = Marker(c)
  BY LinkAssumption DEF MarkedHere, Marker, TypeOK
<1>. QED BY <1>1, <1>2, NothingAssumption DEF New, Here, Truthful, StampedHere

LEMMA StampedIsSound ==
  ASSUME TypeOK, NEW c \in Sound
  PROVE  \A s \in Stamped(c) : s \in Sound
BY StampIsSound, UptoIn DEF Stamped

LEMMA LinksAreSound ==
  ASSUME TypeOK, NEW c \in Sound, NEW n \in Numbers
  PROVE  \A d \in LinkIssue(c, n) \cup LinkPr(c, n) \cup Detect(c, n) : d \in Sound
<1>1. ASSUME NEW s \in Sound
      PROVE  /\ [s EXCEPT !.issue = New(s, n)] \in Sound /\ [s EXCEPT !.pr = New(s, n)] \in Sound
             /\ [s EXCEPT !.detected = New(s, n)] \in Sound
             /\ [[s EXCEPT !.issue = New(s, n)] EXCEPT !.title = Nothing] \in Sound
  <2>. DEFINE new == New(s, n)
              i == [s EXCEPT !.issue = new]
  <2>1. new \in Item /\ Truthful(s, new)
    BY <1>1, NewIsSound
  <2>. HIDE DEF new
  <2>2. i \in Sound /\ [s EXCEPT !.pr = new] \in Sound /\ [s EXCEPT !.detected = new] \in Sound
    BY <1>1, <2>1 DEF Sound, BranchConfig, Held, Truthful, Marker
  <2>. HIDE DEF i
  <2>3. [i EXCEPT !.title = Nothing] \in Sound
    BY <2>2 DEF Sound, BranchConfig, Held, Truthful, Marker
  <2>. QED BY <2>2, <2>3 DEF new, i
<1>2. ASSUME NEW d \in LinkIssue(c, n) PROVE d \in Sound
  <2>1. PICK s \in Stamped(c) :
           d \in LET numbered == [s EXCEPT !.issue = New(s, n)]
                 IN Upto(s, <<numbered, [numbered EXCEPT !.title = Nothing]>>)
    BY <1>2 DEF LinkIssue
  <2>. DEFINE i == [s EXCEPT !.issue = New(s, n)]
              t == [i EXCEPT !.title = Nothing]
  <2>2. s \in Sound /\ i \in Sound /\ t \in Sound
    BY <1>1, StampedIsSound
  <2>3. d \in Upto(s, <<i, t>>)
    BY <2>1
  <2>. HIDE DEF i, t
  <2>4. <<i, t>> \in Seq(Sound)
    BY <2>2
  <2>. QED BY <2>2, <2>3, <2>4, UptoIn
<1>3. ASSUME NEW d \in LinkPr(c, n) PROVE d \in Sound
  <2>1. PICK s \in Stamped(c) : d \in Upto(s, <<[s EXCEPT !.pr = New(s, n)]>>)
    BY <1>3 DEF LinkPr
  <2>. DEFINE x == [s EXCEPT !.pr = New(s, n)]
  <2>2. s \in Sound
    BY StampedIsSound
  <2>3. x \in Sound
    BY <1>1, <2>2
  <2>. HIDE DEF x
  <2>4. <<x>> \in Seq(Sound)
    BY <2>3
  <2>. QED BY <2>1, <2>2, <2>4, UptoIn DEF x
<1>4. ASSUME NEW d \in Detect(c, n) PROVE d \in Sound
  <2>1. PICK s \in Stamped(c) : d \in Upto(s, <<[s EXCEPT !.detected = New(s, n)]>>)
    BY <1>4, LinkAssumption DEF Detect
  <2>. DEFINE x == [s EXCEPT !.detected = New(s, n)]
  <2>2. s \in Sound
    BY StampedIsSound
  <2>3. x \in Sound
    BY <1>1, <2>2
  <2>. HIDE DEF x
  <2>4. <<x>> \in Seq(Sound)
    BY <2>3
  <2>. QED BY <2>1, <2>2, <2>4, UptoIn DEF x
<1>. QED BY <1>2, <1>3, <1>4

LEMMA UnlinksAreSound ==
  ASSUME NEW c \in Sound
  PROVE  \A d \in UnlinkIssue(c) \cup UnlinkPr(c) \cup Detect(c, Nothing) : d \in Sound
<1>. DEFINE i == [c EXCEPT !.issue = Nothing]
            t == [i EXCEPT !.title = Nothing]
            p == [c EXCEPT !.pr = Nothing]
            q == [p EXCEPT !.detected = Nothing]
            e == [c EXCEPT !.detected = Nothing]
<1>1. i \in Sound /\ p \in Sound /\ e \in Sound
  BY DEF Sound, BranchConfig, Held, Truthful, Marker
<1>2. UnlinkIssue(c) = Upto(c, <<i, t>>) /\ UnlinkPr(c) = Upto(c, <<p, q>>) /\ Detect(c, Nothing) = Upto(c, <<e>>)
  BY DEF UnlinkIssue, UnlinkPr, Detect
<1>. HIDE DEF i, p
<1>3. t \in Sound /\ q \in Sound
  BY <1>1 DEF Sound, BranchConfig, Held, Truthful, Marker
<1>. HIDE DEF t, q, e
<1>4. <<i, t>> \in Seq(Sound) /\ <<p, q>> \in Seq(Sound) /\ <<e>> \in Seq(Sound)
  BY <1>1, <1>3
<1>. QED BY <1>2, <1>4, UptoIn

LEMMA TitleIsSound ==
  ASSUME TypeOK, NEW c \in Sound
  PROVE  \A d \in Title(c) : d \in Sound
<1>. SUFFICES ASSUME NEW d, NEW s \in Stamped(c), d \in Upto(s, <<[s EXCEPT !.title = tui.resolved]>>)
              PROVE  d \in Sound
  BY DEF Title
<1>1. s \in Sound /\ tui.resolved \in Instance
  BY StampedIsSound DEF TypeOK
<1>2. [s EXCEPT !.title = tui.resolved] \in Sound
  BY <1>1 DEF Sound, BranchConfig, Held, Truthful, Marker
<1>3. <<[s EXCEPT !.title = tui.resolved]>> \in Seq(Sound)
  BY <1>2
<1>. QED BY <1>1, <1>3, UptoIn

-----------------------------------------------------------------------------
(* The steps.                                                              *)

\* Leaving a branch one of a set of configurations disturbs no other branch.
LEMMA LeavesOne ==
  ASSUME NEW b \in Branches, config \in [Branches -> Sound], NEW results, Leaves(b, results)
  PROVE  /\ config'[b] \in results /\ config' = [config EXCEPT ![b] = config'[b]]
         /\ \A a \in Branches : a # b => config'[a] = config[a]
BY DEF Leaves

LEMMA ResolvedIsSound ==
  ASSUME Inv, NEW b \in Branches, NEW at
  PROVE  \A c \in Reconciled(at, b) : c \in Sound
<1>1. config[b] \in Sound
  BY DEF Inv
<1>2. Reconcile(config[b]) \in Seq(Sound)
  BY <1>1, ReconcileIsSound DEF Inv
<1>. QED BY <1>1, <1>2, UptoIn DEF Reconciled

LEMMA AdoptedIsSound ==
  ASSUME TypeOK, NEW c \in Sound
  PROVE  \A d \in Upto(c, Adopt(c)) : d \in Sound
BY AdoptIsSound, UptoIn

\* A command that leaves one branch sound.
LEMMA OneBranch ==
  ASSUME Inv, NEW b \in Branches, NEW results, \A c \in results : c \in Sound,
         Leaves(b, results), UNCHANGED <<origin, forge, tui, moves>>
  PROVE  Inv'
<1>1. config' = [config EXCEPT ![b] = config'[b]] /\ config'[b] \in Sound
  BY LeavesOne DEF Inv
<1>2. config' \in [Branches -> Sound]
  BY <1>1 DEF Inv
<1>. QED BY <1>2 DEF Inv, TypeOK, Sound

LEMMA InitInv == Init => Inv
<1>. SUFFICES ASSUME Init PROVE Inv
  OBVIOUS
<1>1. Bare \in Sound
  BY DEF Bare, Sound, BranchConfig, Held, Truthful
<1>2. TypeOK
  BY <1>1 DEF Init, TypeOK, Sound, Here, Instance
<1>. QED BY <1>1, <1>2 DEF Init, Inv

LEMMA StepInv == Inv /\ [Next]_vars => Inv'
<1>. SUFFICES ASSUME Inv, [Next]_vars PROVE Inv'
  OBVIOUS
<1>. USE DEF Inv
<1>1. CASE UNCHANGED vars
  BY <1>1 DEF vars, TypeOK, Sound, BranchConfig, Held, Truthful, Marker
<1>2. CASE OriginMoves \/ ForgeFlips
  BY <1>2 DEF OriginMoves, ForgeFlips, TypeOK, Sound
<1>3. CASE TuiLists
  <2>1. config' \in [Branches -> Sound]
    <3>1. CASE Main \in Branches
      <4>1. config' = [config EXCEPT ![Main] = config'[Main]] /\ config'[Main] \in Sound
        BY <1>3, <3>1, ResolvedIsSound, LeavesOne DEF TuiLists
      <4>. QED BY <4>1
    <3>2. CASE Main \notin Branches
      BY <1>3, <3>2 DEF TuiLists
    <3>. QED BY <3>1, <3>2
  <2>2. ASSUME NEW b \in Branches PROVE Read(b, config'[b]).issue \in Numbers \cup {Nothing}
    <3>1. config'[b].issue \in Held /\ BranchIssue[b] \in Numbers \cup {Nothing}
      BY <2>1, LinkAssumption DEF Sound, BranchConfig
    <3>2. \A item \in Held : item # Nothing => item.number \in Numbers
      BY DEF Held, Item
    <3>. QED BY <3>1, <3>2 DEF Read
  <2>. QED BY <1>3, <2>1, <2>2 DEF TuiLists, TypeOK, Sound, Here, Instance
<1>4. ASSUME NEW n \in Numbers, TuiLands(n) PROVE Inv'
  <2>1. config' \in [Branches -> Sound]
    <3>1. /\ DOMAIN config' = Branches /\ config' = [b \in Branches |-> config'[b]]
          /\ \A b \in Branches : config'[b] \in IF tui.listed[b] = n THEN Title(config[b]) ELSE {config[b]}
      BY <1>4 DEF TuiLands
    <3>2. ASSUME NEW b \in Branches PROVE config'[b] \in Sound
      BY <3>1, TitleIsSound
    <3>. QED BY <3>1, <3>2
  <2>. QED BY <1>4, <2>1 DEF TuiLands, TypeOK, Sound
<1>5. ASSUME NEW b \in Branches, Status(b) PROVE Inv'
  <2>1. PICK c \in Reconciled(b, b) : Leaves(b, Upto(c, Adopt(c)))
    BY <1>5 DEF Status
  <2>2. \A d \in Upto(c, Adopt(c)) : d \in Sound
    BY ResolvedIsSound, AdoptedIsSound
  <2>. QED BY <1>5, <2>1, <2>2, OneBranch DEF Status
<1>6. ASSUME NEW b \in Branches, Unlink(b) PROVE Inv'
  <2>1. \A d \in UnlinkIssue(config[b]) \cup UnlinkPr(config[b]) : d \in Sound
    BY UnlinksAreSound
  <2>. QED BY <1>6, <2>1, OneBranch DEF Unlink
<1>7. ASSUME NEW b \in Branches, NEW at, NEW n \in Numbers, Link(b, at, n) PROVE Inv'
  <2>1. PICK c \in Reconciled(at, b) : Leaves(b, LinkIssue(c, n) \cup LinkPr(c, n))
    BY <1>7 DEF Link
  <2>2. \A d \in LinkIssue(c, n) \cup LinkPr(c, n) : d \in Sound
    BY ResolvedIsSound, LinksAreSound
  <2>. QED BY <1>7, <2>1, <2>2, OneBranch DEF Link
<1>8. ASSUME NEW b \in Branches, NEW at, NEW n \in Numbers \cup {Nothing}, Probe(b, at, n) PROVE Inv'
  <2>1. PICK r \in Reconciled(at, b) : \E c \in Upto(r, Adopt(r)) : Leaves(b, Detect(c, n))
    BY <1>8 DEF Probe
  <2>2. PICK c \in Upto(r, Adopt(r)) : Leaves(b, Detect(c, n))
    BY <2>1
  <2>3. c \in Sound
    BY ResolvedIsSound, AdoptedIsSound
  <2>4. \A d \in Detect(c, n) : d \in Sound
    BY <2>3, LinksAreSound, UnlinksAreSound
  <2>. QED BY <1>8, <2>2, <2>4, OneBranch DEF Probe
<1>. QED BY <1>1, <1>2, <1>3, <1>4, <1>5, <1>6, <1>7, <1>8 DEF Next

LEMMA InvServes == Inv => ServesItsOwn
<1>. SUFFICES ASSUME Inv, NEW b \in Branches, NEW item \in ServedIn(b).served, item.marked, item.stamped
              PROVE  MayServe(item.of, Here)
  BY DEF ServesItsOwn
<1>. DEFINE c == config[b]
            d == After(c, Reconcile(c))
<1>1. c \in Sound /\ TypeOK
  BY DEF Inv
<1>. HIDE DEF c
<1>2. item \in {d.issue, d.pr, d.detected} /\ item # Nothing /\ ~ Foreign(d)
  BY DEF ServedIn, Read, c
<1>3. MarkedHere(c) /\ d = c
  BY <1>1, <1>2, ReconcileIsSound DEF After
<1>4. Truthful(c, item) /\ item \in Item
  BY <1>1, <1>2, <1>3 DEF Sound, BranchConfig, Held
<1>5. item.of.forge = forge
  <2>1. item.of.forge = Marker(c)
    BY <1>2, <1>4 DEF Truthful
  <2>2. Marker(c) = forge
    BY <1>1, <1>3, LinkAssumption DEF Marker, MarkedHere, TypeOK
  <2>. QED BY <2>1, <2>2
<1>6. item.of.origin = NoOrigin \/ origin = NoOrigin \/ item.of.origin = origin
  <2>1. item.of.origin # Nothing
    BY <1>4, LinkAssumption DEF Item, Instance
  <2>. QED BY <1>2, <1>3, <1>4, <2>1 DEF Truthful, Foreign
<1>. QED BY <1>5, <1>6 DEF MayServe, Here

\* A number stored for one repository of one backend, under its own stamp and marker, is
\* never served as a number of another, however often the remote and the backend moved and
\* wherever the writes of a command before were cut short (read_link_with,
\* stamp_link_origin, reconcile_link_forge).
THEOREM LinksAreServedRight == Spec => []LinkInv
<1>1. Inv => LinkInv
  BY InvServes DEF Inv, LinkInv
<1>. QED BY <1>1, InitInv, StepInv, PTL DEF Spec

-----------------------------------------------------------------------------
(* A link that is current stays.                                           *)

\* What has the number.
Keeps(key) == {c \in BranchConfig : c[key] # Nothing}

\* One stored under the marker and the stamp that are its own, for what the remote
\* stands for now.
Current(c, key) ==
  /\ c \in Sound /\ c[key] # Nothing
  /\ c[key].of = Here /\ c[key].marked /\ c[key].stamped

\* No stage before the command's own changes a configuration that has one.
LEMMA CurrentIsAtRest ==
  ASSUME TypeOK, NEW key \in {"issue", "pr"}, NEW c, Current(c, key)
  PROVE  /\ \A d \in Upto(c, Reconcile(c)) : d = c
         /\ \A d \in Upto(c, Adopt(c)) : d = c
         /\ \A d \in Stamped(c) : d = c
<1>1. c \in Sound /\ c[key] # Nothing /\ c[key].of = Here /\ Truthful(c, c[key])
  BY DEF Current, Sound
<1>2. c[key].of.forge = Marker(c) /\ (origin = NoOrigin \/ c.stamp = origin)
  BY <1>1 DEF Truthful, Here, Current
<1>3. MarkedHere(c)
  BY <1>1, <1>2, LinkAssumption DEF Marker, MarkedHere, TypeOK, Here
<1>4. Reconcile(c) = <<>>
  BY <1>3 DEF Reconcile
<1>5. Adopt(c) = <<>>
  <2>1. c.stamp = Nothing => origin = NoOrigin
    BY <1>2, LinkAssumption DEF TypeOK
  <2>. QED BY <2>1 DEF Adopt
<1>6. Stamp(c) \in {<<>>, <<c>>}
  <2>1. CASE origin = NoOrigin
    BY <2>1 DEF Stamp
  <2>2. CASE origin # NoOrigin
    <3>1. c.stamp = origin /\ [c EXCEPT !.stamp = origin] = c
      BY <1>1, <1>2, <2>2 DEF Sound, BranchConfig
    <3>2. Stamp(c) = Append(<<>>, c)
      BY <2>2, <3>1 DEF Stamp, After
    <3>. QED BY <3>2
  <2>. QED BY <2>1, <2>2
<1>7. ASSUME NEW writes \in {<<>>, <<c>>} PROVE \A d \in Upto(c, writes) : d = c
  <2>1. <<>> \in Seq({c}) /\ <<c>> \in Seq({c})
    OBVIOUS
  <2>2. c \in {c} /\ writes \in Seq({c})
    BY <2>1
  <2>3. \A d \in Upto(c, writes) : d \in {c}
    BY <2>2, UptoIn
  <2>. QED BY <2>3
<1>. QED BY <1>4, <1>5, <1>6, <1>7 DEF Stamped

\* No command that is no unlink takes it.
LEMMA CurrentIsKept ==
  ASSUME TypeOK, NEW key \in {"issue", "pr"}, NEW c, Current(c, key), NEW n \in Numbers
  PROVE  \A d \in LinkIssue(c, n) \cup LinkPr(c, n) \cup Detect(c, n) \cup Detect(c, Nothing) \cup Title(c) :
            d[key] # Nothing
<1>1. c \in Sound /\ c \in BranchConfig /\ c[key] # Nothing /\ c \in Keeps(key)
  BY DEF Current, Sound, Keeps
<1>2. New(c, n) # Nothing /\ n # Nothing /\ New(c, n) \in Held
  BY <1>1, NewIsSound, LinkAssumption DEF Held
<1>3. \A s \in Stamped(c) : s = c
  BY CurrentIsAtRest
<1>4. tui.resolved \in Instance
  BY DEF TypeOK
<1>. DEFINE i == [c EXCEPT !.issue = New(c, n)]
            t == [i EXCEPT !.title = Nothing]
            p == [c EXCEPT !.pr = New(c, n)]
            q == [c EXCEPT !.detected = New(c, n)]
            e == [c EXCEPT !.detected = Nothing]
            title == [c EXCEPT !.title = tui.resolved]
<1>5. /\ i \in Keeps(key) /\ t \in Keeps(key) /\ p \in Keeps(key)
      /\ q \in Keeps(key) /\ e \in Keeps(key) /\ title \in Keeps(key)
  <2>. DEFINE new == New(c, n)
  <2>. HIDE DEF new
  <2>1. new # Nothing /\ new \in Held /\ i = [c EXCEPT !.issue = new] /\ p = [c EXCEPT !.pr = new]
        /\ q = [c EXCEPT !.detected = new] /\ t = [c EXCEPT !.issue = new, !.title = Nothing]
    BY <1>2 DEF new
  <2>2. e \in Keeps(key) /\ title \in Keeps(key)
    BY <1>1, <1>4 DEF Keeps, BranchConfig, Held
  <2>. HIDE DEF i, p, q, t, e, title
  <2>3. i \in Keeps(key) /\ p \in Keeps(key) /\ q \in Keeps(key)
    BY <1>1, <2>1 DEF Keeps, BranchConfig, Held
  <2>4. t \in Keeps(key)
    BY <1>1, <2>1 DEF Keeps, BranchConfig, Held
  <2>. QED BY <2>2, <2>3, <2>4
<1>6. ASSUME NEW d \in LinkIssue(c, n) \cup LinkPr(c, n) \cup Detect(c, n) \cup Detect(c, Nothing) \cup Title(c)
      PROVE  \E writes \in {<<i, t>>, <<p>>, <<q>>, <<e>>, <<title>>} : d \in Upto(c, writes)
  <2>1. ASSUME d \in LinkIssue(c, n) PROVE d \in Upto(c, <<i, t>>)
    BY <1>3, <2>1 DEF LinkIssue
  <2>2. ASSUME d \in LinkPr(c, n) PROVE d \in Upto(c, <<p>>)
    BY <1>3, <2>2 DEF LinkPr
  <2>3. ASSUME d \in Detect(c, n) PROVE d \in Upto(c, <<q>>)
    BY <1>2, <1>3, <2>3 DEF Detect
  <2>4. ASSUME d \in Detect(c, Nothing) PROVE d \in Upto(c, <<e>>)
    BY <2>4 DEF Detect
  <2>5. ASSUME d \in Title(c) PROVE d \in Upto(c, <<title>>)
    BY <1>3, <2>5 DEF Title
  <2>. HIDE DEF i, t, p, q, e, title
  <2>. QED BY <1>6, <2>1, <2>2, <2>3, <2>4, <2>5
<1>. HIDE DEF i, t, p, q, e, title
<1>7. /\ <<i, t>> \in Seq(Keeps(key)) /\ <<p>> \in Seq(Keeps(key)) /\ <<q>> \in Seq(Keeps(key))
      /\ <<e>> \in Seq(Keeps(key)) /\ <<title>> \in Seq(Keeps(key))
  BY <1>5
<1>8. \A writes \in {<<i, t>>, <<p>>, <<q>>, <<e>>, <<title>>} : \A d \in Upto(c, writes) : d \in Keeps(key)
  BY <1>1, <1>7, UptoIn
<1>. QED BY <1>6, <1>8 DEF Keeps

LEMMA NoCurrentIsTaken ==
  ASSUME Inv, Next, NEW b \in Branches, NEW key \in {"issue", "pr"}, Current(config[b], key),
         ~ Unlink(b)
  PROVE  config'[b][key] # Nothing
<1>1. TypeOK /\ config \in [Branches -> Sound] /\ config[b][key] # Nothing
  BY DEF Inv, Current
<1>2. config'[b] = config[b] => config'[b][key] # Nothing
  BY <1>1
<1>3. \A at : \A c \in Reconciled(at, b) : c = config[b]
  BY <1>1, CurrentIsAtRest DEF Reconciled
<1>4. PICK m : m \in Numbers
  BY <1>1 DEF Current, Sound, BranchConfig, Held, Item
<1>5. ASSUME NEW a \in Branches, NEW results, Leaves(a, results), a # b
      PROVE  config'[b] = config[b]
  BY <1>1, <1>5, LeavesOne
<1>6. ASSUME NEW results, Leaves(b, results), \A d \in results : d[key] # Nothing
      PROVE  config'[b][key] # Nothing
  BY <1>1, <1>6, LeavesOne
<1>7. CASE OriginMoves \/ ForgeFlips
  BY <1>2, <1>7 DEF OriginMoves, ForgeFlips
<1>8. CASE TuiLists
  <2>1. CASE Main \notin Branches
    BY <1>2, <1>8, <2>1 DEF TuiLists
  <2>2. CASE Main \in Branches
    <3>1. Leaves(Main, Reconciled(Main, Main))
      BY <1>8, <2>2 DEF TuiLists
    <3>2. CASE Main = b
      BY <1>1, <1>3, <1>6, <3>1, <3>2
    <3>3. CASE Main # b
      BY <1>2, <1>5, <2>2, <3>1, <3>3
    <3>. QED BY <3>2, <3>3
  <2>. QED BY <2>1, <2>2
<1>9. ASSUME NEW n \in Numbers, TuiLands(n) PROVE config'[b][key] # Nothing
  <2>1. config'[b] \in IF tui.listed[b] = n THEN Title(config[b]) ELSE {config[b]}
    BY <1>9 DEF TuiLands
  <2>2. \A d \in Title(config[b]) : d[key] # Nothing
    BY <1>1, <1>9, CurrentIsKept
  <2>. QED BY <1>2, <2>1, <2>2
<1>10. ASSUME NEW a \in Branches, Status(a) PROVE config'[b][key] # Nothing
  <2>1. PICK c \in Reconciled(a, a) : Leaves(a, Upto(c, Adopt(c)))
    BY <1>10 DEF Status
  <2>2. CASE a # b
    BY <1>2, <1>5, <2>1, <2>2
  <2>3. CASE a = b
    BY <1>1, <1>3, <1>6, <2>1, <2>3, CurrentIsAtRest
  <2>. QED BY <2>2, <2>3
<1>11. ASSUME NEW a \in Branches, Unlink(a) PROVE config'[b][key] # Nothing
  BY <1>2, <1>5, <1>11 DEF Unlink
<1>12. ASSUME NEW a \in Branches, NEW at, NEW n \in Numbers, Link(a, at, n) PROVE config'[b][key] # Nothing
  <2>1. PICK c \in Reconciled(at, a) : Leaves(a, LinkIssue(c, n) \cup LinkPr(c, n))
    BY <1>12 DEF Link
  <2>2. CASE a # b
    BY <1>2, <1>5, <2>1, <2>2
  <2>3. CASE a = b
    BY <1>1, <1>3, <1>6, <2>1, <2>3, CurrentIsKept
  <2>. QED BY <2>2, <2>3
<1>13. ASSUME NEW a \in Branches, NEW at, NEW n \in Numbers \cup {Nothing}, Probe(a, at, n)
       PROVE  config'[b][key] # Nothing
  <2>1. PICK r \in Reconciled(at, a) : \E c \in Upto(r, Adopt(r)) : Leaves(a, Detect(c, n))
    BY <1>13 DEF Probe
  <2>2. PICK c \in Upto(r, Adopt(r)) : Leaves(a, Detect(c, n))
    BY <2>1
  <2>3. CASE a # b
    BY <1>2, <1>5, <2>2, <2>3
  <2>4. CASE a = b
    <3>1. c = config[b]
      BY <1>1, <1>3, <2>4, CurrentIsAtRest
    <3>2. \A d \in Detect(c, n) : d[key] # Nothing
      BY <1>1, <1>4, <3>1, CurrentIsKept
    <3>. QED BY <1>6, <2>2, <2>4, <3>2
  <2>. QED BY <2>3, <2>4
<1>. QED BY <1>7, <1>8, <1>9, <1>10, <1>11, <1>12, <1>13 DEF Next

\* A link that is current, made under the marker of its backend and the stamp of its
\* origin, goes by an unlink of its branch only: no purge takes it, whatever was cut
\* short before (stamp_link_origin, reconcile_link_forge).
THEOREM CurrentLinksStay == Spec => LinksAreKept
<1>. DEFINE Stays == \A b \in Branches : \A key \in {"issue", "pr"} :
          ( /\ config[b][key] # Nothing
            /\ config[b][key].of = Here /\ config[b][key].marked /\ config[b][key].stamped
            /\ config'[b][key] = Nothing ) => Unlink(b)
<1>1. Inv /\ Next => Stays
  <2>1. Inv => \A b \in Branches : config[b] \in Sound
    BY DEF Inv
  <2>. QED BY <2>1, NoCurrentIsTaken DEF Current
<1>2. Inv /\ [Next]_vars => Stays \/ UNCHANGED vars
  BY <1>1
<1>. HIDE DEF Stays
<1>3. Spec => [][Stays]_vars
  BY <1>2, InitInv, StepInv, PTL DEF Spec
<1>. QED BY <1>3 DEF LinksAreKept, Stays

=============================================================================
