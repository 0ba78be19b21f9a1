--------------------------- MODULE HousekeepingProofs ---------------------------
(***************************************************************************)
(* Proofs about Housekeeping, for any branches, suffixes and command       *)
(* lines: that a `when` expression, however long, evaluates to what it     *)
(* means; that executable_in finds the program a shell would run; and,     *)
(* while nobody else is at work during a fix, that --fix tells what it     *)
(* did and that a doctor that finds no problem has looked at everything.   *)
(***************************************************************************)
EXTENDS Housekeeping, FiniteSetTheorems, TLAPS

\* What is looked after is finite, and so are the bounds.
Bounded == IsFiniteSet(Kept) /\ IsFiniteSet(Suffixes) /\ {MaxHands, MaxWhen} \subseteq Nat

LEMMA Counted ==
  ASSUME NEW T \in SUBSET Nat, 0 \in T, \A n \in T : n + 1 \in T
  PROVE  T = Nat
<1>. SUFFICES ASSUME NEW m \in Nat, m \notin T PROVE FALSE
  OBVIOUS
<1>. DEFINE f == [i \in 0 .. m |-> IF i \in T THEN i + 1 ELSE i]
<1>1. f \in [0 .. m -> 0 .. m]
  OBVIOUS
<1>2. f \in Injection(0 .. m, 0 .. m)
  <2>1. \A a, b \in 0 .. m : f[a] = f[b] => a = b
    OBVIOUS
  <2>. QED BY <1>1, <2>1 DEF Injection, IsInjective
<1>3. IsFiniteSet(0 .. m)
  BY FS_Interval
<1>4. f \in Surjection(0 .. m, 0 .. m)
  BY <1>2, <1>3, FS_Injection
<1>5. \A i \in 0 .. m : f[i] # 0
  OBVIOUS
<1>. HIDE DEF f
<1>. QED BY <1>4, <1>5 DEF Surjection

-----------------------------------------------------------------------------
(* The parser of `when` expressions, at any length.  Each of its functions goes on
   to later tokens only; so it exists, by induction from the end.          *)

Res(n) == [val : BOOLEAN, pos : 1 .. n + 1]

\* At the places of goes the value is made of a later one, elsewhere it is given.
GoesOn(n, R, base, goes, on, f) ==
  /\ base \in [1 .. n + 1 -> R]
  /\ goes \subseteq 1 .. n + 1 /\ \A i \in goes : on[i] \in i + 1 .. n + 1
  /\ \A i \in goes : f[i] \in [R -> R]

LEMMA ThereIsOne ==
  ASSUME NEW n \in Nat, NEW R, NEW base, NEW goes, NEW on, NEW f, GoesOn(n, R, base, goes, on, f)
  PROVE  \E h \in [1 .. n + 1 -> R] :
            \A i \in 1 .. n + 1 : h[i] = IF i \in goes THEN f[i][h[on[i]]] ELSE base[i]
<1>. DEFINE Made(h, m) == \A i \in m .. n + 1 : h[i] = IF i \in goes THEN f[i][h[on[i]]] ELSE base[i]
            T == {m \in Nat : m <= n + 1 => \E h \in [n + 2 - m .. n + 1 -> R] : Made(h, n + 2 - m)}
<1>1. 0 \in T
  <2>1. n + 2 - 0 .. n + 1 = {}
    OBVIOUS
  <2>2. \E h \in [{} -> R] : TRUE
    <3>1. [i \in {} |-> 0] \in [{} -> R]
      OBVIOUS
    <3>. QED BY <3>1
  <2>3. PICK h \in [{} -> R] : TRUE
    BY <2>2
  <2>4. Made(h, n + 2 - 0)
    BY <2>1
  <2>. HIDE DEF Made
  <2>. QED BY <2>1, <2>4
<1>2. ASSUME NEW m \in T PROVE m + 1 \in T
  <2>. SUFFICES ASSUME m + 1 <= n + 1
                PROVE  \E h \in [n + 1 - m .. n + 1 -> R] : Made(h, n + 1 - m)
    <3>1. n + 2 - (m + 1) = n + 1 - m /\ m + 1 \in Nat
      OBVIOUS
    <3>. HIDE DEF Made
    <3>. QED BY <3>1
  <2>1. PICK h \in [n + 2 - m .. n + 1 -> R] : Made(h, n + 2 - m)
    OBVIOUS
  <2>. DEFINE k == n + 1 - m
              v == IF k \in goes THEN f[k][h[on[k]]] ELSE base[k]
              g == [i \in k .. n + 1 |-> IF i = k THEN v ELSE h[i]]
  <2>2. k \in 1 .. n + 1 /\ n + 2 - m = k + 1
    OBVIOUS
  <2>. HIDE DEF k
  <2>3. k \in goes => on[k] \in k + 1 .. n + 1
    BY DEF GoesOn
  <2>4. v \in R
    <3>1. CASE k \in goes
      <4>1. h[on[k]] \in R
        BY <2>2, <2>3, <3>1
      <4>. QED BY <3>1, <4>1 DEF GoesOn
    <3>2. CASE k \notin goes
      BY <2>2, <3>2 DEF GoesOn
    <3>. QED BY <3>1, <3>2
  <2>. HIDE DEF v
  <2>5. g \in [k .. n + 1 -> R]
    <3>1. \A i \in k .. n + 1 : i = k \/ i \in k + 1 .. n + 1
      BY <2>2
    <3>. QED BY <2>2, <2>4, <3>1
  <2>6. g[k] = v /\ \A i \in k + 1 .. n + 1 : g[i] = h[i]
    BY <2>2
  <2>. HIDE DEF g
  <2>7. ASSUME NEW i \in k .. n + 1 PROVE g[i] = IF i \in goes THEN f[i][g[on[i]]] ELSE base[i]
    <3>1. CASE i = k
      BY <2>3, <2>6, <3>1 DEF v
    <3>2. CASE i # k
      <4>1. i \in k + 1 .. n + 1
        BY <2>2, <3>2
      <4>2. i \in goes => on[i] \in k + 1 .. n + 1
        BY <2>2, <4>1 DEF GoesOn
      <4>3. h[i] = IF i \in goes THEN f[i][h[on[i]]] ELSE base[i]
        BY <2>1, <2>2, <4>1
      <4>. QED BY <2>6, <4>1, <4>2, <4>3
    <3>. QED BY <3>1, <3>2
  <2>. QED BY <2>5, <2>7 DEF k
<1>3. T \in SUBSET Nat
  OBVIOUS
<1>4. n + 1 \in T
  <2>. HIDE DEF T
  <2>. QED BY <1>1, <1>2, <1>3, Counted
<1>5. n + 2 - (n + 1) = 1 /\ n + 1 <= n + 1 /\ n + 1 \in Nat
  OBVIOUS
<1>6. \E h \in [1 .. n + 1 -> R] : Made(h, 1)
  <2>. HIDE DEF Made
  <2>. QED BY <1>4, <1>5
<1>. QED BY <1>6

\* And any that there is has the values that one expects.
PlacesKept(n, base, goes, f) ==
  /\ \A i \in 1 .. n + 1 : base[i].pos >= i
  /\ \A i \in goes, r \in Res(n) : f[i][r].pos = r.pos

LEMMA EachIsTyped ==
  ASSUME NEW n \in Nat, NEW base, NEW goes, NEW on, NEW f, GoesOn(n, Res(n), base, goes, on, f),
         PlacesKept(n, base, goes, f), NEW h,
         \A i \in 1 .. n + 1 : IF i \in goes THEN h[on[i]] \in Res(n) => h[i] = f[i][h[on[i]]]
                               ELSE h[i] = base[i]
  PROVE  \A i \in 1 .. n + 1 : h[i] \in Res(n) /\ h[i].pos >= i
<1>. DEFINE T == {m \in Nat : \A i \in 1 .. n + 1 : n + 1 - i <= m => h[i] \in Res(n) /\ h[i].pos >= i}
<1>1. ASSUME NEW i \in 1 .. n + 1, \A k \in i + 1 .. n + 1 : h[k] \in Res(n) /\ h[k].pos >= k
      PROVE  h[i] \in Res(n) /\ h[i].pos >= i
  <2>1. CASE i \in goes
    <3>1. on[i] \in i + 1 .. n + 1
      BY <2>1 DEF GoesOn
    <3>2. h[on[i]] \in Res(n) /\ h[on[i]].pos >= on[i] /\ h[i] = f[i][h[on[i]]]
      BY <1>1, <2>1, <3>1
    <3>3. h[i] \in Res(n) /\ h[i].pos = h[on[i]].pos
      BY <2>1, <3>2 DEF GoesOn, PlacesKept
    <3>4. h[on[i]].pos \in Nat
      BY <3>2 DEF Res
    <3>. QED BY <3>1, <3>2, <3>3, <3>4
  <2>2. CASE i \notin goes
    BY <2>2 DEF GoesOn, PlacesKept
  <2>. QED BY <2>1, <2>2
<1>2. 0 \in T
  <2>1. ASSUME NEW i \in 1 .. n + 1, n + 1 - i <= 0 PROVE h[i] \in Res(n) /\ h[i].pos >= i
    <3>1. i = n + 1 /\ \A k \in i + 1 .. n + 1 : FALSE
      BY <2>1
    <3>. QED BY <1>1, <3>1
  <2>. QED BY <2>1
<1>3. ASSUME NEW m \in T PROVE m + 1 \in T
  <2>1. ASSUME NEW i \in 1 .. n + 1, n + 1 - i <= m + 1 PROVE h[i] \in Res(n) /\ h[i].pos >= i
    <3>1. \A k \in i + 1 .. n + 1 : k \in 1 .. n + 1 /\ n + 1 - k <= m
      BY <2>1
    <3>. QED BY <1>1, <3>1
  <2>. QED BY <2>1
<1>4. T \in SUBSET Nat
  OBVIOUS
<1>5. \A i \in 1 .. n + 1 : n + 1 - i <= n + 1 /\ n + 1 \in Nat
  OBVIOUS
<1>6. n + 1 \in T
  <2>. HIDE DEF T
  <2>. QED BY <1>2, <1>3, <1>4, Counted
<1>. QED BY <1>5, <1>6
-----------------------------------------------------------------------------
\* The functions of Parse, by name.
IsAt(t, i, token) == i <= Len(t) /\ t[i] = token
AtomAt(t, i) ==
  IF i <= Len(t) /\ t[i] \in Atoms THEN [val |-> EvalAtom(t[i]), pos |-> i + 1] ELSE [val |-> TRUE, pos |-> i]
IsNot(t, h) ==
  h = [i \in 1 .. Len(t) + 1 |-> IF IsAt(t, i, "not") THEN [h[i + 1] EXCEPT !.val = ~ @] ELSE AtomAt(t, i)]
NotOf(t) == CHOOSE h : IsNot(t, h)
IsAnd(t, h) ==
  h = [i \in 1 .. Len(t) + 1 |->
         IF IsAt(t, NotOf(t)[i].pos, "and")
           THEN [h[NotOf(t)[i].pos + 1] EXCEPT !.val = NotOf(t)[i].val /\ @] ELSE NotOf(t)[i]]
AndOf(t) == CHOOSE h : IsAnd(t, h)
IsOr(t, h) ==
  h = [i \in 1 .. Len(t) + 1 |->
         IF IsAt(t, AndOf(t)[i].pos, "or")
           THEN [h[AndOf(t)[i].pos + 1] EXCEPT !.val = AndOf(t)[i].val \/ @] ELSE AndOf(t)[i]]
OrOf(t) == CHOOSE h : IsOr(t, h)

LEMMA ParseIs == ASSUME NEW t PROVE Parse(t) = OrOf(t)[1].val
BY Zenon DEF Parse, OrOf, IsOr, AndOf, IsAnd, NotOf, IsNot, IsAt, AtomAt

LEMMA NotExists ==
  ASSUME NEW t \in Seq(Tokens)
  PROVE  /\ IsNot(t, NotOf(t))
         /\ \A i \in 1 .. Len(t) + 1 : NotOf(t)[i] \in Res(Len(t)) /\ NotOf(t)[i].pos >= i
<1>. DEFINE n == Len(t)
            goes == {i \in 1 .. n + 1 : IsAt(t, i, "not")}
            on == [i \in 1 .. n + 1 |-> i + 1]
            f == [i \in 1 .. n + 1 |-> [r \in Res(n) |-> [r EXCEPT !.val = ~ @]]]
            base == [i \in 1 .. n + 1 |-> IF i \in goes THEN [val |-> TRUE, pos |-> i] ELSE AtomAt(t, i)]
<1>1. n \in Nat
  OBVIOUS
<1>2. GoesOn(n, Res(n), base, goes, on, f) /\ PlacesKept(n, base, goes, f)
  <2>1. base \in [1 .. n + 1 -> Res(n)] /\ \A i \in 1 .. n + 1 : base[i].pos >= i
    BY <1>1 DEF AtomAt, Res, EvalAtom
  <2>2. goes \subseteq 1 .. n + 1 /\ \A i \in goes : on[i] \in i + 1 .. n + 1
    BY <1>1 DEF IsAt
  <2>3. \A i \in 1 .. n + 1 : f[i] \in [Res(n) -> Res(n)] /\ \A r \in Res(n) : f[i][r].pos = r.pos
    BY DEF Res
  <2>. HIDE DEF base, goes, on, f
  <2>. QED BY <2>1, <2>2, <2>3 DEF GoesOn, PlacesKept
<1>3. PICK h \in [1 .. n + 1 -> Res(n)] :
        \A i \in 1 .. n + 1 : h[i] = IF i \in goes THEN f[i][h[on[i]]] ELSE base[i]
  <2>. HIDE DEF base, goes, on, f, n
  <2>. QED BY <1>1, <1>2, ThereIsOne
<1>4. IsNot(t, h)
  <2>1. ASSUME NEW i \in 1 .. n + 1
        PROVE  h[i] = IF IsAt(t, i, "not") THEN [h[i + 1] EXCEPT !.val = ~ @] ELSE AtomAt(t, i)
    <3>1. CASE IsAt(t, i, "not")
      <4>1. i \in goes /\ on[i] = i + 1 /\ i + 1 \in 1 .. n + 1
        BY <1>2, <3>1 DEF IsAt
      <4>2. h[i] = f[i][h[i + 1]] /\ h[i + 1] \in Res(n)
        BY <1>3, <4>1
      <4>. QED BY <3>1, <4>2
    <3>2. CASE ~ IsAt(t, i, "not")
      BY <1>3, <3>2
    <3>. QED BY <3>1, <3>2
  <2>. QED BY <2>1 DEF IsNot
<1>5. IsNot(t, NotOf(t))
  BY <1>4, Zenon DEF NotOf
<1>6. \A i \in 1 .. n + 1 : NotOf(t)[i] =
        IF IsAt(t, i, "not") THEN [NotOf(t)[i + 1] EXCEPT !.val = ~ @] ELSE AtomAt(t, i)
  BY <1>5 DEF IsNot
<1>7. \A i \in 1 .. n + 1 : IF i \in goes THEN NotOf(t)[on[i]] \in Res(n) => NotOf(t)[i] = f[i][NotOf(t)[on[i]]]
                             ELSE NotOf(t)[i] = base[i]
  BY <1>6
<1>8. \A i \in 1 .. n + 1 : NotOf(t)[i] \in Res(n) /\ NotOf(t)[i].pos >= i
  <2>. HIDE DEF base, goes, on, f, n
  <2>. QED BY <1>1, <1>2, <1>7, EachIsTyped
<1>. QED BY <1>5, <1>8
LEMMA AndExists ==
  ASSUME NEW t \in Seq(Tokens)
  PROVE  /\ IsAnd(t, AndOf(t))
         /\ \A i \in 1 .. Len(t) + 1 : AndOf(t)[i] \in Res(Len(t)) /\ AndOf(t)[i].pos >= i
<1>. DEFINE n == Len(t)
            l == NotOf(t)
            goes == {i \in 1 .. n + 1 : IsAt(t, l[i].pos, "and")}
            on == [i \in 1 .. n + 1 |-> l[i].pos + 1]
            f == [i \in 1 .. n + 1 |-> [r \in Res(n) |-> [r EXCEPT !.val = l[i].val /\ @]]]
            base == [i \in 1 .. n + 1 |-> l[i]]
<1>1. n \in Nat /\ \A i \in 1 .. n + 1 : l[i] \in Res(n) /\ l[i].pos >= i
  BY NotExists
<1>. HIDE DEF l
<1>2. \A i \in goes : on[i] \in i + 1 .. n + 1
  BY <1>1 DEF IsAt, Res
<1>3. GoesOn(n, Res(n), base, goes, on, f) /\ PlacesKept(n, base, goes, f)
  <2>1. base \in [1 .. n + 1 -> Res(n)] /\ \A i \in 1 .. n + 1 : base[i].pos >= i
    BY <1>1
  <2>2. goes \subseteq 1 .. n + 1
    OBVIOUS
  <2>3. \A i \in 1 .. n + 1 : f[i] \in [Res(n) -> Res(n)] /\ \A r \in Res(n) : f[i][r].pos = r.pos
    BY <1>1 DEF Res
  <2>. HIDE DEF base, goes, on, f
  <2>. QED BY <1>2, <2>1, <2>2, <2>3 DEF GoesOn, PlacesKept
<1>4. PICK h \in [1 .. n + 1 -> Res(n)] :
        \A i \in 1 .. n + 1 : h[i] = IF i \in goes THEN f[i][h[on[i]]] ELSE base[i]
  <2>. HIDE DEF base, goes, on, f, n
  <2>1. n \in Nat /\ GoesOn(n, Res(n), base, goes, on, f)
    BY <1>1, <1>3
  <2>. QED BY <2>1, ThereIsOne
<1>5. IsAnd(t, h)
  <2>1. ASSUME NEW i \in 1 .. n + 1
        PROVE  h[i] = IF IsAt(t, l[i].pos, "and") THEN [h[l[i].pos + 1] EXCEPT !.val = l[i].val /\ @] ELSE l[i]
    <3>1. CASE IsAt(t, l[i].pos, "and")
      <4>1. i \in goes /\ on[i] = l[i].pos + 1 /\ l[i].pos + 1 \in 1 .. n + 1
        BY <1>2, <3>1
      <4>2. h[i] = f[i][h[l[i].pos + 1]] /\ h[l[i].pos + 1] \in Res(n)
        BY <1>4, <4>1
      <4>. QED BY <3>1, <4>2
    <3>2. CASE ~ IsAt(t, l[i].pos, "and")
      BY <1>4, <3>2
    <3>. QED BY <3>1, <3>2
  <2>. QED BY <2>1 DEF IsAnd, l
<1>6. IsAnd(t, AndOf(t))
  BY <1>5, Zenon DEF AndOf
<1>7. \A i \in 1 .. n + 1 : AndOf(t)[i] =
        IF IsAt(t, l[i].pos, "and") THEN [AndOf(t)[l[i].pos + 1] EXCEPT !.val = l[i].val /\ @] ELSE l[i]
  BY <1>6 DEF IsAnd, l
<1>8. \A i \in 1 .. n + 1 : IF i \in goes THEN AndOf(t)[on[i]] \in Res(n) => AndOf(t)[i] = f[i][AndOf(t)[on[i]]]
                             ELSE AndOf(t)[i] = base[i]
  BY <1>7
<1>9. \A i \in 1 .. n + 1 : AndOf(t)[i] \in Res(n) /\ AndOf(t)[i].pos >= i
  <2>. HIDE DEF base, goes, on, f, n
  <2>. QED BY <1>1, <1>3, <1>8, EachIsTyped
<1>. QED BY <1>6, <1>9

LEMMA OrExists ==
  ASSUME NEW t \in Seq(Tokens)
  PROVE  /\ IsOr(t, OrOf(t))
         /\ \A i \in 1 .. Len(t) + 1 : OrOf(t)[i] \in Res(Len(t)) /\ OrOf(t)[i].pos >= i
<1>. DEFINE n == Len(t)
            l == AndOf(t)
            goes == {i \in 1 .. n + 1 : IsAt(t, l[i].pos, "or")}
            on == [i \in 1 .. n + 1 |-> l[i].pos + 1]
            f == [i \in 1 .. n + 1 |-> [r \in Res(n) |-> [r EXCEPT !.val = l[i].val \/ @]]]
            base == [i \in 1 .. n + 1 |-> l[i]]
<1>1. n \in Nat /\ \A i \in 1 .. n + 1 : l[i] \in Res(n) /\ l[i].pos >= i
  BY AndExists
<1>. HIDE DEF l
<1>2. \A i \in goes : on[i] \in i + 1 .. n + 1
  BY <1>1 DEF IsAt, Res
<1>3. GoesOn(n, Res(n), base, goes, on, f) /\ PlacesKept(n, base, goes, f)
  <2>1. base \in [1 .. n + 1 -> Res(n)] /\ \A i \in 1 .. n + 1 : base[i].pos >= i
    BY <1>1
  <2>2. goes \subseteq 1 .. n + 1
    OBVIOUS
  <2>3. \A i \in 1 .. n + 1 : f[i] \in [Res(n) -> Res(n)] /\ \A r \in Res(n) : f[i][r].pos = r.pos
    BY <1>1 DEF Res
  <2>. HIDE DEF base, goes, on, f
  <2>. QED BY <1>2, <2>1, <2>2, <2>3 DEF GoesOn, PlacesKept
<1>4. PICK h \in [1 .. n + 1 -> Res(n)] :
        \A i \in 1 .. n + 1 : h[i] = IF i \in goes THEN f[i][h[on[i]]] ELSE base[i]
  <2>. HIDE DEF base, goes, on, f, n
  <2>1. n \in Nat /\ GoesOn(n, Res(n), base, goes, on, f)
    BY <1>1, <1>3
  <2>. QED BY <2>1, ThereIsOne
<1>5. IsOr(t, h)
  <2>1. ASSUME NEW i \in 1 .. n + 1
        PROVE  h[i] = IF IsAt(t, l[i].pos, "or") THEN [h[l[i].pos + 1] EXCEPT !.val = l[i].val \/ @] ELSE l[i]
    <3>1. CASE IsAt(t, l[i].pos, "or")
      <4>1. i \in goes /\ on[i] = l[i].pos + 1 /\ l[i].pos + 1 \in 1 .. n + 1
        BY <1>2, <3>1
      <4>2. h[i] = f[i][h[l[i].pos + 1]] /\ h[l[i].pos + 1] \in Res(n)
        BY <1>4, <4>1
      <4>. QED BY <3>1, <4>2
    <3>2. CASE ~ IsAt(t, l[i].pos, "or")
      BY <1>4, <3>2
    <3>. QED BY <3>1, <3>2
  <2>. QED BY <2>1 DEF IsOr, l
<1>6. IsOr(t, OrOf(t))
  BY <1>5, Zenon DEF OrOf
<1>7. \A i \in 1 .. n + 1 : OrOf(t)[i] =
        IF IsAt(t, l[i].pos, "or") THEN [OrOf(t)[l[i].pos + 1] EXCEPT !.val = l[i].val \/ @] ELSE l[i]
  BY <1>6 DEF IsOr, l
<1>8. \A i \in 1 .. n + 1 : IF i \in goes THEN OrOf(t)[on[i]] \in Res(n) => OrOf(t)[i] = f[i][OrOf(t)[on[i]]]
                             ELSE OrOf(t)[i] = base[i]
  BY <1>7
<1>9. \A i \in 1 .. n + 1 : OrOf(t)[i] \in Res(n) /\ OrOf(t)[i].pos >= i
  <2>. HIDE DEF base, goes, on, f, n
  <2>. QED BY <1>1, <1>3, <1>8, EachIsTyped
<1>. QED BY <1>6, <1>9
-----------------------------------------------------------------------------
\* What an expression that is one looks like, token by token.
Operand(t, i) == i \in 1 .. Len(t) /\ t[i] \notin {"and", "or"}
Orderly(t) ==
  /\ t \in Seq(Tokens) /\ Len(t) \in Nat \ {0}
  /\ t[Len(t)] \in Atoms /\ Operand(t, 1)
  /\ \A i \in 1 .. Len(t) : t[i] \in Atoms \cup {"not", "and", "or"}
  /\ \A i \in 1 .. Len(t) - 1 : t[i] \in Atoms <=> t[i + 1] \in {"and", "or"}

LEMMA WellFormedIsOrderly ==
  ASSUME NEW t \in Seq(Tokens), WellFormed(t)
  PROVE  Orderly(t)
<1>1. Len(t) \in Nat \ {0} /\ DOMAIN t = 1 .. Len(t)
  BY DEF WellFormed
<1>2. \A i \in 1 .. Len(t) : t[i] \in Atoms \cup {"not", "and", "or"}
  BY <1>1 DEF Tokens
<1>3. \A i \in 1 .. Len(t) : LET last == IF i = 1 THEN "or" ELSE t[i - 1]
                             IN  IF t[i] \in {"and", "or"} THEN last \in Atoms ELSE last \notin Atoms
  BY <1>1 DEF WellFormed
<1>4. Operand(t, 1)
  <2>1. IF t[1] \in {"and", "or"} THEN "or" \in Atoms ELSE TRUE
    BY <1>1, <1>3
  <2>. QED BY <1>1, <2>1 DEF Operand, Atoms, Safe
<1>5. \A i \in 1 .. Len(t) - 1 : t[i] \in Atoms <=> t[i + 1] \in {"and", "or"}
  <2>. SUFFICES ASSUME NEW i \in 1 .. Len(t) - 1 PROVE t[i] \in Atoms <=> t[i + 1] \in {"and", "or"}
    OBVIOUS
  <2>1. i + 1 \in 1 .. Len(t) /\ i + 1 # 1 /\ (i + 1) - 1 = i
    BY <1>1
  <2>2. IF t[i + 1] \in {"and", "or"} THEN t[i] \in Atoms ELSE t[i] \notin Atoms
    BY <1>3, <2>1
  <2>. QED BY <2>2
<1>6. t[Len(t)] \in Atoms
  BY DEF WellFormed
<1>. QED BY <1>1, <1>2, <1>4, <1>5, <1>6 DEF Orderly

\* The atom that an operand leads to, by way of its `!`s.
Leads(t, i, j) == j \in i .. Len(t) /\ t[j] \in Atoms /\ \A k \in i .. j - 1 : t[k] = "not"

NotReads(t, i) ==
  \E j \in i .. Len(t) : /\ Leads(t, i, j)
                         /\ NotOf(t)[i] = [val |-> (EvalAtom(t[j]) = ((j - i) % 2 = 0)), pos |-> j + 1]

LEMMA NotStep ==
  ASSUME NEW t, Orderly(t), NEW i \in 1 .. Len(t), Operand(t, i),
         i + 1 <= Len(t) /\ Operand(t, i + 1) => NotReads(t, i + 1)
  PROVE  NotReads(t, i)
<1>. DEFINE n == Len(t)
<1>1. /\ n \in Nat \ {0} /\ t \in Seq(Tokens) /\ t[n] \in Atoms
      /\ \A k \in 1 .. n - 1 : t[k] \in Atoms <=> t[k + 1] \in {"and", "or"}
  BY DEF Orderly
<1>2. NotOf(t)[i] = IF IsAt(t, i, "not") THEN [NotOf(t)[i + 1] EXCEPT !.val = ~ @] ELSE AtomAt(t, i)
  BY <1>1, NotExists DEF IsNot
<1>3. CASE t[i] \in Atoms
  <2>1. ~ IsAt(t, i, "not")
    BY <1>3 DEF IsAt, Atoms, Safe
  <2>2. NotOf(t)[i] = [val |-> EvalAtom(t[i]), pos |-> i + 1]
    BY <1>1, <1>2, <1>3, <2>1 DEF AtomAt
  <2>3. Leads(t, i, i)
    BY <1>1, <1>3 DEF Leads
  <2>4. EvalAtom(t[i]) = (EvalAtom(t[i]) = ((i - i) % 2 = 0))
    BY <1>1 DEF EvalAtom
  <2>. QED BY <1>1, <2>2, <2>3, <2>4 DEF NotReads
<1>4. CASE t[i] \notin Atoms
  <2>1. t[i] = "not" /\ i # n
    BY <1>1, <1>4 DEF Operand, Orderly
  <2>2. i + 1 <= n /\ Operand(t, i + 1)
    BY <1>1, <1>4, <2>1 DEF Operand
  <2>3. PICK j \in i + 1 .. n : /\ Leads(t, i + 1, j)
                               /\ NotOf(t)[i + 1] = [val |-> (EvalAtom(t[j]) = ((j - (i + 1)) % 2 = 0)), pos |-> j + 1]
    BY <2>2 DEF NotReads
  <2>4. IsAt(t, i, "not")
    BY <2>1 DEF IsAt
  <2>5. NotOf(t)[i] = [val |-> ~ (EvalAtom(t[j]) = ((j - (i + 1)) % 2 = 0)), pos |-> j + 1]
    <3>. DEFINE v == (EvalAtom(t[j]) = ((j - (i + 1)) % 2 = 0))
    <3>1. NotOf(t)[i + 1] = [val |-> v, pos |-> j + 1] /\ v \in BOOLEAN
      BY <2>3
    <3>. HIDE DEF v
    <3>2. NotOf(t)[i] = [[val |-> v, pos |-> j + 1] EXCEPT !.val = ~ @]
      BY <1>2, <2>4, <3>1, Zenon
    <3>3. [[val |-> v, pos |-> j + 1] EXCEPT !.val = ~ @] = [val |-> ~ v, pos |-> j + 1]
      OBVIOUS
    <3>4. NotOf(t)[i] = [val |-> ~ v, pos |-> j + 1]
      BY <3>2, <3>3
    <3>. QED BY <3>4 DEF v
  <2>6. ((j - i) % 2 = 0) = ~ ((j - (i + 1)) % 2 = 0)
    BY <2>3
  <2>7. Leads(t, i, j) /\ j \in i .. n
    BY <2>1, <2>3 DEF Leads
  <2>8. (EvalAtom(t[j]) = ((j - i) % 2 = 0)) = ~ (EvalAtom(t[j]) = ((j - (i + 1)) % 2 = 0))
    BY <2>6 DEF EvalAtom
  <2>. QED BY <2>5, <2>7, <2>8 DEF NotReads
<1>. QED BY <1>3, <1>4
LEMMA NotIs ==
  ASSUME NEW t, Orderly(t)
  PROVE  \A i \in 1 .. Len(t) : Operand(t, i) => NotReads(t, i)
<1>. DEFINE n == Len(t)
            T == {m \in Nat : \A i \in 1 .. n : n - i <= m /\ Operand(t, i) => NotReads(t, i)}
<1>1. n \in Nat
  BY DEF Orderly
<1>2. ASSUME NEW i \in 1 .. n, Operand(t, i), \A k \in 1 .. n : k > i /\ Operand(t, k) => NotReads(t, k)
      PROVE  NotReads(t, i)
  <2>1. i + 1 <= n /\ Operand(t, i + 1) => NotReads(t, i + 1)
    BY <1>1, <1>2
  <2>. QED BY <1>2, <2>1, NotStep
<1>3. 0 \in T
  <2>1. ASSUME NEW i \in 1 .. n, n - i <= 0, Operand(t, i) PROVE NotReads(t, i)
    <3>1. \A k \in 1 .. n : ~ (k > i)
      BY <1>1, <2>1
    <3>. QED BY <1>2, <2>1, <3>1
  <2>. QED BY <2>1
<1>4. ASSUME NEW m \in T PROVE m + 1 \in T
  <2>1. ASSUME NEW i \in 1 .. n, n - i <= m + 1, Operand(t, i) PROVE NotReads(t, i)
    <3>1. \A k \in 1 .. n : k > i => n - k <= m
      BY <1>1, <2>1
    <3>. QED BY <1>2, <2>1, <3>1
  <2>. QED BY <2>1
<1>5. T \in SUBSET Nat /\ \A i \in 1 .. n : n - i <= n
  BY <1>1
<1>6. n \in T
  <2>. HIDE DEF T
  <2>. QED BY <1>1, <1>3, <1>4, <1>5, Counted
<1>. QED BY <1>5, <1>6

\* The `!`s that Means counts are those that the parser went over.
LEMMA NotsAre ==
  ASSUME NEW t, Orderly(t), NEW i \in 1 .. Len(t), NEW j \in 1 .. Len(t), Leads(t, i, j),
         i = 1 \/ t[i - 1] # "not"
  PROVE  Nots(t, j) = j - i
<1>. DEFINE N == {k \in 1 .. j - 1 : \A l \in k .. j - 1 : t[l] = "not"}
<1>1. i \in Nat /\ j \in Nat /\ i >= 1 /\ i <= j /\ \A k \in i .. j - 1 : t[k] = "not"
  BY DEF Leads, Orderly
<1>2. N = i .. j - 1
  <2>1. ASSUME NEW k \in N PROVE k \in i .. j - 1
    <3>1. k \in 1 .. j - 1 /\ \A l \in k .. j - 1 : t[l] = "not"
      BY <2>1
    <3>2. k < i => i - 1 \in k .. j - 1 /\ i # 1
      BY <1>1, <3>1
    <3>. QED BY <1>1, <3>1, <3>2
  <2>2. \A k \in i .. j - 1 : k \in N
    BY <1>1
  <2>. QED BY <2>1, <2>2
<1>3. Cardinality(i .. j - 1) = j - i
  <2>1. i \in Int /\ j - 1 \in Int
    BY <1>1
  <2>2. Cardinality(i .. j - 1) = IF i > j - 1 THEN 0 ELSE ((j - 1) - i) + 1
    BY <2>1, FS_Interval
  <2>. QED BY <1>1, <2>2
<1>. QED BY <1>2, <1>3 DEF Nots

\* An atom holds, the `!`s before it counted; and a term ends before an `||` or at the end.
Counts(t, a) == EvalAtom(t[a]) = (Nots(t, a) % 2 = 0)
AllCount(t, i, e) == \A a \in i .. e - 1 : t[a] \in Atoms => Counts(t, a)
EndsAt(t, i, e) ==
  /\ e \in i + 1 .. Len(t) + 1
  /\ e = Len(t) + 1 \/ t[e] = "or"
  /\ \A a \in i .. e - 1 : t[a] # "or"
AndReads(t, i) ==
  \E e \in i + 1 .. Len(t) + 1 : EndsAt(t, i, e) /\ AndOf(t)[i] = [val |-> AllCount(t, i, e), pos |-> e]
Starts(t, i) == Operand(t, i) /\ (i = 1 \/ t[i - 1] # "not")

LEMMA AndStep ==
  ASSUME NEW t, Orderly(t), NEW i \in 1 .. Len(t), Starts(t, i),
         \A k \in 1 .. Len(t) : k > i /\ Starts(t, k) => AndReads(t, k)
  PROVE  AndReads(t, i)
<1>. DEFINE n == Len(t)
<1>1. /\ n \in Nat \ {0} /\ t \in Seq(Tokens) /\ t[n] \in Atoms
      /\ \A k \in 1 .. n - 1 : t[k] \in Atoms <=> t[k + 1] \in {"and", "or"}
  BY DEF Orderly
<1>2. PICK j \in i .. n : /\ Leads(t, i, j)
                         /\ NotOf(t)[i] = [val |-> (EvalAtom(t[j]) = ((j - i) % 2 = 0)), pos |-> j + 1]
  BY NotIs DEF Starts, NotReads
<1>3. Nots(t, j) = j - i
  BY <1>1, <1>2, NotsAre DEF Starts
<1>4. NotOf(t)[i] = [val |-> Counts(t, j), pos |-> j + 1]
  BY <1>2, <1>3 DEF Counts
<1>5. AndOf(t)[i] = IF IsAt(t, NotOf(t)[i].pos, "and")
                      THEN [AndOf(t)[NotOf(t)[i].pos + 1] EXCEPT !.val = NotOf(t)[i].val /\ @] ELSE NotOf(t)[i]
  <2>1. IsAnd(t, AndOf(t)) /\ i \in 1 .. Len(t) + 1
    BY <1>1, AndExists
  <2>. QED BY <2>1, Zenon DEF IsAnd
<1>6. /\ t[j] \in Atoms
      /\ \A a \in i .. j : t[a] # "or" /\ (t[a] \in Atoms => a = j)
  <2>1. t[j] \in Atoms /\ \A k \in i .. j - 1 : t[k] = "not"
    BY <1>2 DEF Leads
  <2>2. \A a \in i .. j : a = j \/ a \in i .. j - 1
    BY <1>1
  <2>. QED BY <2>1, <2>2 DEF Atoms, Safe
<1>7. AllCount(t, i, j + 1) <=> Counts(t, j)
  BY <1>1, <1>6 DEF AllCount
<1>8. CASE ~ IsAt(t, j + 1, "and")
  <2>1. AndOf(t)[i] = [val |-> Counts(t, j), pos |-> j + 1]
    BY <1>4, <1>5, <1>8
  <2>2. j + 1 = n + 1 \/ t[j + 1] = "or"
    <3>1. j = n \/ (j \in 1 .. n - 1 /\ j + 1 <= n)
      BY <1>1
    <3>. QED BY <1>1, <1>6, <1>8, <3>1 DEF IsAt
  <2>3. EndsAt(t, i, j + 1) /\ j + 1 \in i + 1 .. n + 1
    BY <1>1, <1>6, <2>2 DEF EndsAt
  <2>4. Counts(t, j) = AllCount(t, i, j + 1)
    BY <1>7 DEF Counts, AllCount
  <2>. QED BY <2>1, <2>3, <2>4 DEF AndReads
<1>9. CASE IsAt(t, j + 1, "and")
  <2>1. j + 1 <= n /\ t[j + 1] = "and" /\ j + 1 # n
    BY <1>1, <1>9 DEF IsAt, Atoms, Safe
  <2>2. j + 2 \in 1 .. n /\ Starts(t, j + 2)
    <3>1. j + 1 \in 1 .. n - 1 /\ j + 2 \in 1 .. n /\ (j + 1) + 1 = j + 2 /\ (j + 2) - 1 = j + 1
      BY <1>1, <2>1
    <3>2. t[j + 1] \notin Atoms
      BY <2>1 DEF Atoms, Safe
    <3>. QED BY <1>1, <2>1, <3>1, <3>2 DEF Starts, Operand
  <2>3. PICK e \in j + 3 .. n + 1 : EndsAt(t, j + 2, e) /\ AndOf(t)[j + 2] = [val |-> AllCount(t, j + 2, e), pos |-> e]
    <3>1. AndReads(t, j + 2)
      BY <1>1, <2>2
    <3>2. (j + 2) + 1 = j + 3
      BY <1>1
    <3>. QED BY <3>1, <3>2 DEF AndReads
  <2>4. AndOf(t)[i] = [val |-> Counts(t, j) /\ AllCount(t, j + 2, e), pos |-> e]
    <3>. DEFINE u == Counts(t, j)
                v == AllCount(t, j + 2, e)
    <3>1. NotOf(t)[i] = [val |-> u, pos |-> j + 1] /\ AndOf(t)[j + 2] = [val |-> v, pos |-> e]
      BY <1>4, <2>3
    <3>2. u \in BOOLEAN /\ v \in BOOLEAN /\ (j + 1) + 1 = j + 2
      BY <1>1 DEF Counts, AllCount
    <3>. HIDE DEF u, v
    <3>3. NotOf(t)[i].pos = j + 1 /\ NotOf(t)[i].val = u
      BY <3>1
    <3>4. AndOf(t)[i] = [[val |-> v, pos |-> e] EXCEPT !.val = u /\ @]
      BY <1>5, <1>9, <3>1, <3>2, <3>3, Zenon
    <3>5. [[val |-> v, pos |-> e] EXCEPT !.val = u /\ @] = [val |-> u /\ v, pos |-> e]
      OBVIOUS
    <3>6. AndOf(t)[i] = [val |-> u /\ v, pos |-> e]
      BY <3>4, <3>5
    <3>. QED BY <3>6 DEF u, v
  <2>5. \A a \in i .. e - 1 : a \in i .. j \/ a = j + 1 \/ a \in j + 2 .. e - 1
    BY <1>1
  <2>6. e \in i + 1 .. n + 1 /\ EndsAt(t, i, e)
    BY <1>1, <1>6, <2>1, <2>3, <2>5 DEF EndsAt
  <2>7. AllCount(t, i, e) <=> Counts(t, j) /\ AllCount(t, j + 2, e)
    <3>1. t[j + 1] \notin Atoms
      BY <2>1 DEF Atoms, Safe
    <3>2. j \in i .. e - 1 /\ \A a \in j + 2 .. e - 1 : a \in i .. e - 1
      BY <1>1, <2>3
    <3>. QED BY <1>6, <2>5, <3>1, <3>2 DEF AllCount
  <2>8. AllCount(t, i, e) = (Counts(t, j) /\ AllCount(t, j + 2, e))
    BY <2>7 DEF AllCount
  <2>. QED BY <2>4, <2>6, <2>8 DEF AndReads
<1>. QED BY <1>8, <1>9

LEMMA AndIs ==
  ASSUME NEW t, Orderly(t)
  PROVE  \A i \in 1 .. Len(t) : Starts(t, i) => AndReads(t, i)
<1>. DEFINE n == Len(t)
            T == {m \in Nat : \A i \in 1 .. n : n - i <= m /\ Starts(t, i) => AndReads(t, i)}
<1>1. n \in Nat
  BY DEF Orderly
<1>2. 0 \in T
  <2>1. ASSUME NEW i \in 1 .. n, n - i <= 0, Starts(t, i) PROVE AndReads(t, i)
    <3>1. \A k \in 1 .. n : ~ (k > i)
      BY <1>1, <2>1
    <3>. QED BY <2>1, <3>1, AndStep
  <2>. QED BY <2>1
<1>3. ASSUME NEW m \in T PROVE m + 1 \in T
  <2>1. ASSUME NEW i \in 1 .. n, n - i <= m + 1, Starts(t, i) PROVE AndReads(t, i)
    <3>1. \A k \in 1 .. n : k > i => n - k <= m
      BY <1>1, <2>1
    <3>2. \A k \in 1 .. n : k > i /\ Starts(t, k) => AndReads(t, k)
      BY <3>1
    <3>. QED BY <2>1, <3>2, AndStep
  <2>. QED BY <2>1
<1>4. T \in SUBSET Nat /\ \A i \in 1 .. n : n - i <= n
  BY <1>1
<1>5. n \in T
  <2>. HIDE DEF T
  <2>. QED BY <1>1, <1>2, <1>3, <1>4, Counted
<1>. QED BY <1>4, <1>5

\* And so does a term: what Means makes of it is what the parser does.
Holds(t, k) == \A a \in Term(t, k) : t[a] \in Atoms => Counts(t, a)

LEMMA TermIs ==
  ASSUME NEW t, Orderly(t), NEW i \in 1 .. Len(t), NEW e, EndsAt(t, i, e)
  PROVE  Term(t, i) = i .. e - 1 /\ (Holds(t, i) <=> AllCount(t, i, e))
<1>. DEFINE n == Len(t)
<1>1. n \in Nat /\ DOMAIN t = 1 .. n /\ e \in i + 1 .. n + 1
  BY DEF Orderly, EndsAt
<1>2. (e = n + 1 \/ t[e] = "or") /\ \A a \in i .. e - 1 : t[a] # "or"
  BY DEF EndsAt
<1>3. ASSUME NEW j \in Term(t, i) PROVE j \in i .. e - 1
  <2>1. j \in i .. n /\ \A k \in i .. j : t[k] # "or"
    BY <1>1 DEF Term
  <2>2. j >= e => e \in i .. j /\ e # n + 1
    BY <1>1, <2>1
  <2>. QED BY <1>1, <1>2, <2>1, <2>2
<1>4. ASSUME NEW j \in i .. e - 1 PROVE j \in Term(t, i)
  <2>1. j \in 1 .. n /\ j \in i .. n /\ \A k \in i .. j : k \in i .. e - 1
    BY <1>1
  <2>. QED BY <1>1, <1>2, <2>1 DEF Term
<1>5. Term(t, i) = i .. e - 1
  BY <1>3, <1>4
<1>. QED BY <1>5 DEF Holds, AllCount

OrReads(t, i) ==
  OrOf(t)[i].val = \E k \in i .. Len(t) : (k = i \/ t[k - 1] = "or") /\ Holds(t, k)
Opens(t, i) == i = 1 \/ t[i - 1] = "or"

LEMMA OrStep ==
  ASSUME NEW t, Orderly(t), NEW i \in 1 .. Len(t), Opens(t, i),
         \A k \in 1 .. Len(t) : k > i /\ Opens(t, k) => OrReads(t, k)
  PROVE  OrReads(t, i)
<1>. DEFINE n == Len(t)
<1>1. /\ n \in Nat \ {0} /\ t \in Seq(Tokens) /\ t[n] \in Atoms /\ Operand(t, 1)
      /\ \A k \in 1 .. n - 1 : t[k] \in Atoms <=> t[k + 1] \in {"and", "or"}
  BY DEF Orderly
<1>2. Starts(t, i)
  <2>1. CASE i = 1
    BY <1>1, <2>1 DEF Starts
  <2>2. CASE i # 1
    <3>1. i - 1 \in 1 .. n - 1 /\ (i - 1) + 1 = i /\ t[i - 1] = "or"
      BY <1>1, <2>2 DEF Opens
    <3>2. t[i - 1] \notin Atoms
      BY <3>1 DEF Atoms, Safe
    <3>3. t[i] \notin {"and", "or"}
      BY <1>1, <3>1, <3>2
    <3>. QED BY <3>1, <3>3 DEF Starts, Operand
  <2>. QED BY <2>1, <2>2
<1>3. PICK e \in i + 1 .. n + 1 : EndsAt(t, i, e) /\ AndOf(t)[i] = [val |-> AllCount(t, i, e), pos |-> e]
  BY <1>2, AndIs DEF AndReads
<1>4. (Holds(t, i) <=> AllCount(t, i, e)) /\ (e = n + 1 \/ t[e] = "or") /\ \A a \in i .. e - 1 : t[a] # "or"
  BY <1>3, TermIs DEF EndsAt
<1>5. OrOf(t)[i] = IF IsAt(t, AndOf(t)[i].pos, "or")
                     THEN [OrOf(t)[AndOf(t)[i].pos + 1] EXCEPT !.val = AndOf(t)[i].val \/ @] ELSE AndOf(t)[i]
  <2>1. IsOr(t, OrOf(t)) /\ i \in 1 .. Len(t) + 1
    BY <1>1, OrExists
  <2>. QED BY <2>1, Zenon DEF IsOr
<1>6. \A k \in i + 1 .. n : t[k - 1] = "or" => e # n + 1 /\ k > e
  <2>1. ASSUME NEW k \in i + 1 .. n, t[k - 1] = "or" PROVE e # n + 1 /\ k > e
    <3>1. k - 1 \in i .. n /\ k - 1 \notin i .. e - 1
      BY <1>1, <1>4, <2>1
    <3>. QED BY <1>1, <3>1
  <2>. QED BY <2>1
<1>7. CASE ~ IsAt(t, e, "or")
  <2>1. e = n + 1
    BY <1>1, <1>4, <1>7 DEF IsAt
  <2>2. \A k \in i .. n : k = i \/ t[k - 1] = "or" => k = i
    BY <1>1, <1>6, <2>1
  <2>3. OrOf(t)[i].val = AllCount(t, i, e)
    BY <1>3, <1>5, <1>7
  <2>4. (\E k \in i .. n : (k = i \/ t[k - 1] = "or") /\ Holds(t, k)) <=> Holds(t, i)
    <3>1. i \in i .. n
      BY <1>1
    <3>. QED BY <2>2, <3>1
  <2>5. AllCount(t, i, e) = (\E k \in i .. n : (k = i \/ t[k - 1] = "or") /\ Holds(t, k))
    <3>1. AllCount(t, i, e) \in BOOLEAN
      BY DEF AllCount
    <3>. QED BY <1>4, <2>4, <3>1
  <2>. QED BY <2>3, <2>5 DEF OrReads
<1>8. CASE IsAt(t, e, "or")
  <2>1. e + 1 \in 1 .. n /\ e + 1 > i /\ Opens(t, e + 1) /\ (e + 1) - 1 = e /\ t[e] = "or" /\ e <= n
    <3>1. e <= n /\ t[e] = "or" /\ e # n
      BY <1>1, <1>8 DEF IsAt, Atoms, Safe
    <3>. QED BY <1>1, <3>1 DEF Opens
  <2>2. OrReads(t, e + 1)
    BY <2>1
  <2>. DEFINE u == AllCount(t, i, e)
              later == \E k \in e + 1 .. n : (k = e + 1 \/ t[k - 1] = "or") /\ Holds(t, k)
  <2>3. OrOf(t)[i].val = (u \/ later)
    <3>1. AndOf(t)[i] = [val |-> u, pos |-> e] /\ OrOf(t)[e + 1].val = later
      BY <1>3, <2>2 DEF OrReads
    <3>2. u \in BOOLEAN /\ later \in BOOLEAN
      BY DEF AllCount
    <3>3. OrOf(t)[e + 1] \in [val : BOOLEAN, pos : 1 .. n + 1]
      <4>1. e + 1 \in 1 .. n + 1
        BY <1>1, <2>1
      <4>. QED BY <1>1, <4>1, OrExists DEF Res
    <3>. HIDE DEF u, later
    <3>4. AndOf(t)[i].pos = e /\ AndOf(t)[i].val = u
      BY <3>1
    <3>5. OrOf(t)[i] = [OrOf(t)[e + 1] EXCEPT !.val = u \/ @]
      BY <1>5, <1>8, <3>4, Zenon
    <3>6. OrOf(t)[i].val = (u \/ OrOf(t)[e + 1].val)
      BY <3>3, <3>5
    <3>. QED BY <3>1, <3>6
  <2>4. later <=> \E k \in i + 1 .. n : t[k - 1] = "or" /\ Holds(t, k)
    <3>1. \A k \in i + 1 .. n : t[k - 1] = "or" => k \in e + 1 .. n
      BY <1>1, <1>6
    <3>2. \A k \in e + 1 .. n : (k = e + 1 => t[k - 1] = "or") /\ k \in i + 1 .. n
      BY <1>1, <1>3, <2>1
    <3>. QED BY <3>1, <3>2
  <2>5. (\E k \in i .. n : (k = i \/ t[k - 1] = "or") /\ Holds(t, k)) <=> u \/ later
    <3>1. i \in i .. n /\ \A k \in i .. n : k = i \/ k \in i + 1 .. n
      BY <1>1
    <3>2. \A k \in i + 1 .. n : k \in i .. n
      BY <1>1
    <3>. HIDE DEF later
    <3>. QED BY <1>4, <2>4, <3>1, <3>2
  <2>6. (u \/ later) = (\E k \in i .. n : (k = i \/ t[k - 1] = "or") /\ Holds(t, k))
    <3>. HIDE DEF u, later
    <3>. QED BY <2>5
  <2>. QED BY <2>3, <2>6 DEF OrReads
<1>. QED BY <1>3, <1>7, <1>8

LEMMA OrIs ==
  ASSUME NEW t, Orderly(t)
  PROVE  \A i \in 1 .. Len(t) : Opens(t, i) => OrReads(t, i)
<1>. DEFINE n == Len(t)
            T == {m \in Nat : \A i \in 1 .. n : n - i <= m /\ Opens(t, i) => OrReads(t, i)}
<1>1. n \in Nat
  BY DEF Orderly
<1>2. 0 \in T
  <2>1. ASSUME NEW i \in 1 .. n, n - i <= 0, Opens(t, i) PROVE OrReads(t, i)
    <3>1. \A k \in 1 .. n : ~ (k > i)
      BY <1>1, <2>1
    <3>. QED BY <2>1, <3>1, OrStep
  <2>. QED BY <2>1
<1>3. ASSUME NEW m \in T PROVE m + 1 \in T
  <2>1. ASSUME NEW i \in 1 .. n, n - i <= m + 1, Opens(t, i) PROVE OrReads(t, i)
    <3>1. \A k \in 1 .. n : k > i => n - k <= m
      BY <1>1, <2>1
    <3>2. \A k \in 1 .. n : k > i /\ Opens(t, k) => OrReads(t, k)
      BY <3>1
    <3>. QED BY <2>1, <3>2, OrStep
  <2>. QED BY <2>1
<1>4. T \in SUBSET Nat /\ \A i \in 1 .. n : n - i <= n
  BY <1>1
<1>5. n \in T
  <2>. HIDE DEF T
  <2>. QED BY <1>1, <1>2, <1>3, <1>4, Counted
<1>. QED BY <1>4, <1>5

\* The parser reads what an expression means.
LEMMA ReadsWhatItMeans ==
  ASSUME NEW t \in Seq(Tokens), WellFormed(t)
  PROVE  EvaluateWhen(t) = Means(t)
<1>. DEFINE n == Len(t)
<1>1. Orderly(t)
  BY WellFormedIsOrderly
<1>2. n \in Nat \ {0} /\ DOMAIN t = 1 .. n /\ 1 \in 1 .. n
  BY <1>1 DEF Orderly
<1>3. OrReads(t, 1)
  BY <1>1, <1>2, OrIs DEF Opens
<1>4. EvaluateWhen(t) = \E k \in 1 .. n : (k = 1 \/ t[k - 1] = "or") /\ Holds(t, k)
  BY <1>3, ParseIs, Zenon DEF EvaluateWhen, OrReads
<1>5. Means(t) <=> \E k \in {j \in DOMAIN t : j = 1 \/ t[j - 1] = "or"} : Holds(t, k)
  <2>1. Means(t) <=> \E term \in {Term(t, k) : k \in {j \in DOMAIN t : j = 1 \/ t[j - 1] = "or"}} :
                        \A a \in term : t[a] \in Atoms => Counts(t, a)
    BY Zenon DEF Means, Terms, Counts
  <2>. QED BY <2>1, Zenon DEF Holds
<1>6. Means(t) <=> \E k \in 1 .. n : (k = 1 \/ t[k - 1] = "or") /\ Holds(t, k)
  BY <1>2, <1>5, Zenon
<1>7. Means(t) \in BOOLEAN
  BY Zenon DEF Means
<1>. HIDE DEF n
<1>. QED BY <1>4, <1>6, <1>7

-----------------------------------------------------------------------------
(* The program of a command line. *)

\* The parts of executable_in, by name.
Words(line) == {i \in DOMAIN line : line[i] # "X=1"}
Bare(line) == IF Words(line) = {} THEN <<>> ELSE SubSeq(line, Min(Words(line)), Len(line))
IsRest(bare, h) ==
  h = [i \in 1 .. Len(bare) + 2 |->
         IF i > Len(bare) THEN <<>>
         ELSE IF bare[i] = "-u" THEN h[i + 2]
         ELSE IF bare[i] \in {"-i", "X=1"} THEN h[i + 1]
         ELSE SubSeq(bare, i, Len(bare))]
RestOf(bare) == CHOOSE h : IsRest(bare, h)
Left(bare) == IF bare # <<>> /\ bare[1] \in {"env", "command", "exec"} THEN RestOf(bare)[2] ELSE bare

LEMMA ExecutableIs ==
  ASSUME NEW line
  PROVE  ExecutableIn(line) = IF Left(Bare(line)) = <<>> THEN {} ELSE {Left(Bare(line))[1]}
BY Zenon DEF ExecutableIn, Words, Bare, IsRest, RestOf, Left

LEMMA RestExists ==
  ASSUME NEW W, NEW bare \in Seq(W)
  PROVE  IsRest(bare, RestOf(bare))
<1>. DEFINE n == Len(bare) + 1
            R == Seq(W)
            goes == {i \in 1 .. Len(bare) : bare[i] \in {"-u", "-i", "X=1"}}
            on == [i \in 1 .. n + 1 |-> IF bare[i] = "-u" THEN i + 2 ELSE i + 1]
            f == [i \in 1 .. n + 1 |-> [r \in R |-> r]]
            base == [i \in 1 .. n + 1 |-> IF i > Len(bare) THEN <<>> ELSE SubSeq(bare, i, Len(bare))]
<1>1. n \in Nat /\ Len(bare) \in Nat /\ n + 1 = Len(bare) + 2
  OBVIOUS
<1>2. base \in [1 .. n + 1 -> R]
  <2>1. \A i \in 1 .. n + 1 : i <= Len(bare) => SubSeq(bare, i, Len(bare)) \in Seq(W)
    BY <1>1
  <2>2. <<>> \in Seq(W)
    OBVIOUS
  <2>. QED BY <1>1, <2>1, <2>2
<1>3. goes \subseteq 1 .. n + 1 /\ \A i \in goes : on[i] \in i + 1 .. n + 1
  BY <1>1
<1>4. \A i \in goes : f[i] \in [R -> R]
  BY <1>3
<1>5. GoesOn(n, R, base, goes, on, f)
  <2>. HIDE DEF base, goes, on, f, n, R
  <2>. QED BY <1>2, <1>3, <1>4 DEF GoesOn
<1>6. PICK h \in [1 .. n + 1 -> R] : \A i \in 1 .. n + 1 : h[i] = IF i \in goes THEN f[i][h[on[i]]] ELSE base[i]
  <2>. HIDE DEF base, goes, on, f, n, R
  <2>. QED BY <1>1, <1>5, ThereIsOne
<1>7. \A i \in 1 .. n + 1 :
        h[i] = IF i > Len(bare) THEN <<>>
               ELSE IF bare[i] = "-u" THEN h[i + 2]
               ELSE IF bare[i] \in {"-i", "X=1"} THEN h[i + 1]
               ELSE SubSeq(bare, i, Len(bare))
  <2>. SUFFICES ASSUME NEW i \in 1 .. n + 1
                PROVE  h[i] = IF i > Len(bare) THEN <<>>
                              ELSE IF bare[i] = "-u" THEN h[i + 2]
                              ELSE IF bare[i] \in {"-i", "X=1"} THEN h[i + 1]
                              ELSE SubSeq(bare, i, Len(bare))
    OBVIOUS
  <2>1. CASE i \in goes
    <3>1. h[i] = h[on[i]]
      <4>1. h[on[i]] \in R
        BY <1>3, <1>6, <2>1
      <4>2. f[i][h[on[i]]] = h[on[i]]
        BY <4>1
      <4>. QED BY <1>6, <2>1, <4>2
    <3>. QED BY <1>1, <2>1, <3>1
  <2>2. CASE i \notin goes
    <3>1. h[i] = base[i]
      BY <1>6, <2>2
    <3>2. i <= Len(bare) => bare[i] \notin {"-u", "-i", "X=1"}
      BY <1>1, <2>2
    <3>. QED BY <3>1, <3>2
  <2>. QED BY <2>1, <2>2
<1>8. IsRest(bare, h)
  <2>1. h = [i \in 1 .. Len(bare) + 2 |-> h[i]]
    BY <1>1, <1>6
  <2>. QED BY <1>1, <1>7, <2>1 DEF IsRest
<1>. QED BY <1>8, Zenon DEF RestOf

LEMMA WrapperIsRead ==
  ASSUME NEW W, NEW line \in Seq(W), NEW a \in 1 .. Len(line), NEW program, Wrapped(line, a, program),
         NEW bare \in Seq(W), Len(bare) = (Len(line) - a) + 1,
         \A k \in 1 .. Len(bare) : bare[k] = line[(k + a) - 1]
  PROVE  RestOf(bare)[2] # <<>> /\ RestOf(bare)[2][1] = program
<1>1. PICK words \in SUBSET (a + 1 .. Len(line)), end \in a + 1 .. Len(line) :
        line[end] = program /\ a + 1 \in words /\ end \in words /\ Reads(line, words, end)
  BY DEF Wrapped
<1>2. program \notin {"X=1", "-i", "-u"}
  BY DEF Wrapped
<1>3. Len(line) \in Nat /\ Len(bare) \in Nat /\ a \in Nat /\ end \in Nat
  OBVIOUS
<1>. DEFINE h == RestOf(bare)
            At(k) == (k - a) + 1
            left == SubSeq(bare, At(end), Len(bare))
<1>4. \A i \in 1 .. Len(bare) + 2 :
        h[i] = IF i > Len(bare) THEN <<>>
               ELSE IF bare[i] = "-u" THEN h[i + 2]
               ELSE IF bare[i] \in {"-i", "X=1"} THEN h[i + 1]
               ELSE SubSeq(bare, i, Len(bare))
  <2>1. IsRest(bare, h)
    BY RestExists
  <2>. HIDE DEF h
  <2>. QED BY <2>1, Zenon DEF IsRest
<1>. HIDE DEF h
<1>5. \A k \in a + 1 .. Len(line) : At(k) \in 1 .. Len(bare) /\ bare[At(k)] = line[k] /\ At(k) \in 1 .. Len(bare) + 2
  <2>. SUFFICES ASSUME NEW k \in a + 1 .. Len(line)
                PROVE  At(k) \in 1 .. Len(bare) /\ bare[At(k)] = line[k] /\ At(k) \in 1 .. Len(bare) + 2
    OBVIOUS
  <2>1. At(k) \in 1 .. Len(bare) /\ (At(k) + a) - 1 = k /\ At(k) \in 1 .. Len(bare) + 2
    BY <1>3
  <2>. HIDE DEF At
  <2>2. bare[At(k)] = line[(At(k) + a) - 1]
    BY <2>1, Zenon
  <2>. QED BY <2>1, <2>2, Zenon
<1>6. left # <<>> /\ left[1] = program
  <2>1. At(end) \in 1 .. Len(bare) /\ bare[At(end)] = program
    BY <1>1, <1>5
  <2>. HIDE DEF At
  <2>2. Len(left) = (Len(bare) - At(end)) + 1 /\ left[1] = bare[At(end)]
    BY <1>3, <2>1
  <2>. HIDE DEF left
  <2>3. left # <<>>
    BY <1>3, <2>1, <2>2
  <2>. QED BY <2>1, <2>2, <2>3
<1>7. h[At(end)] = left
  <2>1. At(end) \in 1 .. Len(bare) /\ bare[At(end)] = program /\ At(end) \in 1 .. Len(bare) + 2
    BY <1>1, <1>5
  <2>. HIDE DEF At
  <2>2. h[At(end)] = IF At(end) > Len(bare) THEN <<>>
                     ELSE IF bare[At(end)] = "-u" THEN h[At(end) + 2]
                     ELSE IF bare[At(end)] \in {"-i", "X=1"} THEN h[At(end) + 1]
                     ELSE left
    BY <1>4, <2>1, Zenon
  <2>3. ~ (At(end) > Len(bare))
    BY <1>3, <2>1
  <2>. HIDE DEF left
  <2>. QED BY <1>2, <2>1, <2>2, <2>3
<1>8. ASSUME NEW k \in words, k # end
      PROVE  \E l \in words : l > k /\ h[At(k)] = h[At(l)]
  <2>1. k \in a + 1 .. Len(line) /\ k \in Nat
    BY <1>1, <1>3
  <2>2. At(k) \in 1 .. Len(bare) /\ bare[At(k)] = line[k] /\ At(k) \in 1 .. Len(bare) + 2
    BY <1>5, <2>1
  <2>3. (line[k] = "-u" /\ k + 2 \in words) \/ (line[k] \in {"-i", "X=1"} /\ k + 1 \in words)
    BY <1>1, <1>8 DEF Reads
  <2>4. At(k + 2) = At(k) + 2 /\ At(k + 1) = At(k) + 1 /\ k + 1 > k /\ k + 2 > k
    BY <1>3, <2>1
  <2>. HIDE DEF At
  <2>. DEFINE none == SubSeq(bare, At(k), Len(bare))
  <2>5. h[At(k)] = IF At(k) > Len(bare) THEN <<>>
                   ELSE IF bare[At(k)] = "-u" THEN h[At(k) + 2]
                   ELSE IF bare[At(k)] \in {"-i", "X=1"} THEN h[At(k) + 1]
                   ELSE none
    BY <1>4, <2>2, Zenon
  <2>6. ~ (At(k) > Len(bare))
    BY <1>3, <2>2
  <2>. HIDE DEF none
  <2>7. line[k] = "-u" => h[At(k)] = h[At(k) + 2]
    BY <2>2, <2>5, <2>6
  <2>8. line[k] \in {"-i", "X=1"} => h[At(k)] = h[At(k) + 1]
    BY <2>2, <2>5, <2>6
  <2>. QED BY <2>3, <2>4, <2>7, <2>8
<1>. DEFINE T == {m \in Nat : \A k \in words : end - k <= m => h[At(k)] = left}
<1>. HIDE DEF left, At
<1>9. \A k \in words : k \in Nat /\ k <= end
  <2>1. \A k \in words : k \in a + 1 .. Len(line)
    BY <1>1
  <2>. QED BY <1>1, <1>3, <2>1 DEF Reads
<1>10. 0 \in T
  <2>1. \A k \in words : end - k <= 0 => k = end
    BY <1>3, <1>9
  <2>. QED BY <1>7, <2>1
<1>11. ASSUME NEW m \in T PROVE m + 1 \in T
  <2>1. ASSUME NEW k \in words, end - k <= m + 1 PROVE h[At(k)] = left
    <3>1. CASE k = end
      BY <1>7, <3>1
    <3>2. CASE k # end
      <4>1. PICK l \in words : l > k /\ h[At(k)] = h[At(l)]
        BY <1>8, <3>2
      <4>2. end - l <= m
        BY <1>3, <1>9, <2>1, <4>1
      <4>. QED BY <4>1, <4>2
    <3>. QED BY <3>1, <3>2
  <2>. QED BY <2>1
<1>12. T = Nat
  <2>1. T \in SUBSET Nat
    OBVIOUS
  <2>. HIDE DEF T
  <2>. QED BY <1>10, <1>11, <2>1, Counted
<1>13. h[At(a + 1)] = left
  <2>1. end - (a + 1) \in Nat /\ end - (a + 1) <= end - (a + 1)
    BY <1>1, <1>3
  <2>2. end - (a + 1) \in T
    <3>. HIDE DEF T
    <3>. QED BY <1>12, <2>1
  <2>. QED BY <1>1, <2>1, <2>2
<1>14. At(a + 1) = 2
  BY <1>3 DEF At
<1>15. h[2] # <<>> /\ h[2][1] = program
  BY <1>6, <1>13, <1>14
<1>. QED BY <1>15 DEF h

\* It finds the program that the shell runs.
LEMMA FindsTheProgram ==
  ASSUME NEW W, NEW line \in Seq(W), NEW program, ShellRuns(line, program)
  PROVE  ExecutableIn(line) = {program}
<1>1. Len(line) \in Nat /\ DOMAIN line = 1 .. Len(line)
  OBVIOUS
<1>2. PICK a \in 1 .. Len(line) :
        /\ \A k \in 1 .. a - 1 : line[k] = "X=1"
        /\ (line[a] = program /\ program \notin Wrappers \cup {"X=1"}) \/ Wrapped(line, a, program)
  BY <1>1 DEF ShellRuns
<1>3. a \in Words(line) /\ \A k \in Words(line) : a <= k
  <2>1. line[a] # "X=1"
    BY <1>2 DEF Wrapped, Wrappers
  <2>. QED BY <1>1, <1>2, <2>1 DEF Words
<1>4. Min(Words(line)) = a
  <2>1. \A m \in Words(line) : (\A k \in Words(line) : m <= k) => m = a
    BY <1>1, <1>3 DEF Words
  <2>2. Min(Words(line)) \in Words(line) /\ \A k \in Words(line) : Min(Words(line)) <= k
    BY <1>3, Zenon DEF Min
  <2>. QED BY <2>1, <2>2
<1>. DEFINE bare == SubSeq(line, a, Len(line))
<1>5. Bare(line) = bare
  BY <1>3, <1>4 DEF Bare
<1>6. /\ bare \in Seq(W) /\ Len(bare) = (Len(line) - a) + 1 /\ Len(bare) \in Nat /\ 1 \in 1 .. Len(bare)
      /\ \A k \in 1 .. Len(bare) : bare[k] = line[(k + a) - 1]
  BY <1>1
<1>. HIDE DEF bare
<1>7. bare # <<>> /\ bare[1] = line[a]
  BY <1>1, <1>6
<1>8. Left(bare) # <<>> /\ Left(bare)[1] = program
  <2>1. CASE line[a] = program /\ program \notin Wrappers \cup {"X=1"}
    BY <1>7, <2>1 DEF Left, Wrappers
  <2>2. CASE Wrapped(line, a, program)
    <3>1. Left(bare) = RestOf(bare)[2]
      BY <1>7, <2>2 DEF Left, Wrapped, Wrappers
    <3>. QED BY <1>6, <2>2, <3>1, WrapperIsRead
  <2>. QED BY <1>2, <2>1, <2>2
<1>. QED BY <1>5, <1>8, ExecutableIs

-----------------------------------------------------------------------------
(* What --fix tells. *)

\* What ReadBack adds up.
Before == {c \in Cells : duty.before[c] # "none"}
Had(b) == Cardinality({l \in Suffixes : duty.before[<<b, l>>] # "none"})
Has(b) == Cardinality({l \in Suffixes : <<b, l>> \in OrphanKeys})
Less(b) == IF Had(b) > Has(b) THEN Had(b) - Has(b) ELSE 0
IsLess(h) ==
  h = [s \in SUBSET Kept |->
         IF s = {} THEN 0 ELSE LET x == CHOOSE x \in s : TRUE IN Less(x) + h[s \ {x}]]
LessInAll == (CHOOSE h : IsLess(h))[Kept]

LEMMA AddsUp == MapThenSumSet(Less, Kept) = LessInAll
BY Zenon DEF MapThenSumSet, MapThenFoldSet, LessInAll, IsLess

LEMMA ReadBackTells ==
  ASSUME ReadBack
  PROVE  report' = [report EXCEPT !.purged = LessInAll, !.remaining = Cardinality(OrphanKeys)]
BY AddsUp, Zenon DEF ReadBack, Less, Had, Has

LEMMA Slice ==
  ASSUME Bounded, NEW C \in SUBSET Cells, NEW b \in Kept
  PROVE  /\ IsFiniteSet({l \in Suffixes : <<b, l>> \in C}) /\ IsFiniteSet({c \in C : c[1] = b})
         /\ Cardinality({l \in Suffixes : <<b, l>> \in C}) = Cardinality({c \in C : c[1] = b})
<1>. DEFINE L == {l \in Suffixes : <<b, l>> \in C}
            D == {c \in C : c[1] = b}
            f == [l \in L |-> <<b, l>>]
<1>1. IsFiniteSet(L)
  <2>1. L \in SUBSET Suffixes
    OBVIOUS
  <2>. HIDE DEF L
  <2>. QED BY <2>1, FS_Subset DEF Bounded
<1>2. f \in Bijection(L, D)
  <2>1. \A l \in L : f[l] \in D
    OBVIOUS
  <2>2. \A k, l \in L : f[k] = f[l] => k = l
    OBVIOUS
  <2>3. \A c \in D : \E l \in L : f[l] = c
    <3>. SUFFICES ASSUME NEW c \in D PROVE c[2] \in L /\ f[c[2]] = c
      OBVIOUS
    <3>1. c = <<b, c[2]>> /\ c[2] \in Suffixes
      BY DEF Cells
    <3>. QED BY <3>1
  <2>4. f \in [L -> D]
    BY <2>1
  <2>. HIDE DEF f, L, D
  <2>. QED BY <2>1, <2>2, <2>3, <2>4 DEF Bijection, Injection, IsInjective, Surjection
<1>3. IsFiniteSet(D) /\ Cardinality(L) = Cardinality(D)
  <2>. HIDE DEF f, L, D
  <2>. QED BY <1>1, <1>2, FS_Bijection DEF ExistsBijection
<1>. QED BY <1>1, <1>3

LEMMA CellsAreFinite ==
  ASSUME Bounded, NEW C \in SUBSET Cells PROVE IsFiniteSet(C) /\ Cardinality(C) \in Nat
<1>1. IsFiniteSet(Cells)
  BY FS_Product DEF Cells, Bounded
<1>. QED BY <1>1, FS_Subset, FS_CardinalityType

LEMMA LessIs ==
  ASSUME Bounded, OrphanKeys \subseteq Before, NEW b \in Kept
  PROVE  Less(b) = Cardinality({c \in Before \ OrphanKeys : c[1] = b})
<1>. DEFINE H == {c \in Before : c[1] = b}
            A == {c \in OrphanKeys : c[1] = b}
<1>1. Had(b) = Cardinality(H)
  <2>1. {l \in Suffixes : duty.before[<<b, l>>] # "none"} = {l \in Suffixes : <<b, l>> \in Before}
    BY DEF Before, Cells
  <2>2. Before \in SUBSET Cells
    BY DEF Before
  <2>. QED BY <2>1, <2>2, Slice DEF Had
<1>2. Has(b) = Cardinality(A)
  <2>1. OrphanKeys \in SUBSET Cells
    BY DEF OrphanKeys
  <2>. QED BY <2>1, Slice DEF Has
<1>3. H \in SUBSET Cells /\ A \in SUBSET Cells /\ H \cap A = A /\ H \ A = {c \in Before \ OrphanKeys : c[1] = b}
  BY DEF Before
<1>. HIDE DEF H, A
<1>4. IsFiniteSet(H) /\ Cardinality(H) \in Nat /\ Cardinality(A) \in Nat /\ Cardinality(H \ A) \in Nat
  <2>1. H \ A \in SUBSET Cells
    BY <1>3
  <2>. QED BY <1>3, <2>1, CellsAreFinite
<1>5. Cardinality(H \ A) = Cardinality(H) - Cardinality(A)
  BY <1>3, <1>4, FS_Difference
<1>6. Less(b) = Cardinality(H \ A)
  BY <1>1, <1>2, <1>4, <1>5 DEF Less
<1>. QED BY <1>3, <1>6

\* The sum over the branches is the number of cells.
LEMMA AddsUpTo ==
  ASSUME Bounded, OrphanKeys \subseteq Before
  PROVE  LessInAll = Cardinality(Before \ OrphanKeys)
<1>. DEFINE C == Before \ OrphanKeys
            Of(s) == {c \in C : c[1] \in s}
            g == [s \in SUBSET Kept |-> Cardinality(Of(s))]
            pick(s) == CHOOSE x \in s : TRUE
<1>1. C \in SUBSET Cells
  BY DEF Before
<1>2. \A s \in SUBSET Kept : s # {} => pick(s) \in s
  OBVIOUS
<1>3. ASSUME NEW s \in SUBSET Kept, s # {} PROVE g[s] = Less(pick(s)) + g[s \ {pick(s)}]
  <2>. DEFINE x == pick(s)
              D == {c \in C : c[1] = x}
              E == Of(s \ {x})
  <2>1. x \in s /\ x \in Kept /\ s \ {x} \in SUBSET Kept
    BY <1>2, <1>3
  <2>. HIDE DEF x
  <2>2. Of(s) = D \cup E /\ D \cap E = {} /\ D \in SUBSET Cells /\ E \in SUBSET Cells
    BY <1>1, <2>1
  <2>3. Less(x) = Cardinality(D)
    BY <2>1, LessIs
  <2>4. g[s] = Cardinality(Of(s)) /\ g[s \ {x}] = Cardinality(E)
    BY <2>1
  <2>. HIDE DEF C, D, E, Of, g
  <2>5. /\ IsFiniteSet(D) /\ Cardinality(D) \in Nat /\ IsFiniteSet(E) /\ Cardinality(E) \in Nat
    BY <2>2, CellsAreFinite
  <2>6. Cardinality(D \cup E) = Cardinality(D) + Cardinality(E) - Cardinality(D \cap E)
    BY <2>5, FS_Union
  <2>7. Cardinality(D \cap E) = 0
    BY <2>2, FS_EmptySet
  <2>8. g[s] = Less(x) + g[s \ {x}]
    BY <2>2, <2>3, <2>4, <2>5, <2>6, <2>7
  <2>. QED BY <2>8 DEF x
<1>4. g[{}] = 0
  <2>1. Of({}) = {}
    OBVIOUS
  <2>. HIDE DEF Of
  <2>2. g[{}] = Cardinality(Of({}))
    OBVIOUS
  <2>. HIDE DEF g
  <2>. QED BY <2>1, <2>2, FS_EmptySet
<1>5. IsLess(g)
  <2>1. \A s \in SUBSET Kept : g[s] = IF s = {} THEN 0 ELSE Less(pick(s)) + g[s \ {pick(s)}]
    <3>. HIDE DEF g, pick
    <3>. QED BY <1>3, <1>4
  <2>2. g = [s \in SUBSET Kept |-> g[s]]
    OBVIOUS
  <2>. HIDE DEF g
  <2>3. g = [s \in SUBSET Kept |-> IF s = {} THEN 0 ELSE Less(pick(s)) + g[s \ {pick(s)}]]
    BY <2>1, <2>2
  <2>. QED BY <2>3, Zenon DEF IsLess
<1>. DEFINE h == CHOOSE f : IsLess(f)
<1>6. IsLess(h)
  <2>. HIDE DEF g
  <2>. QED BY <1>5, Zenon
<1>. HIDE DEF h
<1>7. \A s \in SUBSET Kept : h[s] = IF s = {} THEN 0 ELSE Less(pick(s)) + h[s \ {pick(s)}]
  BY <1>6, Zenon DEF IsLess
<1>. DEFINE T == {m \in Nat : \A s \in SUBSET Kept : Cardinality(s) <= m => h[s] = g[s]}
<1>8. \A s \in SUBSET Kept : IsFiniteSet(s) /\ Cardinality(s) \in Nat /\ (Cardinality(s) = 0 <=> s = {})
  BY FS_Subset, FS_CardinalityType, FS_EmptySet DEF Bounded
<1>. HIDE DEF g, pick
<1>9. 0 \in T
  <2>1. \A s \in SUBSET Kept : Cardinality(s) <= 0 => s = {}
    BY <1>8
  <2>2. h[{}] = 0
    BY <1>7
  <2>. QED BY <1>4, <2>1, <2>2
<1>10. ASSUME NEW m \in T PROVE m + 1 \in T
  <2>1. ASSUME NEW s \in SUBSET Kept, Cardinality(s) <= m + 1 PROVE h[s] = g[s]
    <3>1. CASE s = {}
      BY <1>4, <1>7, <3>1
    <3>2. CASE s # {}
      <4>1. pick(s) \in s /\ s \ {pick(s)} \in SUBSET Kept
        BY <1>2, <3>2
      <4>2. Cardinality(s \ {pick(s)}) = Cardinality(s) - 1
        BY <1>8, <4>1, FS_RemoveElement
      <4>3. Cardinality(s \ {pick(s)}) <= m
        BY <1>8, <2>1, <4>2
      <4>4. h[s \ {pick(s)}] = g[s \ {pick(s)}]
        BY <4>1, <4>3
      <4>. QED BY <1>3, <1>7, <3>2, <4>4
    <3>. QED BY <3>1, <3>2
  <2>. QED BY <2>1
<1>11. T = Nat
  <2>1. T \in SUBSET Nat
    OBVIOUS
  <2>. HIDE DEF T
  <2>. QED BY <1>9, <1>10, <2>1, Counted
<1>12. h[Kept] = g[Kept]
  <2>1. Kept \in SUBSET Kept /\ Cardinality(Kept) \in T /\ Cardinality(Kept) <= Cardinality(Kept)
    <3>. HIDE DEF T
    <3>. QED BY <1>8, <1>11
  <2>. QED BY <2>1
<1>13. g[Kept] = Cardinality(C)
  <2>1. Of(Kept) = C
    BY <1>1 DEF Cells
  <2>. HIDE DEF C, Of
  <2>. QED BY <2>1 DEF g
<1>. QED BY <1>12, <1>13, Zenon DEF LessInAll, h

-----------------------------------------------------------------------------
(* The doctor, its --fix, and prune. *)

Results == {"none", "ok", "warning", "failed"}
Duties ==
  [job : {"none", "fix", "doctor", "prune", "preview", "when"},
   at : {"start", "dropping", "listed", "pruning", "done"},
   before : [Cells -> Shapes], todo : SUBSET Cells, listed : [Kept -> Entries], plan : SUBSET Kept,
   when : Seq(Tokens), ran : BOOLEAN, fixed : BOOLEAN, pruned : Nat]
Reports == [checks : [Checks -> Results], advice : SUBSET Kept, purged : Nat, remaining : Nat]

HouseTyped ==
  /\ live \subseteq Kept /\ merged \subseteq Kept /\ noted \subseteq Kept /\ gone \subseteq Cells
  /\ keys \in [Cells -> Shapes] /\ entry \in [Kept -> Entries] /\ setup \in Setups
  /\ duty \in Duties /\ report \in Reports /\ hands \in 0 .. MaxHands
  /\ duty.pruned + Cardinality(duty.plan) <= Cardinality(Kept)
  /\ duty.at \in {"start", "dropping"} => duty.pruned = 0
  /\ duty.at = "dropping" => duty.job = "fix"
  /\ duty.at = "listed" => duty.job = "doctor"
  /\ duty.at = "pruning" => duty.job = "prune"
  /\ duty.job = "fix" => duty.at \in {"start", "dropping"}

\* Of the keys that were found, those that are not gone are there.
Accounted ==
  /\ duty.job = "fix" /\ duty.at = "start" => gone = {}
  /\ duty.at = "dropping" => /\ gone \subseteq Before /\ OrphanKeys = Before \ gone
                             /\ \A c \in duty.todo : c[1] \notin live

\* What the first half of the doctor found is so.
AsSetUp ==
  /\ report.checks["config"] = CheckConfigParses(setup)
  /\ report.checks["guards"] = CheckGuardReferences(setup)
  /\ report.checks["when"] = CheckWhenPredicates(setup)
  /\ report.checks["binaries"] = CheckBinariesOnPath(setup)
  /\ report.checks["prunable"] = IF setup.list = "fine" THEN CheckPrunable(entry) ELSE "failed"
  /\ duty.listed = entry

KeptInv ==
  /\ HouseTyped /\ Accounted
  /\ duty.at = "listed" /\ hands = 0 => AsSetUp
  /\ FixTellsWhatItDid /\ HealthIsReal /\ WhenMeansWhatItSays

LEMMA KeptImplies == ASSUME Bounded, KeptInv PROVE HousekeepingHolds
<1>1. HouseTypeOK
  <2>1. HouseTyped
    BY DEF KeptInv
  <2>2. duty.pruned \in 0 .. Cardinality(Kept)
    <3>1. duty.pruned \in Nat /\ duty.plan \in SUBSET Kept
      BY <2>1 DEF HouseTyped, Duties
    <3>2. Cardinality(duty.plan) \in Nat /\ Cardinality(Kept) \in Nat
      BY <3>1, FS_Subset, FS_CardinalityType DEF Bounded
    <3>. QED BY <2>1, <3>1, <3>2 DEF HouseTyped
  <2>3. /\ setup.file \in Files /\ setup.global \in Globals
        /\ \E c \in Contents : setup = In(c, setup.file, setup.global)
    <3>1. PICK c \in Contents, f \in Files, g \in Globals : setup = In(c, f, g)
      BY <2>1 DEF HouseTyped, Setups
    <3>2. setup.file = f /\ setup.global = g
      BY <3>1 DEF In
    <3>. QED BY <3>1, <3>2
  <2>. QED BY <2>1, <2>2, <2>3 DEF HouseTyped, HouseTypeOK, Duties, Reports, Results
<1>. QED BY <1>1 DEF KeptInv, HousekeepingHolds

Fresh(j, w) == [Job(j) EXCEPT !.when = w]

LEMMA JobIs ==
  ASSUME NEW j \in {"fix", "doctor", "prune", "preview", "when"}, NEW w \in Seq(Tokens)
  PROVE  /\ Fresh(j, w) \in Duties /\ Fresh(j, w).job = j
         /\ Fresh(j, w).at = "start" /\ Fresh(j, w).plan = {}
         /\ Fresh(j, w).pruned = 0 /\ ~ Fresh(j, w).fixed
<1>1. [c \in Cells |-> "none"] \in [Cells -> Shapes] /\ [b \in Kept |-> "none"] \in [Kept -> Entries]
  BY DEF Shapes, Entries
<1>2. Idle \in Duties /\ Idle.plan = {} /\ Idle.pruned = 0 /\ ~ Idle.fixed
  <2>. HIDE DEF Cells, Shapes, Entries
  <2>. QED BY <1>1 DEF Duties, Idle
<1>3. /\ Job(j) \in Duties /\ Job(j).job = j /\ Job(j).at = "start" /\ Job(j).plan = {}
      /\ Job(j).pruned = 0 /\ ~ Job(j).fixed
  BY <1>2 DEF Job, Duties
<1>. HIDE DEF Duties
<1>. QED BY <1>3 DEF Fresh, Duties

LEMMA AnyJob == \A j : Fresh(j, <<>>) = Job(j)
<1>1. DOMAIN Idle = {"job", "at", "before", "todo", "listed", "plan", "when", "ran", "fixed", "pruned"}
      /\ Idle.when = <<>> /\ Idle = [x \in DOMAIN Idle |-> Idle[x]]
  BY DEF Idle
<1>. QED BY <1>1 DEF Fresh, Job

LEMMA KeptInit == ASSUME Bounded, HouseInit PROVE KeptInv
<1>1. \E j \in {"fix", "doctor", "prune", "preview", "when"}, w \in Seq(Tokens) : duty = Fresh(j, w)
  <2>1. <<>> \in Seq(Tokens)
    OBVIOUS
  <2>2. \/ duty = Fresh("fix", <<>>) \/ duty = Fresh("doctor", <<>>) \/ duty = Fresh("prune", <<>>)
        \/ duty = Fresh("preview", <<>>)
        \/ \E t \in UNION {[1 .. n -> Tokens] : n \in 0 .. MaxWhen} : duty = Fresh("when", t)
    <3>1. \/ duty = Job("fix") \/ duty = Job("doctor") \/ duty = Job("prune") \/ duty = Job("preview")
          \/ \E t \in UNION {[1 .. n -> Tokens] : n \in 0 .. MaxWhen} : duty = [Job("when") EXCEPT !.when = t]
      BY Zenon DEF HouseInit
    <3>. QED BY <3>1, AnyJob, Zenon DEF Fresh
  <2>3. ASSUME NEW t \in UNION {[1 .. n -> Tokens] : n \in 0 .. MaxWhen} PROVE t \in Seq(Tokens)
    <3>1. PICK n \in 0 .. MaxWhen : t \in [1 .. n -> Tokens]
      OBVIOUS
    <3>2. n \in Nat
      BY DEF Bounded
    <3>. QED BY <3>1, <3>2
  <2>. QED BY <2>1, <2>2, <2>3
<1>2. /\ duty \in Duties /\ duty.at = "start" /\ duty.plan = {} /\ duty.pruned = 0 /\ ~ duty.fixed
  BY <1>1, JobIs
<1>3. /\ live \subseteq Kept /\ merged \subseteq Kept /\ noted \subseteq Kept /\ setup \in Setups
      /\ keys \in [Cells -> Shapes] /\ entry \in [Kept -> Entries]
  <2>1. Fine \in Setups
    <3>1. Fine = In(Fine, "fine", "fine")
      BY DEF Fine, In
    <3>2. Fine \in Contents /\ "fine" \in Files /\ "fine" \in Globals
      BY DEF Contents, Files, Globals
    <3>. QED BY <3>1, <3>2 DEF Setups
  <2>2. [c \in Cells |-> "none"] \in [Cells -> Shapes] /\ [b \in Kept |-> "none"] \in [Kept -> Entries]
    BY DEF Shapes, Entries
  <2>. HIDE DEF Fine, Setups, Shapes, Entries, Cells
  <2>. QED BY <2>1, <2>2 DEF HouseInit
<1>4. report = NoReport /\ gone = {} /\ hands = 0
  BY DEF HouseInit
<1>5. report \in Reports
  BY <1>4 DEF NoReport, Reports, Unsaid, Results
<1>6. Cardinality({}) = 0 /\ Cardinality(Kept) \in Nat
  BY FS_EmptySet, FS_CardinalityType DEF Bounded
<1>7. HouseTyped
  BY <1>2, <1>3, <1>4, <1>5, <1>6 DEF HouseTyped, Bounded
<1>. QED BY <1>2, <1>4, <1>7 DEF KeptInv, Accounted, FixTellsWhatItDid, HealthIsReal, WhenMeansWhatItSays

ProgramsFound == \A l \in Lines : l.runs \in ExecutableIn(l.line) \ {"cd", "{path}", "./run"}

LEMMA FixKeeps ==
  ASSUME KeptInv, ListOrphans \/ \E c \in Cells : Drop(c) PROVE KeptInv'
<1>1. HouseTyped /\ Accounted /\ duty \in Duties
  BY DEF KeptInv, HouseTyped
<1>2. CASE ListOrphans
  <2>1. /\ UNCHANGED <<live, keys, entry, merged, noted, setup, report, gone, hands>>
        /\ duty.job = "fix" /\ duty.at = "start"
        /\ duty' = [duty EXCEPT !.at = "dropping", !.todo = OrphanKeys,
                               !.before = [c \in Cells |-> IF c \in OrphanKeys THEN keys[c] ELSE "none"]]
    BY <1>2 DEF ListOrphans
  <2>2. [c \in Cells |-> IF c \in OrphanKeys THEN keys[c] ELSE "none"] \in [Cells -> Shapes]
    <3>1. \A c \in Cells : keys[c] \in Shapes
      BY <1>1 DEF HouseTyped
    <3>. QED BY <3>1 DEF Shapes
  <2>3. OrphanKeys \in SUBSET Cells
    BY DEF OrphanKeys
  <2>4. /\ duty' \in Duties /\ duty'.job = "fix" /\ duty'.at = "dropping"
        /\ duty'.plan = duty.plan /\ duty'.pruned = duty.pruned /\ duty'.todo = OrphanKeys
        /\ duty'.before = [c \in Cells |-> IF c \in OrphanKeys THEN keys[c] ELSE "none"]
    <3>. DEFINE was == [c \in Cells |-> IF c \in OrphanKeys THEN keys[c] ELSE "none"]
    <3>. HIDE DEF was, Cells, Shapes, Entries
    <3>. QED BY <1>1, <2>1, <2>2, <2>3 DEF Duties, was
  <2>5. OrphanKeys' = OrphanKeys /\ gone' = {} /\ \A c \in OrphanKeys : c[1] \notin live
    BY <1>1, <2>1 DEF OrphanKeys, Accounted
  <2>6. Before' = OrphanKeys
    <3>1. \A c \in OrphanKeys : keys[c] # "none"
      BY DEF OrphanKeys
    <3>2. Before' = {c \in Cells : duty'.before[c] # "none"}
      BY DEF Before, Cells
    <3>. HIDE DEF Cells
    <3>. QED BY <2>3, <2>4, <3>1, <3>2
  <2>7. HouseTyped'
    BY <1>1, <2>1, <2>4 DEF HouseTyped, Cells
  <2>8. Accounted'
    BY <2>1, <2>4, <2>5, <2>6 DEF Accounted
  <2>. QED BY <2>4, <2>7, <2>8 DEF KeptInv, FixTellsWhatItDid, HealthIsReal, WhenMeansWhatItSays
<1>3. ASSUME NEW c \in Cells, Drop(c) PROVE KeptInv'
  <2>1. /\ UNCHANGED <<live, entry, merged, noted, setup, report, hands>>
        /\ duty.job = "fix" /\ duty.at = "dropping" /\ c \in duty.todo
        /\ duty' = [duty EXCEPT !.todo = @ \ {c}]
        /\ gone' = IF keys'[c] # keys[c] THEN gone \cup {c} ELSE gone
        /\ keys' \in {keys, [keys EXCEPT ![c] = Removed(duty.before[c], @)]}
    BY <1>3 DEF Drop
  <2>2. \A was : Removed(was, keys[c]) \in {"none", keys[c]}
    BY DEF Removed
  <2>3. keys' \in {keys, [keys EXCEPT ![c] = "none"]}
    <3>1. keys' = keys \/ keys' = [keys EXCEPT ![c] = Removed(duty.before[c], keys[c])]
      BY <2>1
    <3>2. [keys EXCEPT ![c] = keys[c]] = keys
      BY <1>1 DEF HouseTyped
    <3>. QED BY <2>2, <3>1, <3>2
  <2>4. /\ duty' \in Duties /\ duty'.job = "fix" /\ duty'.at = "dropping" /\ duty'.before = duty.before
        /\ duty'.plan = duty.plan /\ duty'.pruned = duty.pruned /\ duty'.todo = duty.todo \ {c}
    <3>. HIDE DEF Cells, Shapes, Entries
    <3>. QED BY <1>1, <2>1 DEF Duties
  <2>5. /\ gone \subseteq Before /\ OrphanKeys = Before \ gone
        /\ \A d \in duty.todo : d[1] \notin live
    BY <1>1, <2>1 DEF Accounted
  <2>6. keys' \in [Cells -> Shapes]
    BY <1>1, <2>3 DEF HouseTyped, Shapes
  <2>7. gone' \subseteq Before' /\ OrphanKeys' = Before' \ gone'
    <3>1. Before' = Before
      BY <2>4 DEF Before
    <3>2. \A d \in Cells : d \in OrphanKeys' <=> keys'[d] # "none" /\ d[1] \notin live
      BY <2>1 DEF OrphanKeys
    <3>3. \A d \in Cells : d \in OrphanKeys <=> keys[d] # "none" /\ d[1] \notin live
      BY DEF OrphanKeys
    <3>4. OrphanKeys' \subseteq Cells /\ Before \subseteq Cells
      BY DEF OrphanKeys, Before
    <3>5. CASE keys' = keys
      BY <2>1, <2>5, <3>1, <3>2, <3>3, <3>4, <3>5
    <3>6. CASE keys' # keys
      <4>1. keys' = [keys EXCEPT ![c] = "none"] /\ keys[c] # "none" /\ keys'[c] = "none"
        BY <1>1, <2>3, <3>6 DEF HouseTyped
      <4>2. c \in OrphanKeys /\ gone' = gone \cup {c}
        BY <2>1, <2>5, <3>3, <4>1
      <4>3. \A d \in Cells : d # c => keys'[d] = keys[d]
        BY <4>1
      <4>4. \A d \in Cells : d \in OrphanKeys' <=> d \in OrphanKeys /\ d # c
        BY <3>2, <3>3, <4>1, <4>3
      <4>. QED BY <2>5, <3>1, <3>4, <4>2, <4>4
    <3>. QED BY <3>5, <3>6
  <2>8. HouseTyped'
    <3>1. gone' \subseteq Cells
      BY <1>1, <2>1 DEF HouseTyped
    <3>. HIDE DEF Cells, Shapes, Entries
    <3>. QED BY <1>1, <2>1, <2>4, <2>6, <3>1 DEF HouseTyped
  <2>9. Accounted'
    BY <2>1, <2>4, <2>5, <2>7 DEF Accounted
  <2>. QED BY <2>4, <2>8, <2>9 DEF KeptInv, FixTellsWhatItDid, HealthIsReal, WhenMeansWhatItSays
<1>. QED BY <1>2, <1>3

LEMMA ReadBackKeeps == ASSUME Bounded, KeptInv, ReadBack PROVE KeptInv'
<1>1. HouseTyped /\ Accounted /\ duty \in Duties /\ report \in Reports
  BY DEF KeptInv, HouseTyped
<1>2. /\ UNCHANGED <<live, keys, entry, merged, noted, setup, gone, hands>>
      /\ duty.job = "fix" /\ duty.at = "dropping"
      /\ duty' = [duty EXCEPT !.job = "doctor", !.at = "start", !.fixed = TRUE]
  BY DEF ReadBack
<1>3. gone \subseteq Before /\ OrphanKeys = Before \ gone
  BY <1>1, <1>2 DEF Accounted
<1>4. LessInAll = Cardinality(gone)
  <2>1. Before \ OrphanKeys = gone /\ OrphanKeys \subseteq Before
    BY <1>3
  <2>. QED BY <2>1, AddsUpTo
<1>5. report' = [report EXCEPT !.purged = Cardinality(gone), !.remaining = Cardinality(Before \ gone)]
  BY <1>3, <1>4, ReadBackTells, Zenon
<1>6. Cardinality(gone) \in Nat /\ Cardinality(Before \ gone) \in Nat
  <2>1. gone \in SUBSET Cells /\ Before \ gone \in SUBSET Cells
    BY <1>1 DEF HouseTyped, Before
  <2>. QED BY <2>1, CellsAreFinite
<1>7. /\ report' \in Reports /\ report'.purged = Cardinality(gone)
      /\ report'.remaining = Cardinality(Before \ gone)
  BY <1>1, <1>5, <1>6 DEF Reports
<1>8. /\ duty' \in Duties /\ duty'.job = "doctor" /\ duty'.at = "start" /\ duty'.before = duty.before
      /\ duty'.plan = duty.plan /\ duty'.pruned = duty.pruned
  <2>. HIDE DEF Cells, Shapes, Entries
  <2>. QED BY <1>1, <1>2 DEF Duties
<1>9. HouseTyped'
  <2>. HIDE DEF Cells, Shapes, Entries
  <2>. QED BY <1>1, <1>2, <1>7, <1>8 DEF HouseTyped
<1>10. FixTellsWhatItDid'
  BY <1>2, <1>7, <1>8 DEF FixTellsWhatItDid, Before
<1>. QED BY <1>8, <1>9, <1>10 DEF KeptInv, Accounted, HealthIsReal, WhenMeansWhatItSays

LEMMA ListTreesKeeps == ASSUME KeptInv, ListTrees PROVE KeptInv'
<1>1. HouseTyped /\ duty \in Duties /\ report \in Reports /\ entry \in [Kept -> Entries]
  BY DEF KeptInv, HouseTyped
<1>2. /\ UNCHANGED <<live, keys, entry, merged, noted, setup, gone, hands>>
      /\ duty.job = "doctor" /\ duty.at = "start"
      /\ duty' = [duty EXCEPT !.at = "listed", !.listed = entry]
  BY DEF ListTrees
<1>. DEFINE pruned == IF setup.list = "fine" THEN CheckPrunable(entry) ELSE "failed"
            found == [report.checks EXCEPT
                        !["config"] = CheckConfigParses(setup), !["guards"] = CheckGuardReferences(setup),
                        !["when"] = CheckWhenPredicates(setup), !["binaries"] = CheckBinariesOnPath(setup),
                        !["prunable"] = pruned]
<1>3. report' = [report EXCEPT !.checks = found]
  BY DEF ListTrees
<1>4. \A bad, warn : Verdict(bad, warn) \in Results
  BY DEF Verdict, Results
<1>5. /\ CheckConfigParses(setup) \in Results /\ CheckGuardReferences(setup) \in Results
      /\ CheckWhenPredicates(setup) \in Results /\ CheckBinariesOnPath(setup) \in Results
      /\ pruned \in Results
  BY <1>4 DEF CheckConfigParses, CheckGuardReferences, CheckWhenPredicates, CheckBinariesOnPath,
     CheckPrunable, Results
<1>6. /\ found \in [Checks -> Results] /\ found["config"] = CheckConfigParses(setup)
      /\ found["guards"] = CheckGuardReferences(setup) /\ found["when"] = CheckWhenPredicates(setup)
      /\ found["binaries"] = CheckBinariesOnPath(setup) /\ found["prunable"] = pruned
  <2>1. report.checks \in [Checks -> Results]
    BY <1>1 DEF Reports
  <2>. HIDE DEF pruned
  <2>. QED BY <1>5, <2>1 DEF Checks
<1>. HIDE DEF found
<1>7. /\ report' \in Reports /\ report'.checks = found
      /\ report'.purged = report.purged /\ report'.remaining = report.remaining
  BY <1>1, <1>3, <1>6 DEF Reports
<1>8. /\ duty' \in Duties /\ duty'.job = "doctor" /\ duty'.at = "listed" /\ duty'.before = duty.before
      /\ duty'.plan = duty.plan /\ duty'.pruned = duty.pruned /\ duty'.fixed = duty.fixed
      /\ duty'.listed = entry
  <2>. HIDE DEF Cells, Shapes, Entries
  <2>. QED BY <1>1, <1>2 DEF Duties
<1>9. HouseTyped'
  <2>. HIDE DEF Cells, Shapes, Entries
  <2>. QED BY <1>1, <1>2, <1>7, <1>8 DEF HouseTyped
<1>10. AsSetUp'
  <2>1. UNCHANGED <<entry, setup>>
    BY <1>2
  <2>2. CheckBinariesOnPath(setup)' = CheckBinariesOnPath(setup) /\ CheckPrunable(entry)' = CheckPrunable(entry)
    BY <2>1, Zenon DEF CheckBinariesOnPath, CheckPrunable
  <2>3. CheckConfigParses(setup)' = CheckConfigParses(setup) /\ CheckGuardReferences(setup)' = CheckGuardReferences(setup)
        /\ CheckWhenPredicates(setup)' = CheckWhenPredicates(setup)
    BY <2>1, Zenon DEF CheckConfigParses, CheckGuardReferences, CheckWhenPredicates
  <2>. QED BY <1>6, <1>7, <1>8, <2>1, <2>2, <2>3 DEF AsSetUp
<1>11. FixTellsWhatItDid'
  BY <1>2, <1>7, <1>8 DEF KeptInv, FixTellsWhatItDid
<1>. QED BY <1>8, <1>9, <1>10, <1>11 DEF KeptInv, Accounted, HealthIsReal, WhenMeansWhatItSays

\* The configurations that the doctor can meet, a part at a time.
LEMMA SetupIs ==
  ASSUME NEW s \in Setups
  PROVE  /\ s.keymap \in {"fine", "conflict", "modalConflict", "noQuit"} /\ s.pattern \in {"fine", "lossy"}
         /\ s.step = NoStep \/ \E l \in Lines : s.step.line = l.line /\ s.step.runs = l.runs
<1>. DEFINE A == {Fine, [Fine EXCEPT !.guards = "dangling"]}
            D == {[Fine EXCEPT !.baseDir = b] : b \in {"unexpandable", "readOnly", "rootless",
                    "parentMissing", "parentWritable", "parentReadOnly"}}
            E == {[Fine EXCEPT !.keymap = k] : k \in {"conflict", "modalConflict", "noQuit"}}
            F == {[Fine EXCEPT !.pattern = "lossy"], [Fine EXCEPT !.list = "unreadable"]}
            G == {[Fine EXCEPT !.step = [line |-> l.line, runs |-> l.runs, when |-> w, given |-> g]] :
                    l \in Lines, w \in {<<>>, <<"yes">>, <<"no">>, <<"envYes">>, <<"unknown">>,
                                        <<"not", "yes">>, <<"no", "or", "envYes">>},
                    g \in BOOLEAN}
<1>1. PICK c \in Contents, f \in Files, g \in Globals : s = In(c, f, g)
  BY DEF Setups
<1>. USE DEF In
<1>2. CASE c \in A
  <2>1. s.keymap = "fine" /\ s.pattern = "fine" /\ s.step = NoStep
    BY <1>1, <1>2 DEF Fine
  <2>. QED BY <2>1
<1>3. CASE c \in D
  <2>1. PICK b : c = [Fine EXCEPT !.baseDir = b]
    BY <1>3
  <2>2. s.keymap = "fine" /\ s.pattern = "fine" /\ s.step = NoStep
    BY <1>1, <2>1 DEF Fine
  <2>. QED BY <2>2
<1>4. CASE c \in E
  <2>1. PICK k \in {"conflict", "modalConflict", "noQuit"} : c = [Fine EXCEPT !.keymap = k]
    BY <1>4
  <2>2. s.keymap = k /\ s.pattern = "fine" /\ s.step = NoStep
    BY <1>1, <2>1 DEF Fine
  <2>. QED BY <2>2
<1>5. CASE c \in F
  <2>1. s.keymap = "fine" /\ s.pattern \in {"fine", "lossy"} /\ s.step = NoStep
    BY <1>1, <1>5 DEF Fine
  <2>. QED BY <2>1
<1>6. CASE c \in G
  <2>1. PICK l \in Lines : \E w, e : c = [Fine EXCEPT !.step = [line |-> l.line, runs |-> l.runs, when |-> w, given |-> e]]
    BY <1>6
  <2>2. PICK w, e : c = [Fine EXCEPT !.step = [line |-> l.line, runs |-> l.runs, when |-> w, given |-> e]]
    BY <2>1
  <2>3. s.keymap = "fine" /\ s.pattern = "fine" /\ s.step.line = l.line /\ s.step.runs = l.runs
    BY <1>1, <2>2 DEF Fine
  <2>. QED BY <2>3
<1>7. c \in A \/ c \in D \/ c \in E \/ c \in F \/ c \in G
  <2>1. c \in A \cup D \cup E \cup F \cup G
    BY DEF Contents
  <2>. HIDE DEF A, D, E, F, G
  <2>. QED BY <2>1
<1>. HIDE DEF A, D, E, F, G
<1>. QED BY <1>2, <1>3, <1>4, <1>5, <1>6, <1>7

\* What the second half finds, with the first as it was.
LEMMA Found ==
  ASSUME report \in Reports, live \subseteq Kept, Diagnose
  PROVE  /\ report' \in Reports /\ report'.purged = report.purged /\ report'.remaining = report.remaining
         /\ \A c \in {"config", "guards", "when", "binaries", "prunable"} : report'.checks[c] = report.checks[c]
         /\ report'.checks["notes"] = Verdict(FALSE, OrphanNotes # {})
         /\ report'.checks["keys"] = Verdict(FALSE, OrphanKeys # {})
         /\ report'.checks["base"] = CheckBaseDirWritable(setup)
         /\ report'.checks["keymap"] = CheckTuiKeymap(setup)
         /\ report'.checks["pattern"] = CheckBranchPattern(setup)
         /\ \/ report'.checks["branches"] = "failed"
            \/ report'.checks["branches"] = "ok" /\ OrphanBranches({b \in Kept : duty.listed[b] = "tree"}) = {}
            \/ report'.checks["branches"] = "warning"
<1>. DEFINE all == OrphanBranches({b \in Kept : duty.listed[b] = "tree"})
<1>1. PICK readable \in BOOLEAN :
        report' = [report EXCEPT
              !.advice = IF readable /\ setup.list = "fine" THEN all ELSE {},
              !.checks = [@ EXCEPT
                 !["branches"] = Verdict(setup.list # "fine" \/ ~ readable,
                                         (IF readable /\ setup.list = "fine" THEN all ELSE {}) # {}),
                 !["notes"] = Verdict(FALSE, OrphanNotes # {}),
                 !["keys"] = Verdict(FALSE, OrphanKeys # {}),
                 !["base"] = CheckBaseDirWritable(setup),
                 !["keymap"] = CheckTuiKeymap(setup),
                 !["pattern"] = CheckBranchPattern(setup)]]
  BY Zenon DEF Diagnose
<1>2. all \in SUBSET Kept
  BY DEF OrphanBranches
<1>. DEFINE orphans == IF readable /\ setup.list = "fine" THEN all ELSE {}
            branches == Verdict(setup.list # "fine" \/ ~ readable, orphans # {})
            notes == Verdict(FALSE, OrphanNotes # {})
            left == Verdict(FALSE, OrphanKeys # {})
            found == [report.checks EXCEPT
                 !["branches"] = branches, !["notes"] = notes, !["keys"] = left,
                 !["base"] = CheckBaseDirWritable(setup),
                 !["keymap"] = CheckTuiKeymap(setup), !["pattern"] = CheckBranchPattern(setup)]
<1>3. report' = [report EXCEPT !.advice = orphans, !.checks = found]
  BY <1>1, Zenon
<1>4. \A bad, warn : Verdict(bad, warn) \in Results
  BY DEF Verdict, Results
<1>5. /\ branches \in Results /\ notes \in Results /\ left \in Results /\ CheckBaseDirWritable(setup) \in Results
      /\ CheckTuiKeymap(setup) \in Results /\ CheckBranchPattern(setup) \in Results
  BY <1>4 DEF CheckBaseDirWritable, CheckTuiKeymap, CheckBranchPattern
<1>6. branches = "failed" \/ (branches = "ok" /\ all = {}) \/ branches = "warning"
  BY DEF Verdict
<1>7. orphans \in SUBSET Kept /\ report.checks \in [Checks -> Results]
  BY <1>2 DEF Reports
<1>. HIDE DEF orphans, branches, notes, left, all
<1>8. /\ found \in [Checks -> Results] /\ found["branches"] = branches /\ found["notes"] = notes
      /\ found["keys"] = left /\ found["base"] = CheckBaseDirWritable(setup)
      /\ found["keymap"] = CheckTuiKeymap(setup) /\ found["pattern"] = CheckBranchPattern(setup)
      /\ \A c \in {"config", "guards", "when", "binaries", "prunable"} : found[c] = report.checks[c]
  BY <1>5, <1>7 DEF Checks
<1>. HIDE DEF found
<1>9. /\ report' \in Reports /\ report'.checks = found
      /\ report'.purged = report.purged /\ report'.remaining = report.remaining
  BY <1>3, <1>7, <1>8 DEF Reports
<1>. QED BY <1>6, <1>8, <1>9 DEF notes, left, all

LEMMA WellIsWell ==
  ASSUME ProgramsFound, KeptInv, Diagnose, hands = 0, ExitCode(report'.checks) = 0
  PROVE  ~ Ailing
<1>1. HouseTyped /\ AsSetUp /\ setup \in Setups /\ live \subseteq Kept /\ report \in Reports
  BY DEF KeptInv, HouseTyped, Diagnose
<1>2. \A c \in Checks : report'.checks[c] # "failed" /\ report'.checks[c] # "warning"
  BY DEF ExitCode
<1>3. \A bad, warn : (Verdict(bad, warn) # "failed" /\ Verdict(bad, warn) # "warning") => ~ bad /\ ~ warn
  BY DEF Verdict
<1>4. \A c \in {"config", "guards", "when", "binaries", "prunable"} :
        report.checks[c] # "failed" /\ report.checks[c] # "warning"
  BY <1>1, <1>2, Found DEF Checks
<1>5. setup.file \notin {"unreadable", "invalid", "badProfile"} /\ (Loads(setup) => Step(setup) = setup.step)
  BY <1>1, <1>3, <1>4 DEF AsSetUp, CheckConfigParses, Step
<1>6. Loads(setup) => setup.guards # "dangling" /\ "unknown" \notin AtomsOf(setup.step.when) /\ Needed(setup.step) \subseteq Present
  BY <1>1, <1>3, <1>4, <1>5 DEF AsSetUp, CheckGuardReferences, CheckWhenPredicates, CheckBinariesOnPath
<1>7. setup.list = "fine" /\ ~ \E b \in Kept : entry[b] = "missing"
  BY <1>1, <1>3, <1>4 DEF AsSetUp, CheckPrunable, Prunable
<1>8. OrphanNotes = {} /\ OrphanKeys = {}
  <2>1. /\ report'.checks["notes"] = Verdict(FALSE, OrphanNotes # {})
        /\ report'.checks["keys"] = Verdict(FALSE, OrphanKeys # {})
    BY <1>1, Found
  <2>. QED BY <1>2, <1>3, <2>1 DEF Checks
<1>9. /\ setup.baseDir \notin {"unexpandable", "readOnly", "parentReadOnly", "parentMissing"}
      /\ Merges(setup) => setup.keymap = "fine" /\ setup.pattern = "fine"
  <2>1. /\ report'.checks["base"] = CheckBaseDirWritable(setup)
        /\ report'.checks["keymap"] = CheckTuiKeymap(setup)
        /\ report'.checks["pattern"] = CheckBranchPattern(setup)
    BY <1>1, Found
  <2>2. /\ setup.baseDir \notin {"unexpandable", "readOnly", "parentReadOnly"} /\ setup.baseDir # "parentMissing"
        /\ Merges(setup) => setup.keymap \notin {"conflict", "modalConflict", "noQuit"} /\ setup.pattern # "lossy"
    BY <1>2, <1>3, <2>1 DEF Checks, CheckBaseDirWritable, CheckTuiKeymap, CheckBranchPattern
  <2>. QED BY <1>1, <2>2, SetupIs
<1>10. OrphanBranches(Claimed) = {}
  <2>1. report'.checks["branches"] # "failed" /\ report'.checks["branches"] # "warning"
    BY <1>2 DEF Checks
  <2>2. OrphanBranches({b \in Kept : duty.listed[b] = "tree"}) = {}
    BY <1>1, <2>1, Found
  <2>. QED BY <1>1, <2>2 DEF AsSetUp, Claimed
<1>11. Loads(setup) => ~ (setup.step.line # <<>> /\ setup.step.given /\ EvaluateWhen(setup.step.when) /\ setup.step.runs \notin Present)
  <2>1. ASSUME Loads(setup), setup.step.line # <<>>, setup.step.given, EvaluateWhen(setup.step.when) PROVE setup.step.runs \in Present
    <3>1. setup.step # NoStep
      <4>1. \A e : [line |-> <<>>, runs |-> e, when |-> <<>>, given |-> TRUE].line = <<>>
        OBVIOUS
      <4>2. NoStep.line = <<>>
        BY <4>1, Zenon DEF NoStep
      <4>. QED BY <2>1, <4>2
    <3>2. PICK l \in Lines : setup.step.line = l.line /\ setup.step.runs = l.runs
      BY <1>1, <3>1, SetupIs
    <3>3. Needed(setup.step) = ExecutableIn(setup.step.line) \ {"cd", "{path}", "./run"}
      BY <2>1 DEF Needed, GatedOff
    <3>. QED BY <1>6, <2>1, <3>2, <3>3 DEF ProgramsFound
  <2>. QED BY <2>1
<1>. QED BY <1>5, <1>6, <1>7, <1>8, <1>9, <1>10, <1>11, Zenon DEF Ailing

LEMMA DiagnoseKeeps == ASSUME ProgramsFound, KeptInv, Diagnose PROVE KeptInv'
<1>1. HouseTyped /\ duty \in Duties /\ report \in Reports /\ live \subseteq Kept
  BY DEF KeptInv, HouseTyped
<1>2. /\ UNCHANGED <<live, keys, entry, merged, noted, setup, gone, hands>>
      /\ duty.job = "doctor" /\ duty.at = "listed" /\ duty' = [duty EXCEPT !.at = "done"]
  BY Zenon DEF Diagnose
<1>3. report' \in Reports /\ report'.purged = report.purged /\ report'.remaining = report.remaining
  BY <1>1, Found
<1>4. /\ duty' \in Duties /\ duty'.job = "doctor" /\ duty'.at = "done" /\ duty'.before = duty.before
      /\ duty'.plan = duty.plan /\ duty'.pruned = duty.pruned /\ duty'.fixed = duty.fixed
  <2>. HIDE DEF Cells, Shapes, Entries
  <2>. QED BY <1>1, <1>2 DEF Duties
<1>5. HouseTyped'
  <2>. HIDE DEF Cells, Shapes, Entries
  <2>. QED BY <1>1, <1>2, <1>3, <1>4 DEF HouseTyped
<1>6. FixTellsWhatItDid'
  BY <1>2, <1>3, <1>4 DEF KeptInv, FixTellsWhatItDid
<1>7. HealthIsReal'
  <2>1. Ailing' = Ailing
    BY <1>2, Zenon DEF Ailing, OrphanNotes, OrphanKeys, OrphanBranches, Claimed
  <2>2. ExitCode(report.checks)' = ExitCode(report'.checks)
    BY Zenon DEF ExitCode
  <2>. QED BY <1>2, <2>1, <2>2, WellIsWell DEF HealthIsReal
<1>. QED BY <1>4, <1>5, <1>6, <1>7 DEF KeptInv, Accounted, WhenMeansWhatItSays

LEMMA PruneKeeps ==
  ASSUME Bounded, KeptInv, PlanPrune \/ Pruned \/ \E b \in Kept : PruneOne(b) PROVE KeptInv'
<1>1. HouseTyped /\ duty \in Duties /\ entry \in [Kept -> Entries]
  BY DEF KeptInv, HouseTyped
<1>2. duty.plan \in SUBSET Kept /\ IsFiniteSet(duty.plan) /\ Cardinality(duty.plan) \in Nat
      /\ Cardinality(Kept) \in Nat /\ duty.pruned \in Nat
  <2>1. duty.plan \in SUBSET Kept /\ duty.pruned \in Nat
    BY <1>1 DEF Duties
  <2>. QED BY <2>1, FS_Subset, FS_CardinalityType DEF Bounded
<1>3. ASSUME duty' \in Duties, HouseTyped', UNCHANGED <<report, gone>>, duty'.job \in {"prune", "preview"}
      PROVE  KeptInv'
  BY <1>3 DEF KeptInv, HouseTyped, Accounted, FixTellsWhatItDid, HealthIsReal, WhenMeansWhatItSays
<1>4. CASE PlanPrune
  <2>. DEFINE plan == {b \in Kept : Prunable(entry[b])}
              at == IF duty.job = "preview" THEN "done" ELSE "pruning"
  <2>1. /\ UNCHANGED <<live, keys, entry, merged, noted, setup, report, gone, hands>>
        /\ duty.job \in {"prune", "preview"} /\ duty' = [duty EXCEPT !.plan = plan, !.at = at]
    BY <1>4 DEF PlanPrune
  <2>2. plan \in SUBSET Kept /\ at \in {"done", "pruning"} /\ (at = "pruning" => duty.job # "preview")
    OBVIOUS
  <2>. HIDE DEF plan, at
  <2>3. Cardinality(plan) <= Cardinality(Kept) /\ Cardinality(plan) \in Nat
    BY <2>2, FS_Subset, FS_CardinalityType DEF Bounded
  <2>4. duty' \in Duties /\ duty'.job = duty.job /\ duty'.at = at /\ duty'.plan = plan /\ duty'.pruned = duty.pruned
    <3>. HIDE DEF Cells, Shapes, Entries
    <3>. QED BY <1>1, <2>1, <2>2 DEF Duties
  <2>5. HouseTyped'
    <3>1. duty.pruned = 0 /\ (at = "pruning" => duty.job = "prune")
      BY <1>1, <1>4, <2>1, <2>2 DEF HouseTyped, PlanPrune
    <3>2. duty'.pruned + Cardinality(duty'.plan) <= Cardinality(Kept)
      <4>. HIDE DEF Duties
      <4>. QED BY <1>2, <2>3, <2>4, <3>1
    <3>. HIDE DEF Cells, Shapes, Entries, Duties
    <3>. QED BY <1>1, <2>1, <2>2, <2>4, <3>1, <3>2 DEF HouseTyped
  <2>. QED BY <1>3, <2>1, <2>4, <2>5
<1>5. CASE Pruned
  <2>1. /\ UNCHANGED <<live, keys, entry, merged, noted, setup, report, gone, hands>>
        /\ duty.at = "pruning" /\ duty' = [duty EXCEPT !.at = "done"]
    BY <1>5 DEF Pruned
  <2>2. duty' \in Duties /\ duty'.job = "prune" /\ duty'.at = "done" /\ duty'.plan = duty.plan /\ duty'.pruned = duty.pruned
    <3>1. duty.job = "prune"
      BY <1>1, <2>1 DEF HouseTyped
    <3>. HIDE DEF Cells, Shapes, Entries
    <3>. QED BY <1>1, <2>1, <3>1 DEF Duties
  <2>3. HouseTyped'
    <3>. HIDE DEF Cells, Shapes, Entries, Duties
    <3>. QED BY <1>1, <2>1, <2>2 DEF HouseTyped
  <2>. QED BY <1>3, <2>1, <2>2, <2>3
<1>6. ASSUME NEW b \in Kept, PruneOne(b) PROVE KeptInv'
  <2>1. /\ UNCHANGED <<live, keys, merged, noted, setup, report, gone, hands>>
        /\ duty.at = "pruning" /\ b \in duty.plan
        /\ \/ entry' = [entry EXCEPT ![b] = "none"] /\ duty' = [duty EXCEPT !.plan = @ \ {b}, !.pruned = @ + 1]
           \/ entry' = entry /\ duty' = [duty EXCEPT !.plan = @ \ {b}]
    BY <1>6 DEF PruneOne
  <2>2. duty.job = "prune" /\ duty.pruned + Cardinality(duty.plan) <= Cardinality(Kept)
    BY <1>1, <2>1 DEF HouseTyped
  <2>3. Cardinality(duty.plan \ {b}) = Cardinality(duty.plan) - 1
    BY <1>2, <2>1, FS_RemoveElement
  <2>4. /\ duty' \in Duties /\ duty'.job = "prune" /\ duty'.at = "pruning" /\ duty'.plan = duty.plan \ {b}
        /\ duty'.pruned \in {duty.pruned, duty.pruned + 1}
    <3>. HIDE DEF Cells, Shapes, Entries
    <3>1. duty.pruned + 1 \in Nat /\ duty.plan \ {b} \in SUBSET Kept
      BY <1>2
    <3>2. CASE duty' = [duty EXCEPT !.plan = @ \ {b}]
      BY <1>1, <2>1, <2>2, <3>1, <3>2 DEF Duties
    <3>3. CASE duty' = [duty EXCEPT !.plan = @ \ {b}, !.pruned = @ + 1]
      BY <1>1, <2>1, <2>2, <3>1, <3>3 DEF Duties
    <3>. QED BY <2>1, <3>2, <3>3
  <2>5. entry' \in [Kept -> Entries]
    BY <1>1, <2>1 DEF Entries
  <2>6. duty'.pruned + Cardinality(duty'.plan) <= Cardinality(Kept)
    <3>. HIDE DEF Duties
    <3>. QED BY <1>2, <2>2, <2>3, <2>4
  <2>7. HouseTyped'
    <3>. HIDE DEF Cells, Shapes, Entries, Duties
    <3>. QED BY <1>1, <2>1, <2>4, <2>5, <2>6 DEF HouseTyped
  <2>. QED BY <1>3, <2>1, <2>4, <2>7
<1>. QED BY <1>4, <1>5, <1>6

LEMMA EvaluateKeeps == ASSUME KeptInv, Evaluate PROVE KeptInv'
<1>1. HouseTyped /\ duty \in Duties
  BY DEF KeptInv, HouseTyped
<1>2. /\ UNCHANGED <<live, keys, entry, merged, noted, setup, report, gone, hands>>
      /\ duty.job = "when" /\ duty.at = "start"
      /\ duty' = [duty EXCEPT !.at = "done", !.ran = EvaluateWhen(duty.when)]
  BY DEF Evaluate
<1>3. duty.when \in Seq(Tokens)
  BY <1>1 DEF Duties
<1>4. EvaluateWhen(duty.when) \in BOOLEAN
  <2>1. OrOf(duty.when)[1] \in Res(Len(duty.when))
    <3>1. 1 \in 1 .. Len(duty.when) + 1
      BY <1>3
    <3>. QED BY <1>3, <3>1, OrExists
  <2>2. OrOf(duty.when)[1].val \in BOOLEAN
    BY <2>1 DEF Res
  <2>. QED BY <2>2, ParseIs DEF EvaluateWhen
<1>5. /\ duty' \in Duties /\ duty'.job = "when" /\ duty'.at = "done" /\ duty'.plan = duty.plan
      /\ duty'.pruned = duty.pruned /\ duty'.when = duty.when /\ duty'.ran = EvaluateWhen(duty.when)
  <2>. HIDE DEF Cells, Shapes, Entries
  <2>. QED BY <1>1, <1>2, <1>4 DEF Duties
<1>6. HouseTyped'
  <2>. HIDE DEF Cells, Shapes, Entries, Duties
  <2>. QED BY <1>1, <1>2, <1>5 DEF HouseTyped
<1>7. WhenMeansWhatItSays'
  <2>. SUFFICES ASSUME WellFormed(duty'.when) PROVE duty'.ran = Means(duty'.when)
    BY Zenon DEF WhenMeansWhatItSays
  <2>1. EvaluateWhen(duty.when) = Means(duty.when)
    BY <1>3, <1>5, ReadsWhatItMeans
  <2>. QED BY <1>5, <2>1
<1>. QED BY <1>5, <1>6, <1>7 DEF KeptInv, Accounted, FixTellsWhatItDid, HealthIsReal

LEMMA HandsKeep ==
  ASSUME Bounded, "purge" \notin Windows, KeptInv, NEW b \in Kept,
         MadeBranch(b) \/ DeletedBranch(b) \/ \E e \in Entries : CameBack(b, e)
  PROVE  KeptInv'
<1>1. HouseTyped /\ Accounted
  BY DEF KeptInv
<1>2. /\ UNCHANGED <<noted, setup, duty, report, gone>> /\ hands' = hands + 1 /\ hands < MaxHands
      /\ duty.at # "dropping"
  BY DEF MadeBranch, DeletedBranch, CameBack, Between
<1>3. keys' \in [Cells -> Shapes]
  BY <1>1 DEF MadeBranch, DeletedBranch, CameBack, HouseTyped, Shapes
<1>4. entry' \in [Kept -> Entries]
  BY <1>1 DEF MadeBranch, DeletedBranch, CameBack, HouseTyped, Entries
<1>5. live' \subseteq Kept /\ merged' \subseteq Kept
  BY <1>1 DEF MadeBranch, DeletedBranch, CameBack, HouseTyped
<1>6. hands' \in 0 .. MaxHands /\ hands' # 0
  BY <1>1, <1>2 DEF HouseTyped, Bounded
<1>7. HouseTyped'
  <2>. HIDE DEF Cells, Shapes, Entries
  <2>. QED BY <1>1, <1>2, <1>3, <1>4, <1>5, <1>6 DEF HouseTyped
<1>8. Accounted'
  BY <1>1, <1>2 DEF Accounted, HouseTyped
<1>9. FixTellsWhatItDid' /\ WhenMeansWhatItSays'
  BY <1>2, Zenon DEF KeptInv, FixTellsWhatItDid, WhenMeansWhatItSays
<1>. QED BY <1>6, <1>7, <1>8, <1>9 DEF KeptInv, HealthIsReal

LEMMA KeptStep ==
  ASSUME Bounded, "purge" \notin Windows, ProgramsFound, KeptInv, [HouseNext]_hvars
  PROVE  KeptInv'
<1>1. CASE UNCHANGED hvars
  <2>1. UNCHANGED <<live, keys, entry, merged, noted, setup, duty, report, gone, hands>>
    BY <1>1 DEF hvars
  <2>2. HouseTyped' /\ Accounted'
    BY <2>1 DEF KeptInv, HouseTyped, Accounted, Before, OrphanKeys
  <2>3. AsSetUp' <=> AsSetUp
    BY <2>1, Zenon DEF AsSetUp, CheckPrunable, CheckBinariesOnPath, CheckConfigParses, CheckGuardReferences,
       CheckWhenPredicates
  <2>4. FixTellsWhatItDid' /\ WhenMeansWhatItSays'
    BY <2>1, Zenon DEF KeptInv, FixTellsWhatItDid, WhenMeansWhatItSays
  <2>5. HealthIsReal'
    <3>1. HealthIsReal
      BY DEF KeptInv
    <3>. QED BY <2>1, <3>1, Zenon DEF HealthIsReal, Ailing, OrphanNotes, OrphanKeys, OrphanBranches, Claimed, ExitCode
  <2>. QED BY <2>1, <2>2, <2>3, <2>4, <2>5 DEF KeptInv
<1>. QED BY <1>1, FixKeeps, ReadBackKeeps, ListTreesKeeps, DiagnoseKeeps, PruneKeeps, EvaluateKeeps, HandsKeep
     DEF HouseNext
=============================================================================
