---------------------------- MODULE ForgeStatusProofs ----------------------------
(***************************************************************************)
(* The TUI's cache of forge statuses, for every set of instances, rows and *)
(* numbers: cache and spine agree, every claim is held by one worker, what *)
(* is shown is of the instance that is resolved and of since the last      *)
(* flush, and the answers get to who asked (ForgeStatus).                  *)
(*                                                                         *)
(* The argument is about FetchCache: each of its functions keeps a cache   *)
(* Good, and the events of the TUI are made of those.                      *)
(***************************************************************************)
EXTENDS ForgeStatus, TLAPS

\* A cache in use for the instance fg.
Flying(f) ==
  /\ \A fl \in f.flights : fl.generation <= f.runner.generation[fl.key]
  /\ \A one, two \in f.flights : one.key = two.key /\ one.generation = two.generation => one = two
  /\ \A k \in f.runner.running : \E fl \in f.flights :
        fl.key = k /\ fl.generation = f.runner.generation[k]

Recent(f, fg) ==
  /\ \A fl \in f.flights : Accepts(f, fl) => fl.from = fg /\ fl.epoch = f.epoch
  /\ \A k \in Kinds : Phase(f, k) = "loaded" => f.cache[k].from = fg /\ f.cache[k].epoch = f.epoch

Good(f, fg) == FetchOK(f) /\ AgreesWithSpine(f) /\ Flying(f) /\ Recent(f, fg)

\* Every claim is held by one worker, since no two flights are of one generation.
LEMMA GoodIsHeld ==
  ASSUME NEW f, NEW fg, Good(f, fg)
  PROVE  ClaimsAreHeld(f)
<1>1. ASSUME NEW k \in f.runner.running
      PROVE  \E fl \in f.flights :
               /\ fl.key = k /\ Accepts(f, fl)
               /\ \A other \in f.flights : (other.key = k /\ Accepts(f, other)) => other = fl
  <2>1. PICK fl \in f.flights : fl.key = k /\ fl.generation = f.runner.generation[k]
    BY <1>1 DEF Good, Flying
  <2>2. \A other \in f.flights : (other.key = k /\ Accepts(f, other)) => other = fl
    BY <2>1 DEF Good, Flying, Accepts, IsAuthoritative
  <2>. QED BY <1>1, <2>1, <2>2 DEF Accepts, IsAuthoritative, IsLoading
<1>. QED BY <1>1 DEF ClaimsAreHeld

-----------------------------------------------------------------------------
(* What the functions of the cache do to a good one.                       *)

LEMMA BlankIsAnEntry == Blank \in Entry /\ [Blank EXCEPT !.phase = "loading"] \in Entry
                        /\ [Blank EXCEPT !.phase = "error"] \in Entry
                        /\ Blank.phase = "idle"
                        /\ [Blank EXCEPT !.phase = "loading"].phase = "loading"
                        /\ [Blank EXCEPT !.phase = "error"].phase = "error"
BY DEF Blank, Entry

LEMMA EmptyIsGood == ASSUME NEW fg PROVE Good(EmptyFetch, fg)
BY BlankIsAnEntry DEF EmptyFetch, Good, FetchOK, AgreesWithSpine, Flying, Recent, Phase, NewRunner,
   Runner, IsLoading

LEMMA FlushedIsGood ==
  ASSUME NEW f, NEW fg, NEW new, Good(f, fg)
  PROVE  Good(Flushed(f), new) /\ Flushed(f).epoch # f.epoch
<1>. DEFINE g == Flushed(f)
<1>1. /\ g.cache = [k \in Kinds |-> Blank] /\ g.flights = f.flights /\ g.epoch = f.epoch + 1
      /\ g.runner = InvalidatedMatching(f.runner, Kinds)
  BY DEF Flushed, Good, FetchOK
<1>. HIDE DEF g
<1>2. /\ f.runner.generation \in [Kinds -> Nat] /\ f.runner.running \subseteq Kinds /\ f.epoch \in Nat
      /\ f.flights \subseteq Flight
  BY DEF Good, FetchOK, Runner
<1>3. /\ g.runner \in Runner /\ g.runner.running = {}
      /\ \A k \in Kinds : g.runner.generation[k] >= f.runner.generation[k] /\ g.runner.generation[k] \in Nat
  BY <1>1, <1>2 DEF InvalidatedMatching, Runner
<1>4. FetchOK(g) /\ AgreesWithSpine(g)
  BY <1>1, <1>2, <1>3, BlankIsAnEntry DEF FetchOK, AgreesWithSpine, Phase, IsLoading
<1>5. Flying(g)
  <2>1. \A fl \in f.flights : fl.key \in Kinds /\ fl.generation \in Nat
                              /\ fl.generation <= f.runner.generation[fl.key]
    BY <1>2 DEF Good, Flying, Flight
  <2>. QED BY <1>1, <1>2, <1>3, <2>1 DEF Flying, Good
<1>6. Recent(g, new)
  BY <1>1, <1>3, BlankIsAnEntry DEF Recent, Phase, Accepts, IsAuthoritative, IsLoading
<1>. QED BY <1>1, <1>2, <1>4, <1>5, <1>6 DEF Good, g

LEMMA ExpiredIsGood ==
  ASSUME NEW f, NEW fg, Good(f, fg)
  PROVE  /\ Good(Expired(f, {}), fg) /\ Expired(f, {}).epoch = f.epoch
         /\ Expired(f, {}).runner = f.runner /\ Expired(f, {}).flights = f.flights
<1>. DEFINE g == Expired(f, {})
<1>1. /\ g.cache = [k \in Kinds |-> IF Phase(f, k) = "loading" THEN f.cache[k] ELSE Blank]
      /\ g.flights = f.flights /\ g.epoch = f.epoch /\ g.runner = f.runner
  BY DEF Expired, Good, FetchOK
<1>. HIDE DEF g
<1>2. FetchOK(g) /\ AgreesWithSpine(g)
  BY <1>1, BlankIsAnEntry DEF FetchOK, AgreesWithSpine, Phase, IsLoading, Good
<1>3. Flying(g)
  BY <1>1 DEF Flying, Good
<1>4. Recent(g, fg)
  BY <1>1, BlankIsAnEntry DEF Recent, Phase, Accepts, IsAuthoritative, IsLoading, Good
<1>. QED BY <1>1, <1>2, <1>3, <1>4 DEF Good, g

LEMMA SpawnedIsGood ==
  ASSUME NEW f, NEW fg \in Instances \cup {NoForge}, NEW keys \in SUBSET Kinds, Good(f, fg)
  PROVE  /\ Good(Spawned(f, fg, keys), fg) /\ Spawned(f, fg, keys).epoch = f.epoch
         /\ \A fl \in f.flights : Accepts(f, fl) => Accepts(Spawned(f, fg, keys), fl)
<1>. DEFINE new == {k \in keys : CanSpawn(f, fg, k)}
            up == [k \in Kinds |-> IF k \in new THEN f.runner.generation[k] + 1 ELSE f.runner.generation[k]]
            flown == {[key |-> k, generation |-> f.runner.generation[k] + 1,
                       from |-> fg, epoch |-> f.epoch] : k \in new}
            g == Spawned(f, fg, keys)
<1>1. /\ g.cache = [k \in Kinds |-> IF k \in new THEN [Blank EXCEPT !.phase = "loading"] ELSE f.cache[k]]
      /\ g.runner = [generation |-> up, running |-> f.runner.running \cup new]
      /\ g.flights = f.flights \cup flown /\ g.epoch = f.epoch
  BY DEF Spawned, ClaimedGeneration, Good, FetchOK
<1>2. /\ f.runner.generation \in [Kinds -> Nat] /\ f.runner.running \subseteq Kinds /\ f.epoch \in Nat
      /\ f.flights \subseteq Flight /\ f.cache \in [Kinds -> Entry]
  BY DEF Good, FetchOK, Runner
<1>3. /\ new \subseteq Kinds /\ new \cap f.runner.running = {} /\ (new # {} => fg \in Instances)
  BY DEF CanSpawn, CanRequest, IsLoading
<1>4. \A fl \in flown : /\ fl.key \in new /\ fl.generation = f.runner.generation[fl.key] + 1
                        /\ fl.from = fg /\ fl.epoch = f.epoch /\ fl \in Flight
  BY <1>2, <1>3 DEF Flight
<1>5. ASSUME NEW k \in new
      PROVE  \E fl \in flown : fl.key = k /\ fl.generation = f.runner.generation[k] + 1
  <2>. DEFINE mine == [key |-> k, generation |-> f.runner.generation[k] + 1, from |-> fg, epoch |-> f.epoch]
  <2>1. mine \in flown /\ mine.key = k /\ mine.generation = f.runner.generation[k] + 1
    OBVIOUS
  <2>. QED BY <2>1
<1>6. \A one, two \in flown : one.key = two.key => one = two
  OBVIOUS
<1>. HIDE DEF new, flown, g
<1>7. \A fl \in f.flights : fl.key \in Kinds /\ fl.generation \in Nat /\ fl.generation <= f.runner.generation[fl.key]
  BY <1>2 DEF Good, Flying, Flight
<1>8. /\ up \in [Kinds -> Nat] /\ g.runner \in Runner
      /\ g.runner.generation = up /\ g.runner.running = f.runner.running \cup new
      /\ \A k \in Kinds : up[k] = IF k \in new THEN f.runner.generation[k] + 1 ELSE f.runner.generation[k]
  BY <1>1, <1>2, <1>3 DEF Runner
<1>. HIDE DEF up
<1>9. FetchOK(g) /\ AgreesWithSpine(g)
  <2>1. g.cache \in [Kinds -> Entry]
    BY <1>1, <1>2, BlankIsAnEntry
  <2>2. g.flights \subseteq Flight
    BY <1>1, <1>2, <1>4
  <2>3. AgreesWithSpine(g)
    <3>1. \A k \in Kinds : Phase(f, k) = "loading" <=> k \in f.runner.running
      BY DEF Good, AgreesWithSpine, IsLoading
    <3>2. \A k \in Kinds : Phase(g, k) = IF k \in new THEN "loading" ELSE Phase(f, k)
      BY <1>1, BlankIsAnEntry DEF Phase
    <3>. QED BY <1>8, <3>1, <3>2 DEF AgreesWithSpine, IsLoading
  <2>. QED BY <1>1, <1>2, <1>8, <2>1, <2>2, <2>3 DEF FetchOK
<1>10. Flying(g)
  <2>1. \A fl \in g.flights : fl.generation <= g.runner.generation[fl.key]
    BY <1>1, <1>2, <1>3, <1>4, <1>7, <1>8
  <2>2. \A one, two \in g.flights : one.key = two.key /\ one.generation = two.generation => one = two
    <3>. SUFFICES ASSUME NEW one \in g.flights, NEW two \in g.flights,
                         one.key = two.key, one.generation = two.generation
                  PROVE  one = two
      OBVIOUS
    <3>1. CASE one \in f.flights /\ two \in f.flights
      BY <3>1 DEF Good, Flying
    <3>2. CASE one \in flown /\ two \in flown
      BY <1>6, <3>2
    <3>3. \A a \in f.flights, b \in flown : ~ (a.key = b.key /\ a.generation = b.generation)
      BY <1>2, <1>3, <1>4, <1>7
    <3>. QED BY <1>1, <3>1, <3>2, <3>3
  <2>3. ASSUME NEW k \in g.runner.running
        PROVE  \E fl \in g.flights : fl.key = k /\ fl.generation = g.runner.generation[k]
    <3>1. CASE k \in new
      <4>1. PICK fl \in flown : fl.key = k /\ fl.generation = f.runner.generation[k] + 1
        BY <1>5, <3>1
      <4>. QED BY <1>1, <1>3, <1>8, <3>1, <4>1
    <3>2. CASE k \notin new
      <4>1. k \in f.runner.running
        BY <1>8, <2>3, <3>2
      <4>2. PICK fl \in f.flights : fl.key = k /\ fl.generation = f.runner.generation[k]
        BY <4>1 DEF Good, Flying
      <4>. QED BY <1>1, <1>2, <1>8, <3>2, <4>1, <4>2
    <3>. QED BY <3>1, <3>2
  <2>. QED BY <2>1, <2>2, <2>3 DEF Flying
<1>11. \A fl \in f.flights : Accepts(g, fl) <=> Accepts(f, fl)
  <2>. SUFFICES ASSUME NEW fl \in f.flights PROVE Accepts(g, fl) <=> Accepts(f, fl)
    OBVIOUS
  <2>1. CASE fl.key \in new
    BY <1>2, <1>3, <1>7, <1>8, <2>1 DEF Accepts, IsAuthoritative, IsLoading
  <2>2. CASE fl.key \notin new
    BY <1>7, <1>8, <2>2 DEF Accepts, IsAuthoritative, IsLoading
  <2>. QED BY <2>1, <2>2
<1>12. Recent(g, fg)
  <2>1. \A fl \in g.flights : Accepts(g, fl) => fl.from = fg /\ fl.epoch = g.epoch
    BY <1>1, <1>4, <1>11 DEF Good, Recent
  <2>2. \A k \in Kinds : Phase(g, k) = "loaded" => g.cache[k].from = fg /\ g.cache[k].epoch = g.epoch
    BY <1>1, BlankIsAnEntry DEF Good, Recent, Phase
  <2>. QED BY <2>1, <2>2 DEF Recent
<1>. QED BY <1>1, <1>9, <1>10, <1>11, <1>12 DEF Good, g

LEMMA LandedIsGood ==
  ASSUME NEW f, NEW fg, Good(f, fg), NEW flight \in f.flights, NEW ok \in BOOLEAN
  PROVE  /\ Good(Landed(f, flight, ok), fg) /\ Landed(f, flight, ok).epoch = f.epoch
         /\ \A fl \in f.flights \ {flight} : Accepts(f, fl) => Accepts(Landed(f, flight, ok), fl)
<1>. DEFINE g == Landed(f, flight, ok)
            key == flight.key
            e == IF ~ Accepts(f, flight) THEN f.cache[key]
                 ELSE IF ok THEN [phase |-> "loaded", from |-> flight.from, epoch |-> flight.epoch]
                 ELSE [Blank EXCEPT !.phase = "error"]
<1>1. /\ g.flights = f.flights \ {flight} /\ g.epoch = f.epoch
      /\ g.runner = Completed(f.runner, key, flight.generation)
      /\ g.cache = [f.cache EXCEPT ![key] = e]
  BY DEF Landed, Good, FetchOK
<1>2. /\ f.runner.generation \in [Kinds -> Nat] /\ f.runner.running \subseteq Kinds /\ f.epoch \in Nat
      /\ f.flights \subseteq Flight /\ f.cache \in [Kinds -> Entry] /\ f.runner \in Runner
  BY DEF Good, FetchOK, Runner
<1>3. flight \in Flight /\ key \in Kinds
  BY <1>2 DEF Flight
<1>4. /\ e \in Entry /\ (~ Accepts(f, flight) => e = f.cache[key])
      /\ Accepts(f, flight) => e.phase # "loading"
                               /\ (e.phase = "loaded" => e.from = flight.from /\ e.epoch = flight.epoch)
  <2>1. [phase |-> "loaded", from |-> flight.from, epoch |-> flight.epoch] \in Entry
    BY <1>3 DEF Flight, Entry
  <2>. QED BY <1>2, <1>3, <2>1, BlankIsAnEntry
<1>5. /\ g.runner.generation = f.runner.generation
      /\ g.runner.running = IF Accepts(f, flight) THEN f.runner.running \ {key} ELSE f.runner.running
      /\ g.runner \in Runner
  <2>1. CASE flight.generation = f.runner.generation[key]
    <3>1. g.runner = [f.runner EXCEPT !.running = f.runner.running \ {key}]
      BY <1>1, <2>1 DEF Completed
    <3>2. ~ Accepts(f, flight) => f.runner.running \ {key} = f.runner.running
      BY <2>1 DEF Accepts, IsAuthoritative, IsLoading
    <3>. QED BY <1>2, <3>1, <3>2 DEF Runner
  <2>2. CASE flight.generation # f.runner.generation[key]
    BY <1>1, <1>2, <2>2 DEF Completed, Accepts, IsAuthoritative
  <2>. QED BY <2>1, <2>2
<1>. HIDE DEF g, e
<1>6. \A k \in Kinds : g.cache[k] = IF k = key THEN e ELSE f.cache[k]
  BY <1>1, <1>2
<1>7. FetchOK(g)
  <2>1. g.cache \in [Kinds -> Entry]
    BY <1>1, <1>2, <1>4
  <2>. QED BY <1>1, <1>2, <1>5, <2>1 DEF FetchOK
<1>8. AgreesWithSpine(g)
  <2>1. \A k \in Kinds : Phase(f, k) = "loading" <=> k \in f.runner.running
    BY DEF Good, AgreesWithSpine, IsLoading
  <2>. QED BY <1>3, <1>4, <1>5, <1>6, <2>1 DEF AgreesWithSpine, Phase, IsLoading
<1>9. Flying(g)
  <2>1. \A fl \in g.flights : fl.generation <= g.runner.generation[fl.key]
    BY <1>1, <1>5 DEF Good, Flying
  <2>2. \A one, two \in g.flights : one.key = two.key /\ one.generation = two.generation => one = two
    BY <1>1 DEF Good, Flying
  <2>3. ASSUME NEW k \in g.runner.running
        PROVE  \E fl \in g.flights : fl.key = k /\ fl.generation = g.runner.generation[k]
    <3>1. k \in f.runner.running
      BY <1>5, <2>3
    <3>2. PICK fl \in f.flights : fl.key = k /\ fl.generation = f.runner.generation[k]
      BY <3>1 DEF Good, Flying
    <3>3. fl # flight
      <4>. SUFFICES ASSUME fl = flight PROVE FALSE
        OBVIOUS
      <4>1. Accepts(f, flight)
        BY <3>1, <3>2 DEF Accepts, IsAuthoritative, IsLoading
      <4>. QED BY <1>5, <2>3, <3>2, <4>1
    <3>. QED BY <1>1, <1>5, <3>2, <3>3
  <2>. QED BY <2>1, <2>2, <2>3 DEF Flying
<1>10. \A fl \in f.flights \ {flight} : Accepts(g, fl) <=> Accepts(f, fl)
  <2>. SUFFICES ASSUME NEW fl \in f.flights \ {flight} PROVE Accepts(g, fl) <=> Accepts(f, fl)
    OBVIOUS
  <2>1. CASE fl.key = key /\ Accepts(f, flight)
    <3>1. fl.generation # f.runner.generation[key]
      BY <2>1 DEF Good, Flying, Accepts, IsAuthoritative
    <3>. QED BY <1>5, <2>1, <3>1 DEF Accepts, IsAuthoritative
  <2>2. CASE ~ (fl.key = key /\ Accepts(f, flight))
    BY <1>5, <2>2 DEF Accepts, IsAuthoritative, IsLoading
  <2>. QED BY <2>1, <2>2
<1>11. Recent(g, fg)
  <2>1. \A fl \in g.flights : Accepts(g, fl) => fl.from = fg /\ fl.epoch = g.epoch
    BY <1>1, <1>10 DEF Good, Recent
  <2>2. \A k \in Kinds : Phase(g, k) = "loaded" => g.cache[k].from = fg /\ g.cache[k].epoch = g.epoch
    <3>1. Accepts(f, flight) => flight.from = fg /\ flight.epoch = f.epoch
      BY DEF Good, Recent
    <3>. QED BY <1>1, <1>4, <1>6, <3>1 DEF Good, Recent, Phase
  <2>. QED BY <2>1, <2>2 DEF Recent
<1>. QED BY <1>1, <1>7, <1>8, <1>9, <1>10, <1>11 DEF Good, g
-----------------------------------------------------------------------------
(* The TUI.                                                                *)

Inv == TypeOK /\ Good(fetch, forge)

LEMMA KeysAreKinds == ASSUME NEW l PROVE Keys(l) \in SUBSET Kinds
BY DEF Keys

LEMMA RereadIsGood ==
  ASSUME Inv
  PROVE  /\ Good(Reread(fetch), origin)
         /\ Reread(fetch).epoch = fetch.epoch => Reread(fetch) = fetch
<1>1. CASE origin = forge
  BY <1>1 DEF Reread, Inv
<1>2. CASE origin # forge
  BY <1>2, FlushedIsGood DEF Reread, Inv
<1>. QED BY <1>1, <1>2

\* What a step does to the cache: it is good for the instance then resolved, and if it
\* was not flushed then every flight in the air that was accepted still is.
Spared(next) ==
  next.epoch = fetch.epoch =>
     \A fl \in fetch.flights : Accepts(fetch, fl) /\ fl \in next.flights => Accepts(next, fl)

LEMMA RelistIsGood ==
  ASSUME Inv, NEW keys \in SUBSET Kinds
  PROVE  LET next == Spawned(Expired(Reread(fetch), {}), origin, keys)
         IN  Good(next, origin) /\ Spared(next)
<1>. DEFINE one == Reread(fetch)
            two == Expired(one, {})
            next == Spawned(two, origin, keys)
<1>1. Good(one, origin) /\ (one.epoch = fetch.epoch => one = fetch)
  BY RereadIsGood
<1>. HIDE DEF one
<1>2. Good(two, origin) /\ two.epoch = one.epoch /\ two.runner = one.runner /\ two.flights = one.flights
  BY <1>1, ExpiredIsGood
<1>. HIDE DEF two
<1>3. origin \in Instances \cup {NoForge}
  BY DEF Inv, TypeOK
<1>4. /\ Good(next, origin) /\ next.epoch = two.epoch
      /\ \A fl \in two.flights : Accepts(two, fl) => Accepts(next, fl)
  BY <1>2, <1>3, SpawnedIsGood
<1>. HIDE DEF next
<1>5. Spared(next)
  BY <1>1, <1>2, <1>4 DEF Spared, Accepts
<1>. QED BY <1>4, <1>5 DEF next, two, one

LEMMA SpawnIsGood ==
  ASSUME Inv, NEW keys \in SUBSET Kinds
  PROVE  /\ Good(Spawned(fetch, forge, keys), forge) /\ Spared(Spawned(fetch, forge, keys))
         /\ Good(Spawned(Flushed(fetch), forge, keys), forge)
         /\ Spared(Spawned(Flushed(fetch), forge, keys))
<1>1. forge \in Instances \cup {NoForge} /\ Good(fetch, forge)
  BY DEF Inv, TypeOK
<1>2. Good(Spawned(fetch, forge, keys), forge) /\ Spared(Spawned(fetch, forge, keys))
  BY <1>1, SpawnedIsGood DEF Spared
<1>. DEFINE f == Flushed(fetch)
<1>3. Good(f, forge) /\ f.epoch # fetch.epoch
  BY <1>1, FlushedIsGood
<1>. HIDE DEF f
<1>4. Good(Spawned(f, forge, keys), forge) /\ Spawned(f, forge, keys).epoch = f.epoch
  BY <1>1, <1>3, SpawnedIsGood
<1>. QED BY <1>2, <1>3, <1>4 DEF Spared, f

LEMMA InitInv == Init => Inv
<1>. SUFFICES ASSUME Init PROVE Inv
  OBVIOUS
<1>1. /\ links \in [Rows -> Link] /\ table = links /\ link \in Link /\ selected \in Rows
      /\ origin \in Instances /\ forge = origin
  BY DEF Init
<1>. DEFINE keys == UNION {Keys(links[r]) : r \in Rows}
<1>2. keys \in SUBSET Kinds
  BY KeysAreKinds
<1>. HIDE DEF keys
<1>3. Good(Spawned(EmptyFetch, forge, keys), forge)
  BY <1>1, <1>2, EmptyIsGood, SpawnedIsGood
<1>4. Good(fetch, forge)
  BY <1>3 DEF Init, keys
<1>5. form \in Form /\ form.awaiting = NoNumber
  BY DEF Init, NoForm, Form, Number
<1>. QED BY <1>1, <1>4, <1>5 DEF Init, Inv, TypeOK, Good

\* Steps that leave the app and the cache.
LEMMA FormSteps ==
  ASSUME Inv, OpenForm \/ CloseForm \/ \E n \in Numbers : Type(n)
  PROVE  Inv' /\ fetch' = fetch
<1>1. UNCHANGED <<world, app, fetch>>
  BY DEF OpenForm, CloseForm, Type
<1>2. form' \in Form /\ (form'.mode # "asking" => form'.awaiting = NoNumber)
  <2>1. form \in Form
    BY DEF Inv, TypeOK
  <2>2. CASE OpenForm
    BY <2>2 DEF OpenForm, Form, NoForm, Number
  <2>3. CASE CloseForm
    BY <2>3 DEF CloseForm, Form, NoForm, Number
  <2>4. ASSUME NEW n \in Numbers, Type(n)
        PROVE  form' \in Form /\ (form'.mode # "asking" => form'.awaiting = NoNumber)
    BY <2>1, <2>4 DEF Type, Form, Number
  <2>. QED BY <2>2, <2>3, <2>4
<1>. QED BY <1>1, <1>2 DEF Inv, TypeOK, world, app

LEMMA WorldSteps ==
  ASSUME Inv, WorldMoves
  PROVE  Inv' /\ fetch' = fetch
<1>1. UNCHANGED <<forge, link, selected, table, fetch, form>> /\ moves' = moves + 1
  BY DEF WorldMoves, app
<1>2. origin' \in Instances \cup {NoForge} /\ links' \in [Rows -> Link]
  BY DEF WorldMoves, Inv, TypeOK
<1>. QED BY <1>1, <1>2 DEF Inv, TypeOK

LEMMA NavigateSteps ==
  ASSUME Inv, NEW r \in Rows, Navigate(r)
  PROVE  Inv' /\ Spared(fetch')
<1>1. Good(fetch', origin) /\ (fetch'.epoch = fetch.epoch => fetch' = fetch)
  BY RereadIsGood DEF Navigate
<1>. QED BY <1>1 DEF Navigate, RefreshLink, Inv, TypeOK, world, Good, Spared

LEMMA RelistSteps ==
  ASSUME Inv, NEW r \in Rows, Relist(r)
  PROVE  Inv' /\ Spared(fetch')
<1>. DEFINE keys == UNION {Keys(links[w]) : w \in Rows}
<1>1. keys \in SUBSET Kinds
  BY KeysAreKinds
<1>. HIDE DEF keys
<1>2. Good(fetch', origin) /\ Spared(fetch')
  <2>1. fetch' = Spawned(Expired(Reread(fetch), {}), origin, keys)
    BY DEF Relist, keys
  <2>. QED BY <1>1, <2>1, RelistIsGood
<1>. QED BY <1>2 DEF Relist, RefreshLink, Inv, TypeOK, world, Good

LEMMA RefreshSteps ==
  ASSUME Inv, NEW n \in Linkable("pr"), Refresh(n)
  PROVE  Inv' /\ Spared(fetch')
<1>1. link \in Link /\ selected \in Rows /\ links \in [Rows -> Link] /\ table \in [Rows -> Link]
  BY DEF Inv, TypeOK
<1>2. link' \in Link
  BY <1>1 DEF Refresh, Probed, Link
<1>3. links' \in [Rows -> Link] /\ table' \in [Rows -> Link]
  <2>1. [links[selected] EXCEPT !.pr = n] \in Link
    BY <1>1 DEF Link
  <2>2. links' = links \/ links' = [links EXCEPT ![selected] = [links[selected] EXCEPT !.pr = n]]
    BY <1>1 DEF Refresh
  <2>3. table' = table \/ table' = [table EXCEPT ![selected] = link']
    BY DEF Refresh
  <2>. QED BY <1>1, <1>2, <2>1, <2>2, <2>3
<1>4. Good(fetch', forge) /\ Spared(fetch')
  <2>1. PICK keys \in SUBSET Kinds : keys = Keys(link')
    BY KeysAreKinds
  <2>2. fetch' = fetch \/ fetch' = Spawned(Flushed(fetch), forge, keys)
    BY <2>1 DEF Refresh
  <2>3. CASE fetch' = fetch
    BY <2>3 DEF Inv, Spared
  <2>. QED BY <2>2, <2>3, SpawnIsGood
<1>. QED BY <1>2, <1>3, <1>4 DEF Refresh, Inv, TypeOK, Good

LEMMA GapSteps ==
  ASSUME Inv, NEW k \in Kinds, Gap(k)
  PROVE  Inv' /\ Spared(fetch')
<1>1. Good(fetch', forge) /\ Spared(fetch')
  BY SpawnIsGood DEF Gap
<1>. QED BY <1>1 DEF Gap, Inv, TypeOK, world, app, Good

LEMMA DeriveSteps ==
  ASSUME Inv, Derive
  PROVE  Inv' /\ Spared(fetch')
<1>. DEFINE k == <<"issue", form.typed>>
<1>1. form \in Form /\ UNCHANGED <<world, app>> /\ form.mode = "asking" /\ form.typed \in Numbers
  BY DEF Inv, TypeOK, Derive
<1>2. CASE form' = NoForm /\ UNCHANGED fetch
  BY <1>1, <1>2 DEF NoForm, Form, Number, Inv, TypeOK, Spared, world, app
<1>3. CASE form' = Derived(form.typed) /\ UNCHANGED fetch
  BY <1>1, <1>3 DEF Derived, Form, Number, Inv, TypeOK, Spared, world, app
<1>4. CASE form' = [form EXCEPT !.awaiting = form.typed] /\ fetch' = Spawned(fetch, forge, {k})
  <2>1. form' \in Form /\ form'.mode = "asking"
    BY <1>1, <1>4 DEF Form, Number
  <2>2. Good(fetch', forge) /\ Spared(fetch')
    <3>1. k \in Kinds
      BY <1>1, StatusAssumption
    <3>. QED BY <1>4, <3>1, SpawnIsGood
  <2>. QED BY <1>1, <1>4, <2>1, <2>2 DEF Inv, TypeOK, world, app, Good
<1>. QED BY <1>2, <1>3, <1>4 DEF Derive

LEMMA LandsSteps ==
  ASSUME Inv, NEW flight \in fetch.flights, Lands(flight)
  PROVE  Inv' /\ Spared(fetch')
<1>1. PICK ok \in BOOLEAN :
        /\ fetch' = Landed(fetch, flight, ok)
        /\ form' = IF ~ (Accepts(fetch, flight) /\ AnswersForm(flight.key)) THEN form
                   ELSE IF ok THEN Derived(flight.key[2])
                   ELSE [form EXCEPT !.awaiting = NoNumber]
  BY DEF Lands
<1>2. /\ Good(fetch', forge)
      /\ \A fl \in fetch.flights \ {flight} : Accepts(fetch, fl) => Accepts(fetch', fl)
  BY <1>1, LandedIsGood DEF Inv
<1>3. fetch'.flights = fetch.flights \ {flight}
  BY <1>1 DEF Landed, Inv, Good, FetchOK
<1>4. form' \in Form /\ (form'.mode # "asking" => form'.awaiting = NoNumber)
  <2>1. form \in Form /\ (form.mode # "asking" => form.awaiting = NoNumber)
    BY DEF Inv, TypeOK
  <2>2. flight.key \in {"issue", "pr"} \X Numbers
    BY StatusAssumption DEF Inv, TypeOK, FetchOK, Flight
  <2>3. flight.key[2] \in Numbers
    BY <2>2
  <2>4. Derived(flight.key[2]) \in Form /\ Derived(flight.key[2]).awaiting = NoNumber
    BY <2>3 DEF Derived, Form, Number
  <2>5. /\ [form EXCEPT !.awaiting = NoNumber] \in Form
        /\ [form EXCEPT !.awaiting = NoNumber].awaiting = NoNumber
    BY <2>1 DEF Form, Number
  <2>. QED BY <1>1, <2>1, <2>4, <2>5
<1>. QED BY <1>2, <1>3, <1>4 DEF Lands, Inv, TypeOK, world, app, Good, Spared

LEMMA StepInv ==
  ASSUME Inv, [Next]_vars
  PROVE  Inv' /\ Spared(fetch')
<1>1. CASE UNCHANGED vars
  <2>1. fetch' = fetch /\ UNCHANGED <<origin, links, forge, link, selected, table, form, moves>>
    BY <1>1 DEF vars
  <2>. QED BY <2>1 DEF Inv, TypeOK, Spared
<1>2. fetch' = fetch => Spared(fetch')
  BY DEF Spared
<1>. QED BY <1>1, <1>2, FormSteps, WorldSteps, NavigateSteps, RelistSteps, RefreshSteps, GapSteps,
            DeriveSteps, LandsSteps DEF Next

-----------------------------------------------------------------------------
(* The theorems.                                                           *)

LEMMA AlwaysInv == Spec => []Inv
<1>1. Inv /\ [Next]_vars => Inv'
  BY StepInv
<1>. QED BY <1>1, InitInv, PTL DEF Spec

\* A section that says it is loading is a claim that one worker holds, whose message will
\* be accepted: nothing spins for ever, and no answer lands on an entry nobody waits for
\* (GitHubFetch and TaskRunner, refresh_github, on_relist).
THEOREM CacheIsSound == Spec => []CacheInv
<1>1. Inv => CacheInv
  BY GoodIsHeld DEF Inv, Good, CacheInv, CacheAgreesWithSpine
<1>. QED BY <1>1, AlwaysInv, PTL

\* What is shown was fetched from the instance that is resolved, and after the last
\* flush, in whatever order workers land and remotes move (github_fetch.rs,
\* refresh_github).
THEOREM ShowsCurrent == Spec => []ShownIsCurrent
<1>1. Inv => ShownIsCurrent
  BY DEF Inv, Good, Recent, ShownIsCurrent, NoForeignResult, FreshOnDemand
<1>. QED BY <1>1, AlwaysInv, PTL

\* A relist spares the fetches in flight, and the form takes the issue it asked for,
\* whatever else lands (invalidate_settled, apply_awaited_issue).
THEOREM AnswersAreTaken == Spec => AnswersArrive
<1>. DEFINE Spares == \A k \in Kinds : \A flight \in fetch.flights :
                        (/\ flight.key = k /\ Accepts(fetch, flight)
                         /\ flight \in fetch'.flights /\ fetch'.epoch = fetch.epoch)
                            => Accepts(fetch', flight)
            Takes == (form.mode = "asking" /\ form'.mode = "derived" /\ form.awaiting # NoNumber)
                        => form'.typed \in {form.awaiting, form.typed}
<1>1. Inv /\ [Next]_vars => Spares
  BY StepInv DEF Spared
<1>2. Inv /\ [Next]_vars => Takes
  <2>. SUFFICES ASSUME Inv, [Next]_vars, form.mode = "asking", form'.mode = "derived"
                PROVE  form'.typed \in {form.awaiting, form.typed}
    OBVIOUS
  <2>1. form \in Form
    BY DEF Inv, TypeOK
  <2>2. CASE Derive
    BY <2>1, <2>2 DEF Derive, Derived, NoForm, Form
  <2>3. ASSUME NEW flight \in fetch.flights, Lands(flight)
        PROVE  form'.typed \in {form.awaiting, form.typed}
    <3>1. form' = Derived(flight.key[2]) /\ AnswersForm(flight.key)
      BY <2>1, <2>3 DEF Lands, Form
    <3>. QED BY <3>1 DEF AnswersForm, Derived
  <2>4. CASE \/ WorldMoves \/ OpenForm \/ CloseForm \/ UNCHANGED vars
             \/ (\E n \in Numbers : Type(n)) \/ (\E k \in Kinds : Gap(k))
             \/ (\E r \in Rows : Navigate(r) \/ Relist(r)) \/ (\E n \in Linkable("pr") : Refresh(n))
    <3>1. form' = form \/ form'.mode \in {"asking", "closed"}
      <4>1. CASE OpenForm \/ CloseForm
        BY <4>1 DEF OpenForm, CloseForm, NoForm
      <4>2. ASSUME NEW n \in Numbers, Type(n) PROVE form'.mode = "asking"
        BY <2>1, <4>2 DEF Type, Form
      <4>3. CASE WorldMoves \/ UNCHANGED vars
        BY <4>3 DEF WorldMoves, vars
      <4>4. CASE \/ \E k \in Kinds : Gap(k)
                 \/ \E r \in Rows : Navigate(r) \/ Relist(r)
                 \/ \E n \in Linkable("pr") : Refresh(n)
        BY <4>4 DEF Gap, Navigate, Relist, Refresh
      <4>. QED BY <2>4, <4>1, <4>2, <4>3, <4>4
    <3>. QED BY <3>1
  <2>. QED BY <2>2, <2>3, <2>4 DEF Next
<1>. HIDE DEF Spares, Takes
<1>3. Spec => [][Spares]_vars /\ [][Takes]_vars
  BY <1>1, <1>2, AlwaysInv, PTL DEF Spec
<1>. QED BY <1>3 DEF AnswersArrive, FlightsAreSpared, FormTakesItsOwn, Spares, Takes
=============================================================================
