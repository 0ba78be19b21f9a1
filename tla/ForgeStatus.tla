------------------------------ MODULE ForgeStatus ------------------------------
(***************************************************************************)
(* Who asks for forge statuses and who reads them in the TUI (app.rs): the *)
(* prefetch of every relist, the explicit refresh, the context verbs that  *)
(* ask for what they need, and the create form that waits for an issue.    *)
(* The links are the world's, read again at each navigation and relist;    *)
(* workers land in any order, well or badly.                               *)
(***************************************************************************)
EXTENDS FetchCache

CONSTANTS
    Rows,       \* the worktrees of the table
    Numbers,    \* issue and PR numbers
    NoNumber,
    MaxMoves,   \* bound: changes of the remote and of the links explored
    MaxClaims   \* bound: generations explored per key

\* Any number may be typed as an issue's.
ASSUME StatusAssumption ==
    /\ {"issue"} \X Numbers \subseteq Kinds
    /\ Kinds \subseteq {"issue", "pr"} \X Numbers
    /\ NoNumber \notin Numbers

VARIABLES
    origin,     \* the instance the remote stands for
    links,      \* the persisted link of each row
    forge,      \* App.github.forge
    link,       \* App.github.link: the selected row's
    selected,   \* the selected row
    table,      \* worktrees[*].link: what the last listing read
    fetch,      \* caches, spine and workers (FetchCache)
    form,       \* the create form, when it derives from an issue
    moves       \* history: changes made by others so far

world == <<origin, links, moves>>
app == <<forge, link, selected, table>>
vars == <<origin, links, forge, link, selected, table, fetch, form, moves>>

Number == Numbers \cup {NoNumber}
Linkable(side) == {n \in Numbers : <<side, n>> \in Kinds} \cup {NoNumber}
Link == [issue : Linkable("issue"), pr : Linkable("pr"), explicit : BOOLEAN]
Form == [mode : {"closed", "asking", "derived"}, typed : Number, awaiting : Number]
NoForm == [mode |-> "closed", typed |-> NoNumber, awaiting |-> NoNumber]

TypeOK ==
    /\ origin \in Instances \cup {NoForge} /\ forge \in Instances \cup {NoForge}
    /\ links \in [Rows -> Link] /\ table \in [Rows -> Link]
    /\ link \in Link /\ selected \in Rows
    /\ FetchOK(fetch)
    /\ form \in Form
    /\ form.mode # "asking" => form.awaiting = NoNumber
    /\ moves \in Nat

Keys(l) == {<<"issue", l.issue>>, <<"pr", l.pr>>} \cap Kinds
Bounded(f) == \A k \in Kinds : f.runner.generation[k] <= MaxClaims

-----------------------------------------------------------------------------
\* Slip: a navigation that keeps the caches wherever the remote points.
RereadKeeps(f) == f

\* reread_link and the pairing refresh_link adds: only a change of instance
\* flushes, and it drops what is in flight too.
Reread(f) == IF origin # forge THEN Flushed(f) ELSE f

\* refresh_link, for a row.
RefreshLink(r) ==
    /\ forge' = origin
    /\ link' = links[r]
    /\ selected' = r

\* Someone moves the remote or links another number to a branch.
WorldMoves ==
    /\ moves < MaxMoves
    /\ moves' = moves + 1
    /\ \/ \E o \in (Instances \cup {NoForge}) \ {origin} : origin' = o /\ UNCHANGED links
       \/ \E r \in Rows, l \in Link : links' = [links EXCEPT ![r] = l] /\ UNCHANGED origin
    /\ UNCHANGED <<app, fetch, form>>

\* j, k, a click: select_next and its kin, in the list.
Navigate(r) ==
    /\ form.mode = "closed"
    /\ RefreshLink(r)
    /\ fetch' = Reread(fetch)
    /\ UNCHANGED <<world, table, form>>

\* A listing lands, whatever is open: apply_refreshed_worktrees may move the
\* selection (its row is gone), re-reads the link, expires the outcomes and
\* asks for every linked number of the table.
Relist(r) ==
    /\ table' = links
    /\ RefreshLink(r)
    /\ fetch' = Spawned(Expired(Reread(fetch), {}), origin, UNION {Keys(links[w]) : w \in Rows})
    /\ Bounded(fetch')
    /\ UNCHANGED <<world, form>>

\* F: probe for the PR unless it is pinned, mirror it into the table, then flush
\* and ask for the linked numbers.  Nothing is flushed when nothing is linked or
\* no forge resolves.
Probed(found) ==
    IF link.explicit \/ forge = NoForge THEN link ELSE [link EXCEPT !.pr = found]
Refresh(found) ==
    /\ form.mode = "closed"
    /\ link' = Probed(found)
    /\ links' = IF link.explicit \/ forge = NoForge THEN links
                ELSE [links EXCEPT ![selected].pr = found]
    /\ table' = IF link.explicit \/ forge = NoForge THEN table
                ELSE [table EXCEPT ![selected] = link']
    /\ fetch' = IF Keys(link') = {} \/ forge = NoForge THEN fetch
                ELSE Spawned(Flushed(fetch), forge, Keys(link'))
    /\ Bounded(fetch')
    /\ UNCHANGED <<origin, moves, forge, selected, form>>

\* C, I, the merge confirmation: forge_fetch_gap asks for one side of the link.
Gap(k) ==
    /\ form.mode = "closed"
    /\ k \in Keys(link)
    /\ fetch' = Spawned(fetch, forge, {k})
    /\ fetch' # fetch
    /\ Bounded(fetch')
    /\ UNCHANGED <<world, app, form>>

-----------------------------------------------------------------------------
\* The create form, in the mode that derives a branch from an issue.
OpenForm ==
    /\ form.mode = "closed"
    /\ form' = [NoForm EXCEPT !.mode = "asking"]
    /\ UNCHANGED <<world, app, fetch>>

Type(n) ==
    /\ form.mode = "asking"
    /\ form.typed # n
    /\ form' = [form EXCEPT !.typed = n]
    /\ UNCHANGED <<world, app, fetch>>

CloseForm ==
    /\ form.mode # "closed"
    /\ form' = NoForm
    /\ UNCHANGED <<world, app, fetch>>

\* prefill_from_issue.
Derived(n) == [mode |-> "derived", typed |-> n, awaiting |-> NoNumber]

\* derive_from_issue: a number that has a worktree closes the form, one that is
\* loaded fills it at once; for any other the form waits and a fetch is asked
\* for, unless the cache or the spine already answers for it.
Derive ==
    /\ form.mode = "asking" /\ form.typed \in Numbers
    /\ LET k == <<"issue", form.typed>> IN
       \/ /\ \E r \in Rows : table[r].issue = form.typed
          /\ form' = NoForm
          /\ UNCHANGED fetch
       \/ /\ \A r \in Rows : table[r].issue # form.typed
          /\ Phase(fetch, k) = "loaded"
          /\ form' = Derived(form.typed)
          /\ UNCHANGED fetch
       \/ /\ \A r \in Rows : table[r].issue # form.typed
          /\ Phase(fetch, k) # "loaded"
          /\ forge # NoForge
          /\ form' = [form EXCEPT !.awaiting = form.typed]
          /\ fetch' = Spawned(fetch, forge, {k})
          /\ Bounded(fetch')
    /\ UNCHANGED <<world, app>>

\* Slip: any landed issue answers the form.
AnswersAny(k) == form.mode = "asking" /\ form.awaiting # NoNumber

\* apply_awaited_issue looks at the number and at the view.
AnswersForm(k) == form.mode = "asking" /\ k = <<"issue", form.awaiting>>

\* drain_task_results: a worker's message, in any order.
Lands(flight) ==
    /\ \E ok \in BOOLEAN :
         /\ fetch' = Landed(fetch, flight, ok)
         /\ form' = IF ~ (Accepts(fetch, flight) /\ AnswersForm(flight.key)) THEN form
                    ELSE IF ok THEN Derived(flight.key[2])
                    ELSE [form EXCEPT !.awaiting = NoNumber]
    /\ UNCHANGED <<world, app>>

Init ==
    /\ origin \in Instances
    /\ links \in [Rows -> {l \in Link : ~ l.explicit}]
    /\ forge = origin
    /\ table = links
    /\ selected \in Rows
    /\ link = links[selected]
    /\ fetch = Spawned(EmptyFetch, forge, UNION {Keys(links[r]) : r \in Rows})
    /\ form = NoForm
    /\ moves = 0

Next ==
    \/ WorldMoves
    \/ \E r \in Rows : Navigate(r) \/ Relist(r)
    \/ \E n \in Linkable("pr") : Refresh(n)
    \/ \E k \in Kinds : Gap(k)
    \/ OpenForm
    \/ \E n \in Numbers : Type(n)
    \/ CloseForm
    \/ Derive
    \/ \E flight \in fetch.flights : Lands(flight)

Spec == Init /\ [][Next]_vars

\* A worker's subprocess returns and the loop drains its message.
FairSpec == Spec /\ \A k \in Kinds :
    WF_vars(\E flight \in fetch.flights : flight.key = k /\ Lands(flight))

-----------------------------------------------------------------------------
\* The cache and the spine agree, and every claim is held by one worker: a
\* section that says it is loading will stop saying so (app.rs, 8160-8172).
CacheAgreesWithSpine == AgreesWithSpine(fetch) /\ ClaimsAreHeld(fetch)

\* The same with the types: what is shown as loading is a claim of a worker
\* whose message will be accepted (GitHubFetch and TaskRunner together).
CacheInv == TypeOK /\ CacheAgreesWithSpine

\* A status on screen is of the instance the TUI has resolved: #42 of the old
\* remote is never shown as #42 of the new one (github_fetch.rs, 163-175).
NoForeignResult ==
    \A k \in Kinds : Phase(fetch, k) = "loaded" => fetch.cache[k].from = forge

\* Nothing asked for before the last flush is ever shown after it: F shows what
\* was fetched since F (app.rs, 7959-7962).
FreshOnDemand ==
    \A k \in Kinds : Phase(fetch, k) = "loaded" => fetch.cache[k].epoch = fetch.epoch

\* What is shown is of this instance and of since the last flush (refresh_github).
ShownIsCurrent == NoForeignResult /\ FreshOnDemand

\* A relist leaves the fetches in flight alone, so a row whose forge is slower
\* than the auto-refresh still fills (github_fetch.rs, 254-269).
FlightsAreSpared ==
    [][\A k \in Kinds : \A flight \in fetch.flights :
          (/\ flight.key = k /\ Accepts(fetch, flight)
           /\ flight \in fetch'.flights /\ fetch'.epoch = fetch.epoch)
              => Accepts(fetch', flight)]_vars

\* The form is filled with the issue it asked for last, whatever else lands
\* (apply_awaited_issue, 6690-6693).
FormTakesItsOwn ==
    [][(form.mode = "asking" /\ form'.mode = "derived" /\ form.awaiting # NoNumber)
          => form'.typed \in {form.awaiting, form.typed}]_vars

\* Every answer gets to who asked: the section of a row, or the form (on_relist,
\* apply_awaited_issue).
AnswersArrive == FlightsAreSpared /\ FormTakesItsOwn

\* Every section stops loading.
LoadingEnds == \A k \in Kinds : Phase(fetch, k) = "loading" ~> Phase(fetch, k) # "loading"

\* While the form waits for a number, a fetch of that number is in flight, whose
\* result will reach it (app.rs, 6673-6675).
AwaitedIsInFlight ==
    (form.mode = "asking" /\ form.awaiting # NoNumber)
       => Phase(fetch, <<"issue", form.awaiting>>) = "loading"

=============================================================================
