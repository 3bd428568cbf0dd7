------------------------------- MODULE Refresh -------------------------------
(***************************************************************************)
(* Background refresh (src/resolver.rs: queue_background_refresh,          *)
(* acquire_refresh_slot, RefreshSlot, refresh_with_dependents, refresh_key *)
(* and the prefetch part of the maintenance loop; src/cache/mod.rs: the    *)
(* refreshing mark of an entry; src/risk.rs: RefreshBudget).               *)
(*                                                                         *)
(* Client threads that served a stale answer and the maintenance thread    *)
(* ask for keys to be refreshed.  Asking takes four steps, each under a    *)
(* different lock: mark the entry, take one of the refresh slots, take a   *)
(* budget token, start a thread.  What a step took, a later step that      *)
(* fails has to give back.  Meanwhile foreground resolutions store fresh   *)
(* entries and the cache evicts others.                                    *)
(***************************************************************************)
EXTENDS TokenBucket, Sequences, FiniteSets

CONSTANTS
    CacheKeys,     \* cache keys
    Callers,       \* threads that ask for refreshes
    Runners,       \* identities of dns-refresh threads
    Batches,       \* lists of keys one caller asks for: a stale chain, or the
                   \* candidates refresh_schedule returned
    Dependents,    \* Dependents[k]: the aliases that need k (AliasGraph)
    MaxChain,      \* max_chain_refresh
    MaxRefreshes,  \* max_concurrent_refreshes, after .max(1)
    Capacity, Rate,  \* RefreshBudget, in tokens and tokens per tick
    MaxTime        \* bound on the clock

ASSUME RefreshAssumption ==
    /\ IsFiniteSet(Callers) /\ IsFiniteSet(Runners)
    /\ Batches \subseteq Seq(CacheKeys)
    /\ Dependents \in [CacheKeys -> Seq(CacheKeys)]
    /\ MaxChain \in Nat /\ MaxRefreshes \in Nat \ {0}
    /\ Cardinality(Runners) >= MaxRefreshes
    /\ Capacity \in Nat /\ Rate \in Nat /\ MaxTime \in Nat

VARIABLES
    cached,      \* keys with an entry in some tier
    marked,      \* keys whose entry has its refreshing mark set
    refreshing,  \* the atomic counter of refresh slots in use
    budget,      \* RefreshBudget: its token bucket
    now,         \* the wall clock
    caller,      \* caller[c]: where a caller stands in its list
    runner,      \* runner[r]: what a dns-refresh thread is doing
    lost         \* the marks left behind by refreshes that ended or never began,
                 \* and the number of slots left behind (history)

marks == <<marked, lost>>
refreshVars == <<cached, marks, refreshing, budget, now, caller, runner>>

Resting == [pc |-> "idle", key |-> <<>>, roots |-> <<>>, deps |-> <<>>,
            root |-> FALSE, queued |-> 0]

Free == [pc |-> "idle", key |-> <<>>]

RefreshInit ==
    /\ cached = {}
    /\ marked = {}
    /\ refreshing = 0
    /\ budget = NewBucket(Capacity, 0)
    /\ now = 0
    /\ caller = [c \in Callers |-> Resting]
    /\ runner = [r \in Runners |-> Free]
    /\ lost = [keys |-> {}, slots |-> 0]

-----------------------------------------------------------------------------
(* The cache, as far as refreshing sees it *)

\* The refreshing mark of an entry goes, with the entry or without it.
Clears(k) ==
    /\ marked' = marked \ {k}
    /\ lost' = [lost EXCEPT !.keys = @ \ {k}]

\* insert_positive and insert_negative end a refresh of the key; an entry with
\* too low a score is not admitted.
Store(k) ==
    /\ cached' \in {cached \cup {k}, cached \ {k}}
    /\ Clears(k)

\* A foreground resolution stores its answer.
ClientStores(k) ==
    /\ Store(k)
    /\ UNCHANGED <<refreshing, budget, now, caller, runner>>

\* A sweep, an eviction or a dead entry met by a lookup.
Evicts(k) ==
    /\ k \in cached
    /\ cached' = cached \ {k}
    /\ Clears(k)
    /\ UNCHANGED <<refreshing, budget, now, caller, runner>>

\* Wall-clock time passes, or the clock is set back.
SetClock ==
    /\ now' \in 0 .. MaxTime
    /\ now' <= now + 1
    /\ UNCHANGED <<cached, marks, refreshing, budget, caller, runner>>

-----------------------------------------------------------------------------
(* A caller: refresh_with_dependents for each key of its list *)

Ask(c, k, me) == caller' = [caller EXCEPT ![c] = [me EXCEPT !.pc = "mark", !.key = k]]

\* A stale answer was served, or the maintenance thread has its candidates.
Begin(c, batch) ==
    /\ caller[c].pc = "idle"
    /\ batch # <<>>
    /\ Ask(c, Head(batch), [Resting EXCEPT !.roots = Tail(batch), !.root = TRUE])
    /\ UNCHANGED <<cached, marks, refreshing, budget, now, runner>>

\* queue_background_refresh returned `ok`: go on with the dependents of the
\* root, at most MaxChain of them queued, and then with the next root.
Proceed(c, ok) ==
    LET me   == caller[c]
        n    == IF me.root THEN 0 ELSE me.queued + (IF ok THEN 1 ELSE 0)
        deps == IF me.root THEN Dependents[me.key] ELSE me.deps
    IN  IF deps # <<>> /\ n < MaxChain
        THEN Ask(c, Head(deps), [me EXCEPT !.deps = Tail(deps), !.root = FALSE, !.queued = n])
        ELSE IF me.roots # <<>>
        THEN Ask(c, Head(me.roots), [Resting EXCEPT !.roots = Tail(me.roots), !.root = TRUE])
        ELSE caller' = [caller EXCEPT ![c] = Resting]

MoveTo(c, pc) == caller' = [caller EXCEPT ![c].pc = pc]

\* Fault: the key is marked although its entry may be gone.
MarkBlind(c) ==
    /\ caller[c].pc = "mark"
    /\ IF caller[c].key \notin marked
       THEN marked' = marked \cup {caller[c].key} /\ MoveTo(c, "slot")
       ELSE UNCHANGED marked /\ Proceed(c, FALSE)
    /\ UNCHANGED <<cached, lost, refreshing, budget, now, runner>>

\* mark_refreshing, under the cache lock.
Mark(c) ==
    /\ caller[c].pc = "mark"
    /\ IF caller[c].key \in cached \ marked
       THEN marked' = marked \cup {caller[c].key} /\ MoveTo(c, "slot")
       ELSE UNCHANGED marked /\ Proceed(c, FALSE)
    /\ UNCHANGED <<cached, lost, refreshing, budget, now, runner>>

\* acquire_refresh_slot: a compare-and-swap loop, so one atomic step.
AcquireSlot(c) ==
    /\ caller[c].pc = "slot"
    /\ IF refreshing >= MaxRefreshes
       THEN MoveTo(c, "unmark") /\ UNCHANGED refreshing
       ELSE MoveTo(c, "budget") /\ refreshing' = refreshing + 1
    /\ UNCHANGED <<cached, marks, budget, now, runner>>

\* Fault: no slot, and the mark is forgotten.
UnmarkForgotten(c) ==
    /\ caller[c].pc = "unmark"
    /\ Proceed(c, FALSE)
    /\ UNCHANGED <<cached, marks, refreshing, budget, now, runner>>

\* No slot: clear_refreshing, under the cache lock again.
Unmark(c) ==
    /\ caller[c].pc = "unmark"
    /\ Clears(caller[c].key)
    /\ Proceed(c, FALSE)
    /\ UNCHANGED <<cached, refreshing, budget, now, runner>>

\* RefreshBudget::take(1, now).
TakeBudget(c) ==
    LET b  == Refill(budget, Capacity, Rate, now)
        ok == Grants(b, 1)
    IN  /\ caller[c].pc = "budget"
        /\ budget' = IF ok THEN Spend(b, 1) ELSE b
        /\ MoveTo(c, IF ok THEN "spawn" ELSE "denied")
        /\ UNCHANGED <<cached, marks, refreshing, now, runner>>

\* No token: the mark goes back under the cache lock, then the slot.
Denied(c) ==
    /\ caller[c].pc = "denied"
    /\ Clears(caller[c].key)
    /\ MoveTo(c, "giveback")
    /\ UNCHANGED <<cached, refreshing, budget, now, runner>>

\* Fault: a denied refresh keeps its slot.
GiveBackForgotten(c) ==
    /\ caller[c].pc = "giveback"
    /\ Proceed(c, FALSE)
    /\ UNCHANGED <<cached, marks, refreshing, budget, now, runner>>

GiveBack(c) ==
    /\ caller[c].pc = "giveback"
    /\ refreshing' = refreshing - 1
    /\ Proceed(c, FALSE)
    /\ UNCHANGED <<cached, marks, budget, now, runner>>

\* The thread starts and will own the slot.
Spawn(c) ==
    /\ caller[c].pc = "spawn"
    /\ \E r \in Runners :
         /\ runner[r].pc = "idle"
         /\ r = CHOOSE q \in Runners : runner[q].pc = "idle"
         /\ runner' = [runner EXCEPT ![r] = [pc |-> "resolve", key |-> caller[c].key]]
    /\ Proceed(c, TRUE)
    /\ UNCHANGED <<cached, marks, refreshing, budget, now>>

\* The thread does not start; its error is discarded and the caller returns
\* true all the same.
SpawnRefused(c) ==
    /\ caller[c].pc = "spawn"
    /\ Proceed(c, TRUE)
    /\ lost' = [keys |-> lost.keys \cup ({caller[c].key} \cap marked), slots |-> lost.slots + 1]
    /\ UNCHANGED <<cached, marked, refreshing, budget, now, runner>>

-----------------------------------------------------------------------------
(* A dns-refresh thread *)

RunnerGoto(r, pc) == runner' = [runner EXCEPT ![r].pc = pc]

\* refresh_key resolves past the cache.  A success is stored twice, by
\* resolve_inner and by refresh_key; what an NXDOMAIN or an answer for another
\* ECS scope stores is not this key's entry, and
\* a panic stores nothing: the last disjunct.
Resolve(r) ==
    /\ runner[r].pc = "resolve"
    /\ \/ Store(runner[r].key) /\ RunnerGoto(r, "again")
       \/ RunnerGoto(r, "failure") /\ UNCHANGED <<cached, marks>>
       \/ /\ RunnerGoto(r, "release")
          /\ lost' = [lost EXCEPT !.keys = @ \cup ({runner[r].key} \cap marked)]
          /\ UNCHANGED <<cached, marked>>
    /\ UNCHANGED <<refreshing, budget, now, caller>>

StoreAgain(r) ==
    /\ runner[r].pc = "again"
    /\ Store(runner[r].key)
    /\ RunnerGoto(r, "release")
    /\ UNCHANGED <<refreshing, budget, now, caller>>

\* record_refresh_failure.
Failure(r) ==
    /\ runner[r].pc = "failure"
    /\ Clears(runner[r].key)
    /\ RunnerGoto(r, "release")
    /\ UNCHANGED <<cached, refreshing, budget, now, caller>>

\* RefreshSlot is dropped, on return and on unwinding.
Release(r) ==
    /\ runner[r].pc = "release"
    /\ refreshing' = refreshing - 1
    /\ runner' = [runner EXCEPT ![r] = Free]
    /\ UNCHANGED <<cached, marks, budget, now, caller>>

-----------------------------------------------------------------------------
CallerStep(c) ==
    \/ Mark(c) \/ AcquireSlot(c) \/ Unmark(c) \/ TakeBudget(c) \/ Denied(c)
    \/ GiveBack(c) \/ Spawn(c) \/ SpawnRefused(c)

RunnerStep(r) == Resolve(r) \/ StoreAgain(r) \/ Failure(r) \/ Release(r)

RefreshNext ==
    \/ \E k \in CacheKeys : ClientStores(k) \/ Evicts(k)
    \/ SetClock
    \/ \E c \in Callers, batch \in Batches : Begin(c, batch)
    \/ \E c \in Callers : CallerStep(c)
    \/ \E r \in Runners : RunnerStep(r)

RefreshSpec == RefreshInit /\ [][RefreshNext]_refreshVars

(* Threads are scheduled and a resolution ends by its deadline. *)
RefreshFairness ==
    /\ \A c \in Callers : WF_refreshVars(CallerStep(c))
    /\ \A r \in Runners : WF_refreshVars(RunnerStep(r))

FairRefresh == RefreshSpec /\ RefreshFairness

-----------------------------------------------------------------------------
CallerPcs == {"idle", "mark", "slot", "unmark", "budget", "denied", "giveback", "spawn"}

RunnerPcs == {"idle", "resolve", "again", "failure", "release"}

(* Every variable has its type. *)
RefreshTypeOK ==
    /\ cached \subseteq CacheKeys /\ marked \subseteq CacheKeys
    /\ refreshing \in Nat
    /\ budget \in [tokens : 0 .. Capacity, last : Nat]
    /\ now \in Nat
    /\ \A c \in Callers : /\ caller[c].pc \in CallerPcs
                          /\ caller[c].pc # "idle" => caller[c].key \in CacheKeys
    /\ \A r \in Runners : /\ runner[r].pc \in RunnerPcs
                          /\ runner[r].pc # "idle" => runner[r].key \in CacheKeys

\* Who holds a refresh slot.
HoldingCallers == { c \in Callers : caller[c].pc \in {"budget", "denied", "giveback", "spawn"} }
LiveRunners == { r \in Runners : runner[r].pc # "idle" }

(* "The number of concurrent refreshes is capped": the counter never passes
   max_concurrent_refreshes.  It is the number of "live background refreshes"
   (refreshes_in_flight): every slot counted is held by somebody who will give
   it back; only a thread that could not be started leaves one behind. *)
SlotsReturned ==
    /\ RefreshTypeOK
    /\ refreshing <= MaxRefreshes
    /\ refreshing = Cardinality(HoldingCallers) + Cardinality(LiveRunners) + lost.slots

(* Only an entry that is there is marked, and it has a refresh under way,
   whatever clients store and the cache evicts meanwhile; only a refresh that could not be started, or that ended
   without storing the entry, leaves a mark behind. *)
MarkIsOwned ==
    /\ marked \subseteq cached
    /\ \A k \in marked \ lost.keys :
        \/ \E c \in Callers : /\ caller[c].pc \in {"slot", "unmark", "budget", "denied", "spawn"}
                              /\ caller[c].key = k
        \/ \E r \in Runners : runner[r].pc \in {"resolve", "failure"} /\ runner[r].key = k

(* A mark that is not left behind is taken off again: the entry can be
   refreshed once more. *)
MarksClear == \A k \in CacheKeys : k \in marked ~> (k \notin marked \/ k \in lost.keys)
=============================================================================
