------------------------------ MODULE MCThreads ------------------------------
(* Two questions about the threads of the resolver, asked one per behaviour: *)
(* how equal queries join (Coalescer) and how the answers they were given    *)
(* stale are refreshed behind them (Refresh).                                *)
EXTENDS MCCoalescer, Refresh

VARIABLE topic

\* Key 1 is data, key 2 an alias of it.
OneAlias == [k \in CacheKeys |-> IF k = 1 THEN <<2>> ELSE <<>>]

\* A stale chain, or two prefetch candidates.
Chain == {<<2, 1>>}

ThreadsInit == topic \in {"calls", "refresh"} /\ Init /\ RefreshInit

ThreadsNext ==
    /\ \/ topic = "calls" /\ Next /\ UNCHANGED refreshVars
       \/ topic = "refresh" /\ RefreshNext /\ UNCHANGED vars
    /\ UNCHANGED topic

\* Each topic under the fairness of its own module.
ThreadsSpec ==
    /\ ThreadsInit
    /\ [][ThreadsNext]_<<topic, vars, refreshVars>>
    /\ \/ topic = "calls" /\ Fairness
       \/ topic = "refresh" /\ RefreshFairness
=============================================================================
