------------------------------ MODULE MCShared ------------------------------
(* The bounded tables all request threads share, each behind its mutex and   *)
(* all under the one wall clock: one table per behaviour.                    *)
EXTENDS RateLimiter, AliasGraph, FakeIp, Upstream, TLC

VARIABLE table      \* which table the behaviour looks at

\* Keys of the range, the network address and one past the end; two names
\* dispute key 2.
SomeSnapshot == {<<"a", 0>>, <<"a", 1>>, <<"a", 2>>, <<"b", 2>>, <<"c", 5>>}

\* Two servers of one kind, one that needs a handshake, and one never used
\* whose identifier collides with the first's.
SomeSetup == <<0, 0, 1, 0>>
SomeIds == <<11, 12, 13, 11>>
SomeDraws == [x |-> (11 :> 9 @@ 12 :> 5 @@ 13 :> 7), y |-> (11 :> 3 @@ 12 :> 8 @@ 13 :> 1)]
SomeLists == {<<3, 2, 1>>, <<4, 2, 1>>}

limiterTable == <<buckets, born, passed>>
graphTable == <<fwd, rev, seen, edges>>
poolTable == <<byKey, byName, next>>
pathTable == <<paths, records>>

Init ==
    /\ table \in {"limiter", "graph", "pool", "paths"}
    /\ LimiterInit /\ AliasInit /\ FakeInit /\ SelectorInit

Next ==
    \/ table = "limiter" /\ LimiterNext /\ UNCHANGED <<table, graphTable, poolTable, pathTable>>
    \/ table = "graph" /\ AliasNext /\ UNCHANGED <<table, limiterTable, poolTable, pathTable>>
    \/ table = "pool" /\ FakeNext /\ UNCHANGED <<table, limiterTable, graphTable, pathTable>>
    \/ table = "paths" /\ SelectorNext /\ UNCHANGED <<table, limiterTable, graphTable, poolTable>>

Spec == Init /\ [][Next]_<<table, now, limiterTable, graphTable, poolTable, pathTable>>
=============================================================================
