--------------------------- MODULE MCSemanticCache ---------------------------
(* Three ways of using the cache, one per behaviour: entries of every score  *)
(* that move between full tiers, questions from nested networks against a    *)
(* cache without a warm tier, and a cache that is saved, restarted and       *)
(* restored.  A second is two ticks long.                                    *)
EXTENDS SemanticCache

VARIABLE use

\* A /2 network, the /1 around it and the global partition.
Networks == {<<>>, <<0>>, <<0, 1>>}

\* Addresses in every network, and an alias and all types in the global one.
Addresses == Names \X {"A"} \X Networks
Mixed == Addresses \union (Names \X {"CNAME", "ANY"} \X {<<>>})

\* Fewer places than keys, and none to spare on the way down.
Narrow == [t \in Tiers |-> 1]
\* The warm tier disabled.
NoWarm == [t \in Tiers |-> IF t = "warm" THEN 0 ELSE 1]

\* Entries of every score.
Moved == INSTANCE SemanticCache WITH NxNames <- {}

Queried == INSTANCE SemanticCache WITH Scores <- {3}, Capacity <- NoWarm, Asked <- Mixed,
    Ttls <- {0, 2}

\* The cache with a snapshot file.
Saved == INSTANCE SemanticCache WITH Persist <- TRUE, Scores <- {3}, Ttls <- {2},
    Asked <- {k \in Addresses : Len(k[3]) < 2}

CacheInit == Init /\ use \in {"tiers", "lookup", "restart"}

CacheNext ==
    /\ \/ use = "tiers" /\ Moved!Next
       \/ use = "lookup" /\ Queried!Next
       \/ use = "restart" /\ Saved!Next
    /\ UNCHANGED use

CacheSpec == CacheInit /\ [][CacheNext]_<<use, vars>>
=============================================================================
