----------------------------- MODULE AliasGraph -----------------------------
(***************************************************************************)
(* The alias-dependency graph over cached keys (src/alias.rs), which tells *)
(* a refresh of some data which CNAME entries to refresh with it.  Edges   *)
(* are kept in both directions, with a counter that enforces the cap; keys *)
(* not seen for a while are pruned by the maintenance thread.              *)
(***************************************************************************)
EXTENDS Naturals, FiniteSets, Sequences, WallClock

CONSTANTS
    Keys,       \* cache keys, numbered in their order
    MaxEdges,   \* max_edges
    PruneAge,   \* prune_age_secs, in ticks
    AliasTime   \* bound on the clock

ASSUME AliasAssumption ==
    /\ Keys \subseteq Nat /\ IsFiniteSet(Keys)
    /\ MaxEdges \in Nat /\ PruneAge \in Nat /\ AliasTime \in Nat

VARIABLES
    fwd,     \* fwd[a]: what a depends on
    rev,     \* rev[t]: what depends on t
    seen,    \* when a key last took part in a resolution
    edges    \* the running edge count

aliasVars == <<now, fwd, rev, seen, edges>>

AliasInit ==
    /\ now = 0
    /\ fwd = [k \in Keys |-> {}]
    /\ rev = [k \in Keys |-> {}]
    /\ seen = <<>>
    /\ edges = 0

Touch(S) == [k \in DOMAIN seen \cup S |-> IF k \in S THEN now ELSE seen[k]]

\* link: both keys are seen now; a new edge is recorded below the cap.
Link(alias, target) ==
    /\ seen' = Touch({alias, target})
    /\ IF target \in fwd[alias] \/ edges >= MaxEdges
       THEN UNCHANGED <<fwd, rev, edges>>
       ELSE /\ fwd' = [fwd EXCEPT ![alias] = @ \cup {target}]
            /\ rev' = [rev EXCEPT ![target] = @ \cup {alias}]
            /\ edges' = edges + 1
    /\ UNCHANGED now

\* The keys not seen since the cutoff.
Dead == { k \in DOMAIN seen : seen[k] + PruneAge < now }

\* Fault: only the lists of the dead keys go, not their mentions elsewhere.
CutSources(f) == [k \in Keys |-> IF k \in Dead THEN {} ELSE f[k]]

\* One direction of the graph without the dead keys.
Cut(f) == [k \in Keys |-> IF k \in Dead THEN {} ELSE f[k] \ Dead]

EdgesOf(f) == { e \in Keys \X Keys : e[2] \in f[e[1]] }

\* prune, with the configured age; edges are recounted.
Prune ==
    /\ Dead # {}
    /\ seen' = [k \in DOMAIN seen \ Dead |-> seen[k]]
    /\ fwd' = Cut(fwd)
    /\ rev' = Cut(rev)
    /\ edges' = Cardinality(EdgesOf(fwd'))
    /\ UNCHANGED now

\* Wall-clock time passes, or the clock is set back.
AliasClock ==
    /\ SetClock(AliasTime)
    /\ UNCHANGED <<fwd, rev, seen, edges>>

AliasNext == AliasClock \/ Prune \/ \E a, t \in Keys : Link(a, t)

AliasSpec == AliasInit /\ [][AliasNext]_aliasVars

-----------------------------------------------------------------------------
(* closure: breadth-first search along fwd *)

InOrder(S) == CHOOSE s \in [1 .. Cardinality(S) -> S] : \A i, j \in DOMAIN s : i < j => s[i] < s[j]

\* One iteration of the loop, from the visited keys and the queue before it.
Visit(s, max) ==
    LET new == fwd[Head(s.queue)] \ s.seen
    IN  IF s.queue = <<>> \/ Cardinality(s.seen) >= max THEN s
        ELSE [seen |-> s.seen \cup new, queue |-> Tail(s.queue) \o InOrder(new)]

\* at[n]: after n iterations; every key is queued at most once.
Search(key, max) ==
    LET at[n \in 0 .. Cardinality(Keys)] ==
          IF n = 0 THEN [seen |-> {key}, queue |-> <<key>>] ELSE Visit(at[n - 1], max)
    IN  at[Cardinality(Keys)]

\* Fault: the search does not go beyond the direct targets.
ClosureOneHop(key, max) == {key} \cup fwd[key]

Closure(key, max) == Search(key, max).seen

\* What is reachable from a key, by the least set closed under the edges.
ClosedUnder(S) == \A a \in S : fwd[a] \subseteq S

Reachable(key) == { k \in Keys : \A S \in SUBSET Keys : key \in S /\ ClosedUnder(S) => k \in S }

-----------------------------------------------------------------------------
(* Every variable has its type. *)
AliasTypeOK ==
    /\ now \in Nat
    /\ fwd \in [Keys -> SUBSET Keys] /\ rev \in [Keys -> SUBSET Keys]
    /\ DOMAIN seen \subseteq Keys /\ \A k \in DOMAIN seen : seen[k] \in Nat
    /\ edges \in Nat

(* The two directions are transposes of each other, so that a refresh of some
   data finds every alias that needs it and no other, and the counter is the
   number of edges and respects the cap: "a running counter is exactly the kind
   of bookkeeping that drifts and then silently disables the cap" (prune). *)
EdgesExact ==
    /\ AliasTypeOK
    /\ \A a, t \in Keys : t \in fwd[a] <=> a \in rev[t]
    /\ edges = Cardinality(EdgesOf(fwd)) /\ edges <= MaxEdges

(* closure finds reachable keys only, and all of them unless it reports at
   least max. *)
ClosureExact ==
    \A k \in Keys, max \in 0 .. Cardinality(Keys) :
        /\ Closure(k, max) \subseteq Reachable(k)
        /\ Cardinality(Closure(k, max)) < max => Closure(k, max) = Reachable(k)
=============================================================================
