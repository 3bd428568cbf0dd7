------------------------- MODULE SemanticCacheProofs -------------------------
(***************************************************************************)
(* Machine-checked proofs about SemanticCache, for any names, types,       *)
(* partitions, scores, capacities and TTLs: the score index is exact, no   *)
(* tier outgrows its capacity, a key is cached in one tier only, the       *)
(* NXDOMAIN store is bounded, no lifetime outgrows its cap, and a lookup   *)
(* answers from the narrowest network that has an answer.                  *)
(***************************************************************************)
EXTENDS SemanticCache, FiniteSetTheorems, SequenceTheorems, WellFoundedInduction,
        TLAPS

(* A tier whose index lists exactly its entries, each filed under its key. *)
TmOK(tm) ==
    /\ tm \in TierMap
    /\ IsFiniteSet(Present(tm))
    /\ \A s \in Scores, k \in Keys :
         <<s, k>> \in tm.rank <=> tm.map[k] # NoEntry /\ tm.map[k].score = s
    /\ \A k \in Keys : tm.map[k] # NoEntry => tm.map[k].key = k

Fits(tm, capacity) == capacity > 0 => Cardinality(Present(tm)) <= capacity

Single(ts) ==
    \A k \in Keys, t, u \in Tiers :
        ts[t].map[k] # NoEntry /\ ts[u].map[k] # NoEntry => t = u

(* The three tiers together. *)
TsOK(ts) ==
    /\ ts \in [Tiers -> TierMap]
    /\ \A t \in Tiers : TmOK(ts[t]) /\ Fits(ts[t], Capacity[t])
    /\ Single(ts)

Absent(ts, k) == \A t \in Tiers : ts[t].map[k] = NoEntry

(* Whatever new holds, old held too, with the exception of the key k. *)
AddsOnly(new, old, k) ==
    \A j \in Keys : j # k /\ Absent(old, j) => Absent(new, j)

LEMMA EntryFacts ==
    ASSUME NEW e \in Entry
    PROVE  e # NoEntry /\ e.key \in Keys /\ e.score \in Scores
  BY CacheAssumption DEF Entry, Keys

LEMMA CapacityFacts ==
    ASSUME NEW t \in Tiers
    PROVE  Capacity[t] \in Nat
  BY CacheAssumption

-----------------------------------------------------------------------------
(* Removing a key removes it from the map and from the index. *)
LEMMA TmRemoveOK ==
    ASSUME NEW tm, TmOK(tm), NEW k \in Keys
    PROVE  /\ TmOK(TmRemove(tm, k))
           /\ Present(TmRemove(tm, k)) = Present(tm) \ {k}
           /\ TmRemove(tm, k).map = [tm.map EXCEPT ![k] = NoEntry]
  <1> DEFINE new == TmRemove(tm, k)
  <1>1. CASE tm.map[k] = NoEntry
    <2>1. new = tm
      BY <1>1 DEF TmRemove
    <2>2. tm.map = [tm.map EXCEPT ![k] = NoEntry]
      BY <1>1 DEF TmOK, TierMap
    <2> QED BY <1>1, <2>1, <2>2 DEF Present
  <1>2. CASE tm.map[k] # NoEntry
    <2>1. /\ new.map = [tm.map EXCEPT ![k] = NoEntry]
          /\ new.rank = tm.rank \ {<<tm.map[k].score, k>>}
          /\ new = [map |-> new.map, rank |-> new.rank]
      BY <1>2 DEF TmRemove
    <2>2. new \in TierMap
      BY <2>1 DEF TmOK, TierMap
    <2>3. \A j \in Keys : new.map[j] = IF j = k THEN NoEntry ELSE tm.map[j]
      BY <2>1 DEF TmOK, TierMap
    <2> HIDE DEF new
    <2>4. Present(new) = Present(tm) \ {k}
      BY <2>3 DEF Present
    <2>5. IsFiniteSet(Present(new))
      BY <2>4, FS_RemoveElement DEF TmOK
    <2>6. \A s \in Scores, j \in Keys :
            <<s, j>> \in new.rank <=> new.map[j] # NoEntry /\ new.map[j].score = s
      BY <2>1, <2>3 DEF TmOK
    <2>7. \A j \in Keys : new.map[j] # NoEntry => new.map[j].key = j
      BY <2>3 DEF TmOK
    <2> QED BY <2>1, <2>2, <2>4, <2>5, <2>6, <2>7 DEF TmOK, new
  <1> QED BY <1>1, <1>2

(* A set of index entries has a lowest one. *)
LEMMA LowestExists ==
    ASSUME NEW S \in SUBSET (Scores \X Keys), S # {}
    PROVE  \E r \in S : \A q \in S : r[1] <= q[1]
  <1> DEFINE T == {r[1] : r \in S}
             R == {p \in Nat \X Nat : p[1] < p[2]}
  <1>1. T \subseteq Nat /\ T # {}
    <2>1. \A r \in S : r[1] \in Nat
      BY CacheAssumption
    <2>2. PICK r \in S : TRUE
      OBVIOUS
    <2>3. r[1] \in T
      OBVIOUS
    <2> QED BY <2>1, <2>3
  <1>2. IsWellFoundedOn(R, Nat)
    BY NatLessThanWellFounded, Zenon DEF OpToRel
  <1>3. \A j, m \in Nat : <<j, m>> \notin R => m <= j
    OBVIOUS
  <1> HIDE DEF R
  <1>4. \E m \in T : \A j \in T : <<j, m>> \notin R
    <2> HIDE DEF T
    <2> QED BY <1>1, <1>2, WFMin
  <1>5. PICK m \in T : \A j \in T : m <= j
    BY <1>1, <1>3, <1>4
  <1>6. PICK r \in S : r[1] = m
    OBVIOUS
  <1> QED BY <1>5, <1>6

(* pop_lowest on a tier that holds something evicts one of its entries. *)
LEMMA PopLowestOK ==
    ASSUME NEW tm, TmOK(tm), Present(tm) # {}
    PROVE  LET p == PopLowest(tm)
           IN  /\ p.victim \in Entry
               /\ p.victim = tm.map[p.victim.key]
               /\ TmOK(p.tm)
               /\ Present(p.tm) = Present(tm) \ {p.victim.key}
               /\ p.tm.map = [tm.map EXCEPT ![p.victim.key] = NoEntry]
  <1> DEFINE L == LiveRanks(tm)
             low == LowestRank(tm)
             p == PopLowest(tm)
  <1>1. L # {} /\ L \in SUBSET (Scores \X Keys)
    <2>1. PICK k \in Keys : tm.map[k] # NoEntry
      BY DEF Present
    <2>2. tm.map[k] \in Entry
      BY <2>1 DEF TmOK, TierMap
    <2>3. <<tm.map[k].score, k>> \in tm.rank
      BY <2>1, <2>2, EntryFacts DEF TmOK
    <2> QED BY <2>1, <2>3 DEF LiveRanks, TmOK, TierMap
  <1>2. low \in L /\ \A q \in L : low[1] <= q[1]
    BY <1>1, LowestExists DEF LowestRank
  <1>3. /\ low \in tm.rank /\ low[2] \in Keys /\ low[1] \in Scores
        /\ low = <<low[1], low[2]>> /\ tm.map[low[2]] # NoEntry
    BY <1>1, <1>2 DEF LiveRanks
  <1> DEFINE k == low[2]
             v == tm.map[k]
  <1>4. v \in Entry /\ v.key = k /\ v.score = low[1]
    BY <1>3 DEF TmOK, TierMap
  <1>5. /\ p.victim = v
        /\ p.tm.map = [tm.map EXCEPT ![k] = NoEntry]
        /\ p.tm.rank = { r \in tm.rank : r[1] >= low[1] } \ {low}
        /\ p.tm = [map |-> p.tm.map, rank |-> p.tm.rank]
    BY <1>1 DEF PopLowest
  <1> HIDE DEF p, low, L
  <1>6. p.tm \in TierMap
    BY <1>3, <1>5 DEF TmOK, TierMap
  <1>7. \A j \in Keys : p.tm.map[j] = IF j = k THEN NoEntry ELSE tm.map[j]
    BY <1>3, <1>5 DEF TmOK, TierMap
  <1>8. Present(p.tm) = Present(tm) \ {k}
    BY <1>7 DEF Present
  <1>9. IsFiniteSet(Present(p.tm))
    BY <1>8, FS_RemoveElement DEF TmOK
  <1>10. \A s \in Scores, j \in Keys :
           <<s, j>> \in p.tm.rank <=> p.tm.map[j] # NoEntry /\ p.tm.map[j].score = s
    <2> SUFFICES ASSUME NEW s \in Scores, NEW j \in Keys
                 PROVE  <<s, j>> \in p.tm.rank
                          <=> p.tm.map[j] # NoEntry /\ p.tm.map[j].score = s
      OBVIOUS
    <2>1. <<s, j>> \in tm.rank <=> tm.map[j] # NoEntry /\ tm.map[j].score = s
      BY DEF TmOK
    <2>2. <<s, j>> \in tm.rank => s >= low[1]
      <3> SUFFICES ASSUME <<s, j>> \in tm.rank PROVE s >= low[1]
        OBVIOUS
      <3>1. <<s, j>> \in L
        BY <2>1 DEF L, LiveRanks
      <3>2. low[1] <= <<s, j>>[1]
        BY <3>1, <1>2
      <3> QED BY <3>2, <1>3, CacheAssumption
    <2>3. <<s, j>> = low <=> s = low[1] /\ j = k
      BY <1>3
    <2>4. j = k => (<<s, j>> \in tm.rank <=> s = low[1])
      BY <2>1, <1>3, <1>4
    <2> QED BY <2>1, <2>2, <2>3, <2>4, <1>5, <1>7
  <1>11. \A j \in Keys : p.tm.map[j] # NoEntry => p.tm.map[j].key = j
    BY <1>7 DEF TmOK
  <1>12. TmOK(p.tm)
    BY <1>6, <1>9, <1>10, <1>11 DEF TmOK
  <1> QED BY <1>4, <1>5, <1>8, <1>12 DEF p

(* insert files the entry and evicts at most one other, which it returns; a
   tier within its capacity stays within it. *)
LEMMA TmInsertOK ==
    ASSUME NEW tm, TmOK(tm), NEW capacity \in Nat, NEW e \in Entry
    PROVE  LET r == TmInsert(tm, capacity, e)
           IN  /\ TmOK(r.tm)
               /\ r.tm.map[e.key] = e
               /\ r.victim = NoEntry =>
                    \A k \in Keys : k # e.key => r.tm.map[k] = tm.map[k]
               /\ r.victim # NoEntry =>
                    /\ r.victim \in Entry
                    /\ r.victim.key # e.key
                    /\ r.victim = tm.map[r.victim.key]
                    /\ r.tm.map[r.victim.key] = NoEntry
                    /\ \A k \in Keys : k \notin {e.key, r.victim.key}
                                         => r.tm.map[k] = tm.map[k]
               /\ Fits(tm, capacity) => Fits(r.tm, capacity)
  <1> DEFINE r == TmInsert(tm, capacity, e)
             full == /\ capacity > 0
                     /\ tm.map[e.key] = NoEntry
                     /\ Cardinality(Present(tm)) >= capacity
             popped == IF full THEN PopLowest(tm) ELSE [tm |-> tm, victim |-> NoEntry]
             base == TmRemove(popped.tm, e.key)
  <1>1. e # NoEntry /\ e.key \in Keys /\ e.score \in Scores
    BY EntryFacts
  <1>2. /\ r.tm.map = [base.map EXCEPT ![e.key] = e]
        /\ r.tm.rank = base.rank \cup {<<e.score, e.key>>}
        /\ r.tm = [map |-> r.tm.map, rank |-> r.tm.rank]
        /\ r.victim = popped.victim
    BY DEF TmInsert
  <1>3. full => Present(tm) # {}
    BY FS_EmptySet
  <1>4. /\ TmOK(popped.tm)
        /\ popped.victim = NoEntry <=> ~full
        /\ ~full => popped.tm = tm
        /\ full => /\ popped.victim \in Entry
                   /\ popped.victim.key \in Keys
                   /\ popped.victim = tm.map[popped.victim.key]
                   /\ Present(popped.tm) = Present(tm) \ {popped.victim.key}
                   /\ popped.tm.map = [tm.map EXCEPT ![popped.victim.key] = NoEntry]
    <2>1. CASE full
      BY <2>1, <1>3, PopLowestOK, EntryFacts
    <2>2. CASE ~full
      BY <2>2
    <2> QED BY <2>1, <2>2
  <1>5. /\ TmOK(base)
        /\ Present(base) = Present(popped.tm) \ {e.key}
        /\ base.map = [popped.tm.map EXCEPT ![e.key] = NoEntry]
    BY <1>1, <1>4, TmRemoveOK
  <1> DEFINE v == popped.victim
  <1> HIDE DEF r, base, popped
  <1>6. r.tm \in TierMap
    BY <1>1, <1>2, <1>5 DEF TmOK, TierMap
  <1>7. \A k \in Keys : r.tm.map[k] = IF k = e.key THEN e ELSE base.map[k]
    BY <1>1, <1>2, <1>5 DEF TmOK, TierMap
  <1>8. base.map[e.key] = NoEntry
    BY <1>1, <1>4, <1>5 DEF TmOK, TierMap
  <1>9. TmOK(r.tm)
    <2>1. Present(r.tm) = Present(base) \cup {e.key}
      BY <1>1, <1>7 DEF Present
    <2>2. IsFiniteSet(Present(r.tm))
      BY <2>1, <1>5, FS_AddElement DEF TmOK
    <2>3. \A s \in Scores, k \in Keys :
            <<s, k>> \in r.tm.rank <=> r.tm.map[k] # NoEntry /\ r.tm.map[k].score = s
      <3> SUFFICES ASSUME NEW s \in Scores, NEW k \in Keys
                   PROVE  <<s, k>> \in r.tm.rank
                            <=> r.tm.map[k] # NoEntry /\ r.tm.map[k].score = s
        OBVIOUS
      <3>1. <<s, k>> \in base.rank <=> base.map[k] # NoEntry /\ base.map[k].score = s
        BY <1>5 DEF TmOK
      <3>2. <<s, k>> \in r.tm.rank
              <=> <<s, k>> \in base.rank \/ (s = e.score /\ k = e.key)
        BY <1>2
      <3>3. CASE k = e.key
        BY <3>1, <3>2, <3>3, <1>1, <1>7, <1>8
      <3>4. CASE k # e.key
        BY <3>1, <3>2, <3>4, <1>7
      <3> QED BY <3>3, <3>4
    <2>4. \A k \in Keys : r.tm.map[k] # NoEntry => r.tm.map[k].key = k
      BY <1>5, <1>7 DEF TmOK
    <2> QED BY <1>6, <2>2, <2>3, <2>4 DEF TmOK
  <1>10. r.tm.map[e.key] = e
    BY <1>1, <1>7
  <1>11. ~full => \A k \in Keys : k # e.key => r.tm.map[k] = tm.map[k]
    BY <1>4, <1>5, <1>7 DEF TmOK, TierMap
  <1>12. full => /\ v \in Entry /\ v.key \in Keys /\ v.key # e.key
                 /\ v = tm.map[v.key]
                 /\ r.tm.map[v.key] = NoEntry
                 /\ \A k \in Keys : k \notin {e.key, v.key} => r.tm.map[k] = tm.map[k]
    <2> SUFFICES ASSUME full
                 PROVE  /\ v \in Entry /\ v.key \in Keys /\ v.key # e.key
                        /\ v = tm.map[v.key]
                        /\ r.tm.map[v.key] = NoEntry
                        /\ \A k \in Keys : k \notin {e.key, v.key} => r.tm.map[k] = tm.map[k]
      OBVIOUS
    <2>1. v \in Entry /\ v.key \in Keys /\ v = tm.map[v.key] /\ v # NoEntry
      BY <1>4, EntryFacts
    <2>2. v.key # e.key
      BY <2>1
    <2>3. \A k \in Keys : popped.tm.map[k] = IF k = v.key THEN NoEntry ELSE tm.map[k]
      BY <1>4, <2>1 DEF TmOK, TierMap
    <2>4. \A k \in Keys : k # e.key => base.map[k] = popped.tm.map[k]
      BY <1>4, <1>5 DEF TmOK, TierMap
    <2> QED BY <2>1, <2>2, <2>3, <2>4, <1>7
  <1>13. Fits(tm, capacity) => Fits(r.tm, capacity)
    <2> SUFFICES ASSUME capacity > 0, Cardinality(Present(tm)) <= capacity
                 PROVE  Cardinality(Present(r.tm)) <= capacity
      BY DEF Fits
    <2>1. Cardinality(Present(tm)) \in Nat /\ IsFiniteSet(Present(tm))
      BY FS_CardinalityType DEF TmOK
    <2>2. CASE full
      <3>1. Present(r.tm) = (Present(tm) \ {v.key}) \cup {e.key}
        BY <2>2, <1>1, <1>10, <1>12 DEF Present
      <3>2. v.key \in Present(tm) /\ e.key \notin Present(tm)
        BY <2>2, <1>12, EntryFacts DEF Present
      <3> DEFINE P == Present(tm) \ {v.key}
      <3>3. IsFiniteSet(P) /\ Cardinality(P) = Cardinality(Present(tm)) - 1
        BY <2>1, <3>2, FS_RemoveElement
      <3>4. e.key \notin P
        BY <3>2
      <3> HIDE DEF P
      <3>5. Cardinality(P \cup {e.key}) = Cardinality(P) + 1
        BY <3>3, <3>4, FS_AddElement
      <3> QED BY <2>1, <3>1, <3>3, <3>5 DEF P
    <2>3. CASE ~full
      <3>1. Present(r.tm) = Present(tm) \cup {e.key}
        BY <2>3, <1>1, <1>10, <1>11 DEF Present
      <3>2. CASE e.key \in Present(tm)
        BY <3>1, <3>2, <2>1, FS_AddElement
      <3>3. CASE e.key \notin Present(tm)
        <4>1. tm.map[e.key] = NoEntry
          BY <3>3, <1>1 DEF Present
        <4>2. ~(Cardinality(Present(tm)) >= capacity)
          BY <2>3, <4>1
        <4>3. Cardinality(Present(tm) \cup {e.key}) = Cardinality(Present(tm)) + 1
          BY <3>3, <2>1, FS_AddElement
        <4> QED BY <3>1, <4>2, <4>3, <2>1
      <3> QED BY <3>2, <3>3
    <2> QED BY <2>2, <2>3
  <1> QED BY <1>2, <1>4, <1>9, <1>10, <1>11, <1>12, <1>13 DEF r

-----------------------------------------------------------------------------
(* Storing an entry whose key is in no tier. *)

(* One tier gets the entry; what it evicts is in no tier afterwards. *)
LEMMA InsertInto ==
    ASSUME NEW ts, TsOK(ts), NEW e \in Entry, Absent(ts, e.key), NEW t \in Tiers
    PROVE  LET r   == TmInsert(ts[t], Capacity[t], e)
               new == [ts EXCEPT ![t] = r.tm]
           IN  /\ TsOK(new)
               /\ AddsOnly(new, ts, e.key)
               /\ r.victim # NoEntry =>
                    r.victim \in Entry /\ Absent(new, r.victim.key)
                      /\ ~Absent(ts, r.victim.key) /\ r.victim.key # e.key
  <1> DEFINE r == TmInsert(ts[t], Capacity[t], e)
             new == [ts EXCEPT ![t] = r.tm]
  <1>1. e # NoEntry /\ e.key \in Keys /\ Capacity[t] \in Nat
    BY EntryFacts, CapacityFacts
  <1>2. TmOK(ts[t]) /\ Fits(ts[t], Capacity[t]) /\ ts[t].map[e.key] = NoEntry
    BY DEF TsOK, Absent
  <1>3. /\ TmOK(r.tm) /\ Fits(r.tm, Capacity[t])
        /\ r.tm.map[e.key] = e
        /\ r.victim = NoEntry =>
             \A k \in Keys : k # e.key => r.tm.map[k] = ts[t].map[k]
        /\ r.victim # NoEntry =>
             /\ r.victim \in Entry
             /\ r.victim.key # e.key
             /\ r.victim = ts[t].map[r.victim.key]
             /\ r.tm.map[r.victim.key] = NoEntry
             /\ \A k \in Keys : k \notin {e.key, r.victim.key}
                                  => r.tm.map[k] = ts[t].map[k]
    BY <1>1, <1>2, TmInsertOK
  <1>4. r.victim # NoEntry => r.victim.key \in Keys
    BY <1>3, EntryFacts
  <1> HIDE DEF r
  <1>5. new[t] = r.tm /\ \A u \in Tiers : u # t => new[u] = ts[u]
    BY DEF TsOK
  <1>6. new \in [Tiers -> TierMap]
    BY <1>3 DEF TsOK, TmOK
  <1> HIDE DEF new
  <1>7. \A k \in Keys : k # e.key /\ ts[t].map[k] = NoEntry => new[t].map[k] = NoEntry
    BY <1>3, <1>4, <1>5
  <1>8. Single(new)
    <2> SUFFICES ASSUME NEW k \in Keys, NEW u \in Tiers, NEW w \in Tiers,
                        new[u].map[k] # NoEntry, new[w].map[k] # NoEntry
                 PROVE  u = w
      BY DEF Single
    <2>1. CASE k = e.key
      BY <2>1, <1>5 DEF Absent
    <2>2. CASE k # e.key
      <3>1. ts[u].map[k] # NoEntry /\ ts[w].map[k] # NoEntry
        BY <2>2, <1>5, <1>7
      <3> QED BY <3>1 DEF TsOK, Single
    <2> QED BY <2>1, <2>2
  <1>9. TsOK(new)
    BY <1>3, <1>5, <1>6, <1>8 DEF TsOK
  <1>10. AddsOnly(new, ts, e.key)
    BY <1>5, <1>7 DEF AddsOnly, Absent
  <1>11. ASSUME r.victim # NoEntry
         PROVE  /\ Absent(new, r.victim.key) /\ ~Absent(ts, r.victim.key)
    <2>1. ts[t].map[r.victim.key] # NoEntry
      BY <1>3, <1>11
    <2>2. \A u \in Tiers : u # t => ts[u].map[r.victim.key] = NoEntry
      BY <2>1, <1>4, <1>11 DEF TsOK, Single
    <2> QED BY <2>1, <2>2, <1>3, <1>5, <1>11 DEF Absent
  <1> QED BY <1>3, <1>9, <1>10, <1>11 DEF r, new

(* A demotion: the victim goes one tier down or is dropped. *)
LEMMA SpillOK ==
    ASSUME NEW ts, TsOK(ts), NEW v \in Entry, Absent(ts, v.key), NEW t \in Tiers
    PROVE  TsOK(Spill(ts, v, t)) /\ AddsOnly(Spill(ts, v, t), ts, v.key)
  <1> DEFINE next == Below[t]
  <1>1. CASE next = "none" \/ Capacity[next] = 0
    BY <1>1 DEF Spill, AddsOnly
  <1>2. CASE ~(next = "none" \/ Capacity[next] = 0)
    <2>1. next \in Tiers
      BY <1>2 DEF Below, Tiers
    <2>2. Spill(ts, v, t) = [ts EXCEPT ![next] = TmInsert(ts[next], Capacity[next], v).tm]
      BY <1>2, <2>1 DEF Spill, TsOK
    <2> HIDE DEF next
    <2> DEFINE new == [ts EXCEPT ![next] = TmInsert(ts[next], Capacity[next], v).tm]
    <2>3. TsOK(new) /\ AddsOnly(new, ts, v.key)
      BY <2>1, InsertInto
    <2> HIDE DEF new
    <2> QED BY <2>2, <2>3 DEF new
  <1> QED BY <1>1, <1>2

LEMMA TierForType ==
    ASSUME NEW score \in Scores
    PROVE  TierFor(score) \in Tiers \cup {"none"}
  BY DEF TierFor, EarnedTier, Below, Tiers

(* place: the entry is stored at most once, and nothing else appears. *)
LEMMA PlaceOK ==
    ASSUME NEW ts, TsOK(ts), NEW e \in Entry, Absent(ts, e.key)
    PROVE  TsOK(Place(ts, e)) /\ AddsOnly(Place(ts, e), ts, e.key)
  <1> DEFINE t == TierFor(e.score)
             r == TmInsert(ts[t], Capacity[t], e)
             new == [ts EXCEPT ![t] = r.tm]
  <1>1. t \in Tiers \cup {"none"}
    BY EntryFacts, TierForType
  <1>2. CASE t = "none"
    BY <1>2 DEF Place, AddsOnly
  <1>3. CASE t # "none"
    <2>1. t \in Tiers
      BY <1>1, <1>3
    <2>2. Place(ts, e) = IF r.victim = NoEntry THEN new ELSE Spill(new, r.victim, t)
      BY <1>3 DEF Place
    <2> HIDE DEF t
    <2>3. /\ TsOK(new) /\ AddsOnly(new, ts, e.key)
          /\ r.victim # NoEntry =>
               r.victim \in Entry /\ Absent(new, r.victim.key)
                 /\ ~Absent(ts, r.victim.key) /\ r.victim.key # e.key
      BY <2>1, InsertInto
    <2> HIDE DEF r, new
    <2>4. CASE r.victim = NoEntry
      BY <2>2, <2>3, <2>4
    <2>5. CASE r.victim # NoEntry
      <3>1. TsOK(Spill(new, r.victim, t)) /\ AddsOnly(Spill(new, r.victim, t), new, r.victim.key)
        BY <2>1, <2>3, <2>5, SpillOK
      <3>2. AddsOnly(Spill(new, r.victim, t), ts, e.key)
        BY <3>1, <2>3, <2>5 DEF AddsOnly
      <3> QED BY <2>2, <2>5, <3>1, <3>2
    <2> QED BY <2>4, <2>5
  <1> QED BY <1>2, <1>3

LEMMA ParkOK ==
    ASSUME NEW ts, TsOK(ts), NEW e \in Entry, Absent(ts, e.key)
    PROVE  TsOK(Park(ts, e)) /\ AddsOnly(Park(ts, e), ts, e.key)
  <1>1. "cold" \in Tiers
    BY DEF Tiers
  <1>2. Park(ts, e) = [ts EXCEPT !["cold"] = TmInsert(ts["cold"], Capacity["cold"], e).tm]
    BY <1>1 DEF Park, TsOK
  <1> DEFINE new == [ts EXCEPT !["cold"] = TmInsert(ts["cold"], Capacity["cold"], e).tm]
  <1>3. TsOK(new) /\ AddsOnly(new, ts, e.key)
    BY <1>1, InsertInto
  <1> HIDE DEF new
  <1> QED BY <1>2, <1>3 DEF new

-----------------------------------------------------------------------------
(* Taking an entry out leaves its key in no tier. *)
LEMMA TakeOK ==
    ASSUME NEW ts, TsOK(ts), NEW t \in Tiers, NEW k \in Keys
    PROVE  /\ TsOK(Take(ts, t, k))
           /\ AddsOnly(Take(ts, t, k), ts, k)
           /\ Absent(ts, k) => Absent(Take(ts, t, k), k)
           /\ ts[t].map[k] # NoEntry =>
                /\ ts[t].map[k] \in Entry /\ ts[t].map[k].key = k
                /\ Absent(Take(ts, t, k), k)
  <1> DEFINE new == Take(ts, t, k)
             tm == TmRemove(ts[t], k)
  <1>1. TmOK(ts[t]) /\ Fits(ts[t], Capacity[t]) /\ Capacity[t] \in Nat
    BY CapacityFacts DEF TsOK
  <1>2. /\ TmOK(tm) /\ Present(tm) = Present(ts[t]) \ {k}
        /\ tm.map = [ts[t].map EXCEPT ![k] = NoEntry]
    BY <1>1, TmRemoveOK
  <1>3. \A j \in Keys : tm.map[j] = IF j = k THEN NoEntry ELSE ts[t].map[j]
    BY <1>1, <1>2 DEF TmOK, TierMap
  <1> HIDE DEF tm
  <1>4. new = [ts EXCEPT ![t] = tm]
    BY DEF Take, TsOK, tm
  <1>5. new[t] = tm /\ \A u \in Tiers : u # t => new[u] = ts[u]
    BY <1>4 DEF TsOK
  <1>6. new \in [Tiers -> TierMap]
    BY <1>2, <1>4 DEF TsOK, TmOK
  <1> HIDE DEF new
  <1>7. Fits(tm, Capacity[t])
    <2>1. Present(tm) \subseteq Present(ts[t]) /\ IsFiniteSet(Present(ts[t]))
      BY <1>1, <1>2 DEF TmOK
    <2>2. /\ Cardinality(Present(tm)) <= Cardinality(Present(ts[t]))
          /\ Cardinality(Present(tm)) \in Nat /\ Cardinality(Present(ts[t])) \in Nat
      BY <2>1, <1>2, FS_Subset, FS_CardinalityType DEF TmOK
    <2> QED BY <2>2, <1>1 DEF Fits
  <1>8. \A u \in Tiers, j \in Keys : ts[u].map[j] = NoEntry => new[u].map[j] = NoEntry
    BY <1>3, <1>5
  <1>9. Single(new)
    BY <1>8 DEF TsOK, Single
  <1>10. TsOK(new)
    BY <1>2, <1>5, <1>6, <1>7, <1>9 DEF TsOK
  <1>11. AddsOnly(new, ts, k) /\ (Absent(ts, k) => Absent(new, k))
    BY <1>8 DEF AddsOnly, Absent
  <1>12. ASSUME ts[t].map[k] # NoEntry
         PROVE  /\ ts[t].map[k] \in Entry /\ ts[t].map[k].key = k
                /\ Absent(new, k)
    <2>1. ts[t].map[k] \in Entry /\ ts[t].map[k].key = k
      BY <1>1, <1>12 DEF TmOK, TierMap
    <2>2. \A u \in Tiers : u # t => ts[u].map[k] = NoEntry
      BY <1>12 DEF TsOK, Single
    <2> QED BY <2>1, <2>2, <1>3, <1>5 DEF Absent
  <1> QED BY <1>10, <1>11, <1>12 DEF new

LEMMA TakeAnyOK ==
    ASSUME NEW ts, TsOK(ts), NEW k \in Keys
    PROVE  /\ TsOK(TakeAny(ts, k))
           /\ AddsOnly(TakeAny(ts, k), ts, k)
           /\ Absent(TakeAny(ts, k), k)
           /\ Found(ts, k) # NoEntry => Found(ts, k) \in Entry /\ Found(ts, k).key = k
  <1>1. CASE FirstTier(ts, k) = "none"
    <2>1. Absent(ts, k)
      BY <1>1 DEF FirstTier, Absent, Tiers
    <2> QED BY <1>1, <2>1 DEF TakeAny, AddsOnly, Found
  <1>2. CASE FirstTier(ts, k) # "none"
    <2> DEFINE t == FirstTier(ts, k)
    <2>1. t \in Tiers /\ ts[t].map[k] # NoEntry
      BY <1>2 DEF FirstTier, Tiers
    <2>2. TakeAny(ts, k) = Take(ts, t, k) /\ Found(ts, k) = ts[t].map[k]
      BY <1>2 DEF TakeAny, Found
    <2> HIDE DEF t
    <2> QED BY <2>1, <2>2, TakeOK
  <1> QED BY <1>1, <1>2

(* Taking an entry out of tier t and putting one of its key back. *)
LEMMA MoveOK ==
    ASSUME NEW ts, TsOK(ts), NEW t \in Tiers, NEW k \in Keys, ts[t].map[k] # NoEntry,
           NEW e \in Entry, e.key = k
    PROVE  /\ TsOK(Place(Take(ts, t, k), e))
           /\ TsOK(Park(Take(ts, t, k), e))
           /\ TsOK(Take(ts, t, k))
  BY TakeOK, PlaceOK, ParkOK

(* Replacing whatever is cached for a key. *)
LEMMA ReplaceOK ==
    ASSUME NEW ts, TsOK(ts), NEW e \in Entry
    PROVE  TsOK(Place(TakeAny(ts, e.key), e))
  BY TakeAnyOK, PlaceOK, EntryFacts

(* Dropping a set of keys from a tier. *)
LEMMA DropOK ==
    ASSUME NEW tm, TmOK(tm), NEW dead, dead \subseteq Present(tm), NEW capacity \in Nat,
           Fits(tm, capacity)
    PROVE  LET new == [map  |-> [k \in Keys |-> IF k \in dead THEN NoEntry ELSE tm.map[k]],
                       rank |-> tm.rank \ { <<tm.map[k].score, k>> : k \in dead }]
           IN  TmOK(new) /\ Fits(new, capacity)
  <1> DEFINE new == [map  |-> [k \in Keys |-> IF k \in dead THEN NoEntry ELSE tm.map[k]],
                     rank |-> tm.rank \ { <<tm.map[k].score, k>> : k \in dead }]
  <1>1. new \in TierMap
    BY DEF TmOK, TierMap
  <1>2. \A k \in Keys : new.map[k] = IF k \in dead THEN NoEntry ELSE tm.map[k]
    OBVIOUS
  <1>3. dead \subseteq Keys
    BY DEF Present
  <1>4. \A s \in Scores, k \in Keys :
          <<s, k>> \in new.rank <=> new.map[k] # NoEntry /\ new.map[k].score = s
    <2> SUFFICES ASSUME NEW s \in Scores, NEW k \in Keys
                 PROVE  <<s, k>> \in new.rank
                          <=> new.map[k] # NoEntry /\ new.map[k].score = s
      OBVIOUS
    <2>1. <<s, k>> \in tm.rank <=> tm.map[k] # NoEntry /\ tm.map[k].score = s
      BY DEF TmOK
    <2>2. <<s, k>> \in { <<tm.map[j].score, j>> : j \in dead }
            <=> k \in dead /\ tm.map[k].score = s
      BY <1>3
    <2> QED BY <2>1, <2>2, <1>2
  <1>5. Present(new) \subseteq Present(tm) /\ IsFiniteSet(Present(tm))
    BY <1>2 DEF Present, TmOK
  <1>6. /\ IsFiniteSet(Present(new))
        /\ Cardinality(Present(new)) <= Cardinality(Present(tm))
        /\ Cardinality(Present(new)) \in Nat /\ Cardinality(Present(tm)) \in Nat
    BY <1>5, FS_Subset, FS_CardinalityType
  <1>7. \A k \in Keys : new.map[k] # NoEntry => new.map[k].key = k
    BY <1>2 DEF TmOK
  <1> HIDE DEF new
  <1>8. Fits(new, capacity)
    BY <1>6 DEF Fits
  <1> QED BY <1>1, <1>4, <1>6, <1>7, <1>8 DEF TmOK, new

-----------------------------------------------------------------------------
(* The inductive invariant: the tiers are in order, a lookup has only keys and
   tiers left to visit, and a restart has only keys left to restore that are
   not cached yet, which holds because a snapshot never names a key twice. *)
UniqueKeys(S) == S \subseteq Entry /\ \A e, f \in S : e.key = f.key => e = f

NxOK(f) == DOMAIN f \subseteq Names /\ \A n \in DOMAIN f : f[n] \in Nat

Walks == [phase : {"idle", "exact", "cname", "nx"}, key : Keys \cup {<<>>},
          todo : Seq(Keys \X Tiers)]

WalkInv(w) ==
    /\ w \in Walks
    /\ w.phase # "idle" => w.key \in Keys
    /\ w.phase = "cname" => w.key[2] \notin {"CNAME", "ANY"}

CInv ==
    /\ TsOK(tiers)
    /\ NxOK(nx) /\ NxOK(disk.nx)
    /\ now \in Nat
    /\ WalkInv(walk)
    /\ walk.phase # "idle" => loading = {}
    /\ UniqueKeys(disk.entries)
    /\ UniqueKeys(loading)
    /\ \A e \in loading : Absent(tiers, e.key)

LEMMA EmptyTiersOK == TsOK([t \in Tiers |-> EmptyTier])
  <1>1. Present(EmptyTier) = {}
    BY DEF Present, EmptyTier
  <1>2. EmptyTier \in TierMap
    BY DEF EmptyTier, TierMap
  <1>3. TmOK(EmptyTier)
    BY <1>1, <1>2, FS_EmptySet DEF TmOK, EmptyTier
  <1>4. \A t \in Tiers : Fits(EmptyTier, Capacity[t])
    BY <1>1, FS_EmptySet, CapacityFacts DEF Fits
  <1>5. Single([t \in Tiers |-> EmptyTier])
    BY DEF Single, EmptyTier
  <1> QED BY <1>2, <1>3, <1>4, <1>5 DEF TsOK

LEMMA NoWalkOK == WalkInv(NoWalk) /\ NoWalk.phase = "idle"
  <1>1. <<>> \in Seq(Keys \X Tiers)
    OBVIOUS
  <1> QED BY <1>1 DEF WalkInv, Walks, NoWalk

LEMMA CacheInit == Init => CInv
  <1> SUFFICES ASSUME Init PROVE CInv
    OBVIOUS
  <1>1. TsOK(tiers)
    BY EmptyTiersOK DEF Init
  <1>2. NxOK(<<>>)
    BY DEF NxOK
  <1> QED BY <1>1, <1>2, NoWalkOK DEF Init, CInv, Nothing, UniqueKeys

(* The walk of a lookup stays among the keys: partitions are closed under
   truncation. *)
LEMMA VisitsType ==
    ASSUME NEW k \in Keys
    PROVE  Visits(k) \in Seq(Keys \X Tiers)
  <1>1. /\ k[1] \in Names /\ k[2] \in Types /\ k[3] \in Partitions
        /\ k[3] \in Seq({0, 1}) /\ Len(k[3]) \in Nat
    BY CacheAssumption DEF Keys
  <1> DEFINE n == 3 * (Len(k[3]) + 1)
  <1>2. n \in Nat
    BY <1>1
  <1>3. ASSUME NEW i \in 1 .. n
        PROVE  <<WithScope(k, Len(k[3]) - ((i - 1) \div 3)),
                 TierOrder[((i - 1) % 3) + 1]>> \in Keys \X Tiers
    <2>1. Len(k[3]) - ((i - 1) \div 3) \in 0 .. Len(k[3])
      <3> DEFINE L == Len(k[3])
                 q == (i - 1) \div 3
      <3>1. L \in Nat /\ i \in 1 .. 3 * (L + 1)
        BY <1>1
      <3>2. q \in Int /\ 3 * q <= i - 1 /\ i - 1 < 3 * q + 3
        BY <3>1
      <3> HIDE DEF L, q
      <3>3. L - q \in 0 .. L
        BY <3>1, <3>2
      <3> QED BY <3>3 DEF L, q
    <2>2. ((i - 1) % 3) + 1 \in 1 .. 3
      OBVIOUS
    <2>3. TierOrder[((i - 1) % 3) + 1] \in Tiers
      BY <2>2 DEF TierOrder, Tiers
    <2>4. SubSeq(k[3], 1, Len(k[3]) - ((i - 1) \div 3)) \in Partitions
      BY <2>1, <1>1, CacheAssumption
    <2> QED BY <1>1, <2>3, <2>4 DEF WithScope, Keys
  <1>4. Visits(k) \in [1 .. n -> Keys \X Tiers]
    BY <1>3 DEF Visits
  <1> HIDE DEF n
  <1> QED BY <1>2, <1>4, SeqDef

(* The visit a lookup takes next, and what lies beyond it. *)
LEMMA RestFacts ==
    ASSUME NEW todo \in Seq(Keys \X Tiers), Hits(todo) # {}
    PROVE  /\ FirstHit(todo) \in 1 .. Len(todo) /\ Len(todo) \in Nat
           /\ tiers[todo[FirstHit(todo)][2]].map[todo[FirstHit(todo)][1]] # NoEntry
           /\ \A j \in Hits(todo) : FirstHit(todo) <= j
           /\ Rest(todo) \in Seq(Keys \X Tiers)
           /\ Len(Rest(todo)) = Len(todo) - FirstHit(todo)
           /\ \A i \in 1 .. Len(Rest(todo)) : Rest(todo)[i] = todo[FirstHit(todo) + i]
  <1> DEFINE H == Hits(todo)
             R == {p \in Nat \X Nat : p[1] < p[2]}
             f == FirstHit(todo)
  <1>1. H \subseteq Nat
    BY DEF Hits
  <1>2. IsWellFoundedOn(R, Nat)
    BY NatLessThanWellFounded, Zenon DEF OpToRel
  <1>3. \A j, m \in Nat : <<j, m>> \notin R => m <= j
    OBVIOUS
  <1> HIDE DEF R, H
  <1>4. \E m \in H : \A j \in H : <<j, m>> \notin R
    BY <1>1, <1>2, WFMin DEF H
  <1>5. \E m \in H : \A j \in H : m <= j
    BY <1>1, <1>3, <1>4
  <1>6. f \in H /\ \A j \in H : f <= j
    BY <1>5 DEF FirstHit, H
  <1>7. f \in 1 .. Len(todo) /\ Len(todo) \in Nat /\ tiers[todo[f][2]].map[todo[f][1]] # NoEntry
    BY <1>6 DEF H, Hits
  <1> HIDE DEF f
  <1>8. Rest(todo) = SubSeq(todo, f + 1, Len(todo))
    BY DEF Rest, f
  <1>9. /\ Rest(todo) \in Seq(Keys \X Tiers)
        /\ Len(Rest(todo)) = Len(todo) - f
        /\ \A i \in 1 .. Len(Rest(todo)) : Rest(todo)[i] = todo[f + i]
    <2>1. f + 1 \in 1 .. Len(todo) + 1
      BY <1>7
    <2> QED BY <1>7, <1>8, <2>1, SubSeqProperties
  <1> QED BY <1>6, <1>7, <1>9 DEF H, f

(* It finds an entry. *)
LEMMA HitFacts ==
    ASSUME NEW todo \in Seq(Keys \X Tiers), Hits(todo) # {}
    PROVE  LET v == todo[FirstHit(todo)]
           IN  /\ v[1] \in Keys /\ v[2] \in Tiers /\ v = <<v[1], v[2]>>
               /\ tiers[v[2]].map[v[1]] # NoEntry
               /\ Rest(todo) \in Seq(Keys \X Tiers)
  <1>1. /\ FirstHit(todo) \in 1 .. Len(todo) /\ Rest(todo) \in Seq(Keys \X Tiers)
        /\ tiers[todo[FirstHit(todo)][2]].map[todo[FirstHit(todo)][1]] # NoEntry
    BY RestFacts
  <1>2. todo[FirstHit(todo)] \in Keys \X Tiers
    BY <1>1
  <1>3. \A p \in Keys \X Tiers : p = <<p[1], p[2]>> /\ p[1] \in Keys /\ p[2] \in Tiers
    OBVIOUS
  <1> QED BY <1>1, <1>2, <1>3, Zenon

LEMMA NatProduct == \A a, b \in Nat : a * b \in Nat
  OBVIOUS

(* What a walk step leaves alone. *)
LEMMA WalkStep ==
    ASSUME CInv, walk.phase # "idle", TsOK(tiers'), UNCHANGED <<nx, now, disk, loading>>,
           WalkInv(walk')
    PROVE  CInv'
  BY DEF CInv, UniqueKeys

LEMMA ReturnOK == ASSUME NEW kind, NEW hit, Return(kind, hit) PROVE WalkInv(walk')
  BY NoWalkOK DEF Return

LEMMA ContinueOK ==
    ASSUME WalkInv(walk), Hits(walk.todo) # {}, Continue PROVE WalkInv(walk')
  <1>1. walk \in Walks /\ walk.todo \in Seq(Keys \X Tiers)
    BY DEF WalkInv, Walks
  <1>2. Rest(walk.todo) \in Seq(Keys \X Tiers)
    BY <1>1, HitFacts
  <1>3. walk' = [walk EXCEPT !.todo = Rest(walk.todo)]
    BY <1>1 DEF Continue, Walks
  <1> QED BY <1>1, <1>2, <1>3 DEF WalkInv, Walks

(* A visit finds an entry of a tier, filed under its key. *)
LEMMA VisitFacts ==
    ASSUME CInv, Hits(walk.todo) # {}
    PROVE  LET k == walk.todo[FirstHit(walk.todo)][1]
               t == walk.todo[FirstHit(walk.todo)][2]
           IN  /\ TsOK(Take(tiers, t, k))
               /\ \A sc \in Scores :
                    TsOK(Place(Take(tiers, t, k), [tiers[t].map[k] EXCEPT !.score = sc]))
               /\ TsOK(Place(Take(tiers, t, k), tiers[t].map[k]))
               /\ TsOK(Park(Take(tiers, t, k), tiers[t].map[k]))
  <1> DEFINE k == walk.todo[FirstHit(walk.todo)][1]
             t == walk.todo[FirstHit(walk.todo)][2]
             e == tiers[t].map[k]
  <1>1. walk.todo \in Seq(Keys \X Tiers) /\ TsOK(tiers)
    BY DEF CInv, WalkInv, Walks
  <1>2. k \in Keys /\ t \in Tiers /\ e # NoEntry
    BY <1>1, HitFacts
  <1> HIDE DEF k, t
  <1>3. e \in Entry /\ e.key = k
    BY <1>1, <1>2, TakeOK
  <1>4. TsOK(Take(tiers, t, k)) /\ TsOK(Place(Take(tiers, t, k), e))
          /\ TsOK(Park(Take(tiers, t, k), e))
    BY <1>1, <1>2, <1>3, MoveOK
  <1>5. ASSUME NEW sc \in Scores
        PROVE  TsOK(Place(Take(tiers, t, k), [e EXCEPT !.score = sc]))
    <2> DEFINE f == [e EXCEPT !.score = sc]
    <2>1. f \in Entry /\ f.key = k
      BY <1>3 DEF Entry
    <2> HIDE DEF f
    <2>2. TsOK(Place(Take(tiers, t, k), f))
      BY <1>1, <1>2, <2>1, MoveOK
    <2> QED BY <2>2 DEF f
  <1> QED BY <1>4, <1>5 DEF k, t

LEMMA ExactVisitInv == ASSUME CInv, ExactVisit PROVE CInv'
  <1>1. walk.phase # "idle" /\ Hits(walk.todo) # {} /\ UNCHANGED <<nx, now, disk, loading>>
    BY DEF ExactVisit
  <1>2. TsOK(tiers')
    BY <1>1, VisitFacts DEF ExactVisit
  <1>3. WalkInv(walk')
    <2>1. Continue \/ \E kind, hit : Return(kind, hit)
      BY DEF ExactVisit
    <2> QED BY <2>1, <1>1, ReturnOK, ContinueOK DEF CInv
  <1> QED BY <1>1, <1>2, <1>3, WalkStep

LEMMA CnameVisitInv == ASSUME CInv, CnameVisit PROVE CInv'
  <1>1. walk.phase # "idle" /\ Hits(walk.todo) # {} /\ UNCHANGED <<nx, now, disk, loading>>
    BY DEF CnameVisit
  <1>2. TsOK(tiers')
    BY <1>1, VisitFacts DEF CnameVisit
  <1>3. WalkInv(walk')
    <2>1. Continue \/ \E kind, hit : Return(kind, hit)
      BY DEF CnameVisit
    <2> QED BY <2>1, <1>1, ReturnOK, ContinueOK DEF CInv
  <1> QED BY <1>1, <1>2, <1>3, WalkStep

LEMMA TryCnameInv == ASSUME CInv, TryCname PROVE CInv'
  <1>1. walk.phase # "idle" /\ UNCHANGED <<tiers, nx, now, disk, loading>>
    BY DEF TryCname
  <1>2. walk \in Walks /\ walk.key \in Keys
    BY <1>1 DEF CInv, WalkInv
  <1>3. Visits(WithType(walk.key, "CNAME")) \in Seq(Keys \X Tiers)
    <2>1. WithType(walk.key, "CNAME") \in Keys
      BY <1>2, CacheAssumption DEF WithType, Keys
    <2> QED BY <2>1, VisitsType
  <1>4. WalkInv(walk')
    <2>1. CASE walk.key[2] \in {"CNAME", "ANY"}
      <3>1. walk' = [walk EXCEPT !.phase = "nx", !.todo = <<>>]
        BY <2>1 DEF TryCname
      <3>2. <<>> \in Seq(Keys \X Tiers)
        OBVIOUS
      <3> QED BY <1>2, <3>1, <3>2 DEF WalkInv, Walks
    <2>2. CASE walk.key[2] \notin {"CNAME", "ANY"}
      <3>1. walk' = [walk EXCEPT !.phase = "cname",
                                 !.todo = Visits(WithType(walk.key, "CNAME"))]
        BY <2>2 DEF TryCname
      <3> QED BY <1>2, <1>3, <2>2, <3>1 DEF WalkInv, Walks
    <2> QED BY <2>1, <2>2
  <1>5. TsOK(tiers')
    BY <1>1 DEF CInv
  <1> QED BY <1>1, <1>4, <1>5, WalkStep

LEMMA TryNxInv == ASSUME CInv, TryNx PROVE CInv'
  <1>1. walk.phase # "idle" /\ UNCHANGED <<tiers, nx, now, disk, loading>>
    BY DEF TryNx
  <1>2. WalkInv(walk')
    BY ReturnOK DEF TryNx
  <1>3. TsOK(tiers')
    BY <1>1 DEF CInv
  <1> QED BY <1>1, <1>2, <1>3, WalkStep

LEMMA LookupInv == ASSUME CInv, NEW k \in Asked, Lookup(k) PROVE CInv'
  <1>1. k \in Keys
    BY CacheAssumption DEF Keys
  <1>2. WalkInv(walk')
    BY <1>1, VisitsType DEF Lookup, WalkInv, Walks
  <1>3. loading' = {} /\ UNCHANGED <<tiers, nx, now, disk, loading>>
    BY DEF Lookup, Idle
  <1> QED BY <1>2, <1>3 DEF CInv, UniqueKeys

-----------------------------------------------------------------------------
(* The operations that run between lookups. *)

(* What such an operation has to show. *)
LEMMA BetweenStep ==
    ASSUME CInv, Between, TsOK(tiers'), NxOK(nx'), now' \in Nat, NxOK(disk'.nx),
           UniqueKeys(disk'.entries)
    PROVE  CInv'
  BY DEF CInv, Between, Idle, UniqueKeys

(* An expiry is a time. *)
LEMMA ExpiryType ==
    ASSUME CInv, NEW ttl \in Ttls, NEW limit \in Nat
    PROVE  now + Least(ttl, limit) * Second \in Nat
  <1>1. Least(ttl, limit) \in Nat /\ now \in Nat /\ Second \in Nat
    BY CacheAssumption DEF Least, CInv
  <1>2. Least(ttl, limit) * Second \in Nat
    BY <1>1, NatProduct
  <1> QED BY <1>1, <1>2

LEMMA InsertPositiveInv ==
    ASSUME CInv, NEW k \in Asked, NEW d \in Data, NEW ttl \in Ttls, NEW v \in Verdicts,
           NEW sc \in Scores, InsertPositive(k, d, ttl, v, sc)
    PROVE  CInv'
  <1> DEFINE old == Found(tiers, k)
             same == old # NoEntry /\ old.data = d
             life == now + Least(ttl, MaxTtlCap) * Second
             good == v \/ (same /\ old.validated)
             e == [key |-> k, data |-> d, expires |-> life, validated |-> good, score |-> sc]
  <1>1. k \in Keys /\ v \in BOOLEAN /\ TsOK(tiers)
    BY CacheAssumption DEF Keys, CInv
  <1>2. life \in Nat
    BY ExpiryType, CacheAssumption
  <1>3. good \in BOOLEAN
    OBVIOUS
  <1>4. tiers' = Place(TakeAny(tiers, k), e)
    BY DEF InsertPositive
  <1> HIDE DEF life, good
  <1>5. e \in Entry /\ e.key = k
    BY <1>1, <1>2, <1>3 DEF Entry
  <1> HIDE DEF e
  <1>6. TsOK(tiers')
    BY <1>1, <1>4, <1>5, ReplaceOK
  <1>7. Between /\ UNCHANGED <<nx, now, disk>>
    BY DEF InsertPositive
  <1> QED BY <1>6, <1>7, BetweenStep DEF CInv

LEMMA InsertNegativeInv ==
    ASSUME CInv, NEW k \in Asked, NEW ttl \in Ttls, NEW sc \in Scores,
           InsertNegative(k, ttl, sc)
    PROVE  CInv'
  <1> DEFINE old == Found(tiers, k)
             life == now + Least(ttl, NegativeTtlCap) * Second
             good == old # NoEntry /\ old.validated
             e == [key |-> k, data |-> Negative, expires |-> life, validated |-> good,
                   score |-> sc]
  <1>1. k \in Keys /\ TsOK(tiers)
    BY CacheAssumption DEF Keys, CInv
  <1>2. life \in Nat
    BY ExpiryType, CacheAssumption
  <1>3. good \in BOOLEAN
    OBVIOUS
  <1>4. tiers' = Place(TakeAny(tiers, k), e)
    BY DEF InsertNegative
  <1> HIDE DEF life, good
  <1>5. e \in Entry /\ e.key = k
    BY <1>1, <1>2, <1>3 DEF Entry
  <1> HIDE DEF e
  <1>6. TsOK(tiers')
    BY <1>1, <1>4, <1>5, ReplaceOK
  <1>7. Between /\ UNCHANGED <<nx, now, disk>>
    BY DEF InsertNegative
  <1> QED BY <1>6, <1>7, BetweenStep DEF CInv

LEMMA InsertNxdomainInv ==
    ASSUME CInv, NEW n \in NxNames, NEW ttl \in Ttls, InsertNxdomain(n, ttl)
    PROVE  CInv'
  <1> DEFINE life == now + Least(ttl, NegativeTtlCap) * Second
  <1>1. life \in Nat /\ n \in Names
    BY ExpiryType, CacheAssumption
  <1>2. NxOK(nx)
    BY DEF CInv
  <1>3. NxOK(NxRoom)
    BY <1>2 DEF NxRoom, NxOK
  <1>4. nx' = IF n \in DOMAIN nx THEN [nx EXCEPT ![n] = Greatest(nx[n], life)]
              ELSE [m \in DOMAIN NxRoom \cup {n} |-> IF m = n THEN life ELSE NxRoom[m]]
    BY DEF InsertNxdomain
  <1> HIDE DEF life
  <1>5. NxOK(nx')
    <2>1. CASE n \in DOMAIN nx
      <3>1. Greatest(nx[n], life) \in Nat
        BY <1>1, <1>2, <2>1 DEF NxOK, Greatest
      <3> QED BY <1>2, <1>4, <2>1, <3>1 DEF NxOK
    <2>2. CASE n \notin DOMAIN nx
      BY <1>1, <1>3, <1>4, <2>2 DEF NxOK
    <2> QED BY <2>1, <2>2
  <1>6. Between /\ UNCHANGED <<tiers, now, disk>>
    BY DEF InsertNxdomain
  <1> QED BY <1>5, <1>6, BetweenStep DEF CInv

LEMMA RescoreInv ==
    ASSUME CInv, NEW k \in Asked, NEW sc \in Scores, Rescore(k, sc)
    PROVE  CInv'
  <1> DEFINE e == [Found(tiers, k) EXCEPT !.score = sc]
  <1>1. k \in Keys /\ TsOK(tiers)
    BY CacheAssumption DEF Keys, CInv
  <1>2. /\ Found(tiers, k) # NoEntry /\ tiers' = Place(TakeAny(tiers, k), e)
        /\ Between /\ UNCHANGED <<nx, now, disk>>
    BY DEF Rescore
  <1>3. Found(tiers, k) \in Entry /\ Found(tiers, k).key = k
    BY <1>1, <1>2, TakeAnyOK
  <1>4. e \in Entry /\ e.key = k
    BY <1>3 DEF Entry
  <1> HIDE DEF e
  <1>5. TsOK(tiers')
    BY <1>1, <1>2, <1>4, ReplaceOK
  <1> QED BY <1>2, <1>5, BetweenStep DEF CInv

LEMMA SweepInv == ASSUME CInv, Sweep PROVE CInv'
  <1> DEFINE dead(t) == { k \in Present(tiers[t]) :
                            tiers[t].map[k].expires + StaleWindow * Second < now }
             swept(t) ==
               [map  |-> [k \in Keys |-> IF k \in dead(t) THEN NoEntry ELSE tiers[t].map[k]],
                rank |-> tiers[t].rank \ { <<tiers[t].map[k].score, k>> : k \in dead(t) }]
  <1>1. /\ Between /\ UNCHANGED <<now, disk>> /\ tiers' = [t \in Tiers |-> swept(t)]
        /\ nx' = [n \in { m \in DOMAIN nx : nx[m] > now } |-> nx[n]]
    BY DEF Sweep
  <1>2. TsOK(tiers) /\ NxOK(nx')
    BY <1>1 DEF CInv, NxOK
  <1>3. ASSUME NEW t \in Tiers PROVE TmOK(swept(t)) /\ Fits(swept(t), Capacity[t])
    <2>1. TmOK(tiers[t]) /\ Fits(tiers[t], Capacity[t]) /\ Capacity[t] \in Nat
      BY <1>2, CapacityFacts DEF TsOK
    <2>2. dead(t) \subseteq Present(tiers[t])
      OBVIOUS
    <2> HIDE DEF dead
    <2> QED BY <2>1, <2>2, DropOK
  <1>4. ASSUME NEW t \in Tiers, NEW k \in Keys, tiers[t].map[k] = NoEntry
        PROVE  swept(t).map[k] = NoEntry
    BY <1>4
  <1> HIDE DEF swept
  <1>5. Single(tiers')
    BY <1>1, <1>2, <1>4 DEF TsOK, Single
  <1>6. TsOK(tiers')
    BY <1>1, <1>3, <1>5 DEF TsOK, TmOK
  <1> QED BY <1>1, <1>2, <1>6, BetweenStep DEF CInv

LEMMA TickInv == ASSUME CInv, Tick PROVE CInv'
  <1>1. now' \in Nat /\ Between /\ UNCHANGED <<tiers, nx, disk>>
    BY DEF Tick, CInv
  <1> QED BY <1>1, BetweenStep DEF CInv

-----------------------------------------------------------------------------
(* The persistent tier. *)

LEMMA UnixTimes == \A t \in Nat : ToUnix(t) \in Nat /\ FromUnix(t) \in Nat
  <1>1. Second \in Nat \ {0}
    BY CacheAssumption
  <1> QED BY <1>1, NatProduct DEF ToUnix, FromUnix

LEMMA DtoOK ==
    ASSUME NEW e \in Entry
    PROVE  /\ ToDto(e) \in Entry /\ ToDto(e).key = e.key
           /\ FromDto(e) \in Entry /\ FromDto(e).key = e.key
  <1>1. e.expires \in Nat
    BY DEF Entry
  <1>2. ToUnix(e.expires) \in Nat /\ FromUnix(e.expires) \in Nat
    BY <1>1, UnixTimes
  <1> QED BY <1>2 DEF Entry, ToDto, FromDto

(* A snapshot names a key once, since a key is in one tier. *)
LEMMA SaveCacheInv == ASSUME CInv, SaveCache PROVE CInv'
  <1>1. Between /\ UNCHANGED <<tiers, nx, now>>
    BY DEF SaveCache
  <1>2. /\ disk'.entries = UNION { { ToDto(tiers[t].map[k]) : k \in Present(tiers[t]) } :
                                     t \in Tiers }
        /\ disk'.nx = [n \in DOMAIN nx |-> ToUnix(nx[n])]
    BY DEF SaveCache
  <1>3. NxOK(disk'.nx)
    BY <1>2, UnixTimes DEF CInv, NxOK
  <1>4. ASSUME NEW d \in disk'.entries
        PROVE  /\ d \in Entry /\ d.key \in Keys
               /\ \E t \in Tiers : tiers[t].map[d.key] # NoEntry /\ d = ToDto(tiers[t].map[d.key])
    <2>1. PICK t \in Tiers, k \in Keys :
            tiers[t].map[k] # NoEntry /\ d = ToDto(tiers[t].map[k])
      BY <1>2, <1>4 DEF Present
    <2>2. tiers[t].map[k] \in Entry /\ tiers[t].map[k].key = k
      BY <2>1, TakeOK DEF CInv
    <2>3. d \in Entry /\ d.key = k
      BY <2>1, <2>2, DtoOK
    <2> QED BY <2>1, <2>3
  <1>5. UniqueKeys(disk'.entries)
    <2> SUFFICES ASSUME NEW d \in disk'.entries, NEW f \in disk'.entries, d.key = f.key
                 PROVE  d = f
      BY <1>4 DEF UniqueKeys
    <2>1. PICK t \in Tiers : tiers[t].map[d.key] # NoEntry /\ d = ToDto(tiers[t].map[d.key])
      BY <1>4
    <2>2. PICK u \in Tiers : tiers[u].map[f.key] # NoEntry /\ f = ToDto(tiers[u].map[f.key])
      BY <1>4
    <2>3. t = u
      BY <1>4, <2>1, <2>2 DEF CInv, TsOK, Single
    <2> QED BY <2>1, <2>2, <2>3
  <1> QED BY <1>1, <1>3, <1>5, BetweenStep DEF CInv

LEMMA RestartInv == ASSUME CInv, Restart PROVE CInv'
  <1>1. /\ tiers' = [t \in Tiers |-> EmptyTier] /\ walk' = NoWalk
        /\ loading' = { FromDto(d) : d \in disk.entries }
        /\ nx' = [n \in { m \in DOMAIN disk.nx : Servable(FromUnix(disk.nx[m])) }
                    |-> FromUnix(disk.nx[n])]
        /\ UNCHANGED <<now, disk>>
    BY DEF Restart
  <1>2. TsOK(tiers')
    BY <1>1, EmptyTiersOK
  <1>3. NxOK(nx')
    BY <1>1, UnixTimes DEF CInv, NxOK
  <1>4. \A d \in disk.entries : FromDto(d) \in Entry /\ FromDto(d).key = d.key
    BY DtoOK DEF CInv, UniqueKeys
  <1>5. UniqueKeys(loading')
    BY <1>1, <1>4 DEF CInv, UniqueKeys
  <1>6. \A e \in loading' : Absent(tiers', e.key)
    <2>1. \A e \in loading' : e.key \in Keys
      BY <1>5, EntryFacts DEF UniqueKeys
    <2> QED BY <1>1, <2>1 DEF Absent, EmptyTier
  <1> QED BY <1>1, <1>2, <1>3, <1>5, <1>6, NoWalkOK DEF CInv

(* Restoring an entry adds its key alone, so the rest stay to be restored. *)
LEMMA RestoreEntryInv == ASSUME CInv, RestoreEntry PROVE CInv'
  <1>1. PICK e \in loading :
          /\ loading' = loading \ {e}
          /\ tiers' \in {tiers, Park(tiers, e), Place(tiers, e)}
          /\ UNCHANGED <<nx, now, walk, answer, disk>>
    BY DEF RestoreEntry
  <1>2. e \in Entry /\ Absent(tiers, e.key) /\ TsOK(tiers)
    BY DEF CInv, UniqueKeys
  <1>3. TsOK(tiers') /\ AddsOnly(tiers', tiers, e.key)
    <2>1. AddsOnly(tiers, tiers, e.key)
      BY DEF AddsOnly
    <2> QED BY <1>1, <1>2, <2>1, ParkOK, PlaceOK
  <1>4. UniqueKeys(loading')
    BY <1>1 DEF CInv, UniqueKeys
  <1>5. \A f \in loading' : Absent(tiers', f.key)
    <2> SUFFICES ASSUME NEW f \in loading' PROVE Absent(tiers', f.key)
      OBVIOUS
    <2>1. f \in loading /\ f # e /\ f.key # e.key /\ f.key \in Keys
      BY <1>1, <1>4, EntryFacts DEF CInv, UniqueKeys
    <2> QED BY <1>3, <2>1 DEF CInv, AddsOnly
  <1>6. walk.phase = "idle"
    BY DEF CInv
  <1> QED BY <1>1, <1>3, <1>4, <1>5, <1>6 DEF CInv

-----------------------------------------------------------------------------
LEMMA CacheStep == CInv /\ [Next]_vars => CInv'
  <1> SUFFICES ASSUME CInv, [Next]_vars PROVE CInv'
    OBVIOUS
  <1>1. CASE UNCHANGED vars
    BY <1>1 DEF CInv, vars
  <1>2. CASE Next
    <2>1. CASE \E k \in Asked : Lookup(k)
      BY <2>1, LookupInv
    <2>2. CASE \E k \in Asked, ttl \in Ttls, sc \in Scores :
                 \/ \E d \in Data, v \in Verdicts : InsertPositive(k, d, ttl, v, sc)
                 \/ InsertNegative(k, ttl, sc)
      BY <2>2, InsertPositiveInv, InsertNegativeInv
    <2>3. CASE \E n \in NxNames, ttl \in Ttls : InsertNxdomain(n, ttl)
      BY <2>3, InsertNxdomainInv
    <2>4. CASE \E k \in Asked, sc \in Scores : Rescore(k, sc)
      BY <2>4, RescoreInv
    <2>5. CASE ExactVisit \/ TryCname \/ CnameVisit \/ TryNx
      BY <2>5, ExactVisitInv, TryCnameInv, CnameVisitInv, TryNxInv
    <2>6. CASE Sweep \/ Tick \/ SaveCache \/ Restart \/ RestoreEntry
      BY <2>6, SweepInv, TickInv, SaveCacheInv, RestartInv, RestoreEntryInv
    <2> QED BY <1>2, <2>1, <2>2, <2>3, <2>4, <2>5, <2>6 DEF Next
  <1> QED BY <1>1, <1>2

(* The inductive invariant holds in every reachable state. *)
THEOREM CacheInductive == Spec => []CInv
  BY CacheInit, CacheStep, PTL DEF Spec

(* Every variable has its type, and a question for a CNAME or ANY is never
   redirected by a cached CNAME. *)
THEOREM CacheTypeCorrect == Spec => []TypeOK
  <1>1. CInv => TypeOK
    <2> SUFFICES ASSUME CInv PROVE TypeOK
      OBVIOUS
    <2>1. walk.todo \in Seq(Keys \X Tiers)
      BY DEF CInv, WalkInv, Walks
    <2>2. \A i \in 1 .. Len(walk.todo) : walk.todo[i] \in Keys \X Tiers
      BY <2>1
    <2>3. WalkOK
      BY <2>2 DEF WalkOK, CInv, WalkInv, Walks
    <2> QED BY <2>3 DEF TypeOK, CInv, TsOK, NxOK, UniqueKeys
  <1> QED BY <1>1, CacheInductive, PTL

(* The score index and the map of a tier never drift apart, so eviction finds
   the lowest entry and never an entry that is gone. *)
THEOREM RankNeverDrifts == Spec => []RankExact
  <1>1. CInv => RankExact
    <2> SUFFICES ASSUME CInv, NEW t \in Tiers
                 PROVE  /\ tiers[t].rank =
                             { <<tiers[t].map[k].score, k>> : k \in Present(tiers[t]) }
                        /\ \A k \in Present(tiers[t]) : tiers[t].map[k].key = k
      BY DEF RankExact
    <2>1. TmOK(tiers[t]) /\ tiers[t].rank \subseteq Scores \X Keys
      BY DEF CInv, TsOK, TmOK, TierMap
    <2>2. \A k \in Present(tiers[t]) : k \in Keys /\ tiers[t].map[k] \in Entry
      BY <2>1 DEF TmOK, TierMap, Present
    <2> DEFINE R == { <<tiers[t].map[k].score, k>> : k \in Present(tiers[t]) }
    <2>3. ASSUME NEW r \in tiers[t].rank PROVE r \in R
      <3>1. PICK s \in Scores, k \in Keys : r = <<s, k>>
        BY <2>1
      <3>2. tiers[t].map[k] # NoEntry /\ tiers[t].map[k].score = s
        BY <3>1, <2>1 DEF TmOK
      <3> QED BY <3>1, <3>2 DEF Present
    <2>4. ASSUME NEW r \in R PROVE r \in tiers[t].rank
      <3>1. PICK k \in Present(tiers[t]) : r = <<tiers[t].map[k].score, k>>
        OBVIOUS
      <3>2. k \in Keys /\ tiers[t].map[k].score \in Scores /\ tiers[t].map[k] # NoEntry
        BY <2>2, EntryFacts DEF Present
      <3> QED BY <3>1, <3>2, <2>1 DEF TmOK
    <2>5. \A k \in Present(tiers[t]) : tiers[t].map[k].key = k
      BY <2>1 DEF TmOK, Present
    <2> QED BY <2>3, <2>4, <2>5
  <1> QED BY <1>1, CacheInductive, PTL

(* No tier with a capacity outgrows it, through placement, demotion, parking
   and restart. *)
THEOREM CapacityHolds == Spec => []CapacityBound
  <1>1. CInv => CapacityBound
    BY DEF CInv, TsOK, Fits, CapacityBound
  <1> QED BY <1>1, CacheInductive, PTL

(* Index and capacity together: through every operation a tier's eviction has
   the right entry to take and takes it before the tier overflows. *)
THEOREM TiersStaySound == Spec => []TiersSound
  <1>1. RankExact /\ CapacityBound => TiersSound
    BY DEF TiersSound
  <1> QED BY <1>1, RankNeverDrifts, CapacityHolds, PTL

(* A key is in one tier at a time, so the answer last stored for a question is
   the only one that can be served for it. *)
THEOREM OneCopy == Spec => []OneTierPerKey
  <1>1. CInv => OneTierPerKey
    BY DEF CInv, TsOK, Single, UniqueKeys, Absent, OneTierPerKey
  <1> QED BY <1>1, CacheInductive, PTL

-----------------------------------------------------------------------------
(* The NXDOMAIN store. *)

(* evict_for_capacity removes something from a table that holds something. *)
LEMMA EvictsSome ==
    ASSUME NEW dom, NEW stamp, \A k \in dom : stamp[k] \in Nat, dom # {},
           NEW horizon, NEW stride
    PROVE  \E k \in dom : k \in EvictForCapacity(dom, stamp, horizon, stride)
  <1> DEFINE T == {stamp[k] : k \in dom}
             R == {p \in Nat \X Nat : p[1] < p[2]}
             s == IF stride < 2 THEN 2 ELSE stride
  <1>1. T \subseteq Nat /\ T # {}
    <2>1. PICK k \in dom : TRUE
      OBVIOUS
    <2> QED BY <2>1
  <1>2. IsWellFoundedOn(R, Nat)
    BY NatLessThanWellFounded, Zenon DEF OpToRel
  <1>3. \A j, m \in Nat : <<j, m>> \notin R => m <= j
    OBVIOUS
  <1>4. \E m \in T : \A j \in T : <<j, m>> \notin R
    <2> HIDE DEF T, R
    <2> QED BY <1>1, <1>2, WFMin
  <1>5. PICK m \in T : \A j \in T : m <= j
    <2> HIDE DEF R
    <2> QED BY <1>1, <1>3, <1>4
  <1>6. \E k \in dom : \A j \in dom : stamp[k] <= stamp[j]
    BY <1>5
  <1>7. OldestKey(dom, stamp) \in dom
    BY <1>6 DEF OldestKey
  <1>8. /\ ExpiredKeys(dom, stamp, horizon) \subseteq dom
        /\ StridedKeys(dom, s) \subseteq dom
    BY DEF ExpiredKeys, StridedKeys
  <1>9. EvictForCapacity(dom, stamp, horizon, stride) =
          IF ExpiredKeys(dom, stamp, horizon) # {} THEN ExpiredKeys(dom, stamp, horizon)
          ELSE IF StridedKeys(dom, s) # {} THEN StridedKeys(dom, s)
          ELSE {OldestKey(dom, stamp)}
    BY DEF EvictForCapacity
  <1> HIDE DEF s
  <1> QED BY <1>7, <1>8, <1>9

NxMax == Greatest(NxCapacity, 1)

NxFits(f) == IsFiniteSet(DOMAIN f) /\ Cardinality(DOMAIN f) <= NxMax

NxInv == NxFits(nx) /\ NxFits(disk.nx)

LEMMA NxMaxFacts == NxMax \in Nat \ {0} /\ NxCapacity \in Nat /\ NxMax >= NxCapacity
                      /\ (NxCapacity > 0 => NxMax = NxCapacity)
  BY CacheAssumption DEF NxMax, Greatest

LEMMA FewerNames ==
    ASSUME NEW f, NxFits(f), NEW g, DOMAIN g \subseteq DOMAIN f
    PROVE  NxFits(g)
  <1>1. /\ IsFiniteSet(DOMAIN g) /\ Cardinality(DOMAIN g) <= Cardinality(DOMAIN f)
        /\ Cardinality(DOMAIN g) \in Nat /\ Cardinality(DOMAIN f) \in Nat
    BY FS_Subset, FS_CardinalityType DEF NxFits
  <1> QED BY <1>1, NxMaxFacts DEF NxFits

(* Once room is made, one more name fits. *)
LEMMA RoomForOne ==
    ASSUME CInv, NxFits(nx)
    PROVE  IsFiniteSet(DOMAIN NxRoom) /\ Cardinality(DOMAIN NxRoom) < NxMax
  <1> DEFINE D == DOMAIN nx
             gone == EvictForCapacity(D, nx, now, EvictStride)
  <1>1. IsFiniteSet(D) /\ Cardinality(D) \in Nat /\ Cardinality(D) <= NxMax
    BY FS_CardinalityType DEF NxFits
  <1>2. CASE Cardinality(D) < NxCapacity
    BY <1>1, <1>2, NxMaxFacts DEF NxRoom
  <1>3. CASE ~(Cardinality(D) < NxCapacity)
    <2>1. DOMAIN NxRoom = D \ gone
      BY <1>3 DEF NxRoom
    <2>2. CASE D = {}
      <3>1. DOMAIN NxRoom = {}
        BY <2>1, <2>2
      <3> QED BY <3>1, FS_EmptySet, NxMaxFacts
    <2>3. CASE D # {}
      <3>1. PICK k \in D : k \in gone
        BY <2>3, EvictsSome DEF CInv, NxOK
      <3> HIDE DEF gone
      <3>2. D \ gone \subseteq D \ {k}
        BY <3>1
      <3>3. IsFiniteSet(D \ {k}) /\ Cardinality(D \ {k}) = Cardinality(D) - 1
        BY <1>1, <3>1, FS_RemoveElement
      <3>4. /\ IsFiniteSet(D \ gone) /\ Cardinality(D \ gone) \in Nat
            /\ Cardinality(D \ gone) <= Cardinality(D \ {k})
        BY <3>2, <3>3, FS_Subset, FS_CardinalityType
      <3> QED BY <2>1, <1>1, <3>3, <3>4, NxMaxFacts
    <2> QED BY <2>2, <2>3
  <1> QED BY <1>2, <1>3

LEMMA NxStep == CInv /\ NxInv /\ [Next]_vars => NxInv'
  <1> SUFFICES ASSUME CInv, NxInv, [Next]_vars PROVE NxInv'
    OBVIOUS
  <1>1. CASE UNCHANGED <<nx, disk>>
    BY <1>1 DEF NxInv
  <1>2. ASSUME NEW n \in NxNames, NEW ttl \in Ttls, InsertNxdomain(n, ttl)
        PROVE  NxInv'
    <2>1. disk' = disk
      BY <1>2 DEF InsertNxdomain
    <2>2. CASE n \in DOMAIN nx
      <3>1. DOMAIN nx' = DOMAIN nx
        BY <1>2, <2>2 DEF InsertNxdomain
      <3> QED BY <2>1, <3>1 DEF NxInv, NxFits
    <2>3. CASE n \notin DOMAIN nx
      <3>1. DOMAIN nx' = DOMAIN NxRoom \cup {n}
        BY <1>2, <2>3 DEF InsertNxdomain
      <3>2. /\ IsFiniteSet(DOMAIN nx')
            /\ Cardinality(DOMAIN nx') \in {Cardinality(DOMAIN NxRoom),
                                           Cardinality(DOMAIN NxRoom) + 1}
        BY <3>1, RoomForOne, FS_AddElement DEF NxInv
      <3>3. Cardinality(DOMAIN nx') <= NxMax
        BY <3>2, RoomForOne, FS_CardinalityType, NxMaxFacts DEF NxInv
      <3> QED BY <2>1, <3>2, <3>3 DEF NxInv, NxFits
    <2> QED BY <2>2, <2>3
  <1>3. CASE Sweep
    <2>1. DOMAIN nx' \subseteq DOMAIN nx /\ disk' = disk
      BY <1>3 DEF Sweep
    <2> QED BY <2>1, FewerNames DEF NxInv
  <1>4. CASE SaveCache
    <2>1. DOMAIN disk'.nx \subseteq DOMAIN nx /\ nx' = nx
      BY <1>4 DEF SaveCache
    <2> QED BY <2>1, FewerNames DEF NxInv
  <1>5. CASE Restart
    <2>1. DOMAIN nx' \subseteq DOMAIN disk.nx /\ disk' = disk
      BY <1>5 DEF Restart
    <2> QED BY <2>1, FewerNames DEF NxInv
  <1>6. CASE ExactVisit \/ TryCname \/ CnameVisit \/ TryNx \/ Tick \/ RestoreEntry
    BY <1>1, <1>6 DEF ExactVisit, TryCname, CnameVisit, TryNx, Tick, RestoreEntry
  <1>7. CASE \/ \E k \in Asked : Lookup(k)
             \/ \E k \in Asked, ttl \in Ttls, sc \in Scores :
                  \/ \E d \in Data, v \in Verdicts : InsertPositive(k, d, ttl, v, sc)
                  \/ InsertNegative(k, ttl, sc)
             \/ \E k \in Asked, sc \in Scores : Rescore(k, sc)
    BY <1>1, <1>7 DEF Lookup, InsertPositive, InsertNegative, Rescore
  <1> QED BY <1>1, <1>2, <1>3, <1>4, <1>5, <1>6, <1>7 DEF Next, vars

(* The NXDOMAIN store never holds more names than its capacity, one if that is
   0: making room always evicts, and a snapshot is no larger than the store. *)
THEOREM NxStoreBounded == Spec => []NxBounded
  <1>1. Init => NxInv
    <2>1. NxFits(<<>>)
      BY FS_EmptySet, NxMaxFacts DEF NxFits
    <2> QED BY <2>1 DEF Init, Nothing, NxInv
  <1>2. NxInv => NxBounded
    BY DEF NxInv, NxFits, NxMax, NxBounded
  <1> QED BY <1>1, <1>2, NxStep, CacheInductive, PTL DEF Spec

-----------------------------------------------------------------------------
(* Where entries go: what an operation leaves in the tiers was there before, in
   the same tier or in the one above, or is the entry it stores. *)

Falls(new, old, e) ==
    \A t \in Tiers, k \in Keys : new[t].map[k] # NoEntry =>
        \/ new[t].map[k] = e
        \/ new[t].map[k] = old[t].map[k]
        \/ \E u \in Tiers : Below[u] = t /\ new[t].map[k] = old[u].map[k]

(* One tier gets the entry; the others and what stays are as before. *)
LEMMA InsertStays ==
    ASSUME NEW ts, TsOK(ts), NEW e \in Entry, NEW t \in Tiers
    PROVE  LET r   == TmInsert(ts[t], Capacity[t], e)
               new == [ts EXCEPT ![t] = r.tm]
           IN  /\ \A u \in Tiers, k \in Keys : new[u].map[k] # NoEntry =>
                    new[u].map[k] = e \/ new[u].map[k] = ts[u].map[k]
               /\ r.victim # NoEntry =>
                    r.victim \in Entry /\ r.victim = ts[t].map[r.victim.key]
  <1> DEFINE r == TmInsert(ts[t], Capacity[t], e)
             new == [ts EXCEPT ![t] = r.tm]
  <1>1. TmOK(ts[t]) /\ Capacity[t] \in Nat
    BY CapacityFacts DEF TsOK
  <1>2. /\ r.tm.map[e.key] = e
        /\ r.victim = NoEntry =>
             \A k \in Keys : k # e.key => r.tm.map[k] = ts[t].map[k]
        /\ r.victim # NoEntry =>
             /\ r.victim \in Entry
             /\ r.victim = ts[t].map[r.victim.key]
             /\ r.tm.map[r.victim.key] = NoEntry
             /\ \A k \in Keys : k \notin {e.key, r.victim.key}
                                  => r.tm.map[k] = ts[t].map[k]
    BY <1>1, TmInsertOK
  <1> HIDE DEF r
  <1>3. new[t] = r.tm /\ \A u \in Tiers : u # t => new[u] = ts[u]
    BY DEF TsOK
  <1> HIDE DEF new
  <1>4. \A k \in Keys : r.tm.map[k] # NoEntry =>
          r.tm.map[k] = e \/ r.tm.map[k] = ts[t].map[k]
    BY <1>2
  <1>5. \A u \in Tiers, k \in Keys : new[u].map[k] # NoEntry =>
          new[u].map[k] = e \/ new[u].map[k] = ts[u].map[k]
    BY <1>3, <1>4
  <1> QED BY <1>2, <1>5 DEF r, new

LEMMA PlaceFalls ==
    ASSUME NEW ts, TsOK(ts), NEW e \in Entry, Absent(ts, e.key)
    PROVE  Falls(Place(ts, e), ts, e)
  <1> DEFINE t == TierFor(e.score)
             r == TmInsert(ts[t], Capacity[t], e)
             new == [ts EXCEPT ![t] = r.tm]
  <1>1. t \in Tiers \cup {"none"} /\ TsOK(Place(ts, e))
    BY EntryFacts, TierForType, PlaceOK
  <1>2. CASE t = "none"
    BY <1>2 DEF Place, Falls
  <1>3. CASE t # "none"
    <2>1. t \in Tiers
      BY <1>1, <1>3
    <2>2. Place(ts, e) = IF r.victim = NoEntry THEN new ELSE Spill(new, r.victim, t)
      BY <1>3 DEF Place
    <2> HIDE DEF t
    <2>3. /\ \A u \in Tiers, k \in Keys : new[u].map[k] # NoEntry =>
               new[u].map[k] = e \/ new[u].map[k] = ts[u].map[k]
          /\ r.victim # NoEntry =>
               r.victim \in Entry /\ r.victim = ts[t].map[r.victim.key]
      BY <2>1, InsertStays
    <2>6. TsOK(new)
      BY <2>1, InsertInto
    <2> HIDE DEF r, new
    <2>4. CASE r.victim = NoEntry
      BY <2>2, <2>3, <2>4 DEF Falls
    <2>5. CASE r.victim # NoEntry
      <3> DEFINE next == Below[t]
                 v == r.victim
                 low == [new EXCEPT ![next] = TmInsert(new[next], Capacity[next], v).tm]
      <3>1. CASE next = "none" \/ Capacity[next] = 0
        BY <2>2, <2>3, <2>5, <3>1 DEF Falls, Spill
      <3>2. CASE ~(next = "none" \/ Capacity[next] = 0)
        <4>1. next \in Tiers
          BY <2>1, <3>2 DEF Below, Tiers
        <4>2. Place(ts, e) = low
          BY <2>2, <2>5, <2>6, <3>2, <4>1 DEF Spill, TsOK
        <4>3. Below[t] = next
          OBVIOUS
        <4> HIDE DEF next
        <4>4. v \in Entry /\ v = ts[t].map[v.key]
          BY <2>3, <2>5
        <4> HIDE DEF v
        <4>5. \A u \in Tiers, k \in Keys : low[u].map[k] # NoEntry =>
                 low[u].map[k] = v \/ low[u].map[k] = new[u].map[k]
          BY <2>6, <4>1, <4>4, InsertStays
        <4>6. \A u \in Tiers : u # next => low[u] = new[u]
          BY <2>6, <4>1 DEF TsOK
        <4>7. \A u \in Tiers, k \in Keys : low[u].map[k] # NoEntry => low[u].map[k].key = k
          BY <1>1, <4>2 DEF TsOK, TmOK
        <4> HIDE DEF low
        <4> SUFFICES ASSUME NEW u \in Tiers, NEW k \in Keys, low[u].map[k] # NoEntry
                     PROVE  \/ low[u].map[k] = e
                            \/ low[u].map[k] = ts[u].map[k]
                            \/ \E w \in Tiers : Below[w] = u /\ low[u].map[k] = ts[w].map[k]
          BY <4>2 DEF Falls
        <4>8. CASE low[u].map[k] = new[u].map[k]
          BY <2>3, <4>8
        <4>9. CASE low[u].map[k] # new[u].map[k]
          <5>1. u = next /\ low[u].map[k] = v
            BY <4>5, <4>6, <4>9
          <5>2. v.key = k
            BY <4>7, <5>1
          <5> QED BY <2>1, <4>3, <4>4, <5>1, <5>2
        <4> QED BY <4>8, <4>9
      <3> QED BY <3>1, <3>2
    <2> QED BY <2>4, <2>5
  <1> QED BY <1>2, <1>3

LEMMA ParkFalls ==
    ASSUME NEW ts, TsOK(ts), NEW e \in Entry
    PROVE  Falls(Park(ts, e), ts, e)
  <1>1. "cold" \in Tiers
    BY DEF Tiers
  <1>2. Park(ts, e) = [ts EXCEPT !["cold"] = TmInsert(ts["cold"], Capacity["cold"], e).tm]
    BY <1>1 DEF Park, TsOK
  <1> DEFINE new == [ts EXCEPT !["cold"] = TmInsert(ts["cold"], Capacity["cold"], e).tm]
  <1>3. \A u \in Tiers, k \in Keys : new[u].map[k] # NoEntry =>
          new[u].map[k] = e \/ new[u].map[k] = ts[u].map[k]
    BY <1>1, InsertStays
  <1> HIDE DEF new
  <1>4. Falls(new, ts, e)
    BY <1>3 DEF Falls
  <1> QED BY <1>2, <1>4 DEF new

LEMMA TakeStays ==
    ASSUME NEW ts, TsOK(ts), NEW t \in Tiers, NEW k \in Keys
    PROVE  /\ Take(ts, t, k)[t].map[k] = NoEntry
           /\ \A u \in Tiers, j \in Keys : Take(ts, t, k)[u].map[j] # NoEntry =>
                Take(ts, t, k)[u].map[j] = ts[u].map[j]
  <1> DEFINE new == Take(ts, t, k)
             tm == TmRemove(ts[t], k)
  <1>1. TmOK(ts[t])
    BY DEF TsOK
  <1>2. tm.map = [ts[t].map EXCEPT ![k] = NoEntry]
    BY <1>1, TmRemoveOK
  <1>3. \A j \in Keys : tm.map[j] = IF j = k THEN NoEntry ELSE ts[t].map[j]
    BY <1>1, <1>2 DEF TmOK, TierMap
  <1> HIDE DEF tm
  <1>4. new = [ts EXCEPT ![t] = tm]
    BY DEF Take, TsOK, tm
  <1>5. new[t] = tm /\ \A u \in Tiers : u # t => new[u] = ts[u]
    BY <1>4 DEF TsOK
  <1> HIDE DEF new
  <1> QED BY <1>3, <1>5 DEF new

(* Moving an entry, with a new score perhaps. *)
LEMMA MoveFalls ==
    ASSUME NEW ts, TsOK(ts), NEW t \in Tiers, NEW k \in Keys, ts[t].map[k] # NoEntry,
           NEW e \in Entry, e.key = k
    PROVE  Falls(Place(Take(ts, t, k), e), ts, e) /\ Falls(Park(Take(ts, t, k), e), ts, e)
  <1> DEFINE mid == Take(ts, t, k)
  <1>1. TsOK(mid) /\ Absent(mid, k)
    BY TakeOK
  <1>2. \A u \in Tiers, j \in Keys : mid[u].map[j] # NoEntry => mid[u].map[j] = ts[u].map[j]
    BY TakeStays
  <1> HIDE DEF mid
  <1>3. Falls(Place(mid, e), mid, e) /\ Falls(Park(mid, e), mid, e)
    BY <1>1, PlaceFalls, ParkFalls
  <1>4. \A new : Falls(new, mid, e) => Falls(new, ts, e)
    BY <1>2 DEF Falls
  <1> QED BY <1>3, <1>4 DEF mid

(* Replacing whatever is cached for a key. *)
LEMMA ReplaceFalls ==
    ASSUME NEW ts, TsOK(ts), NEW e \in Entry
    PROVE  Falls(Place(TakeAny(ts, e.key), e), ts, e)
  <1> DEFINE mid == TakeAny(ts, e.key)
  <1>1. e.key \in Keys /\ TsOK(mid) /\ Absent(mid, e.key)
    BY EntryFacts, TakeAnyOK
  <1>2. \A u \in Tiers, j \in Keys : mid[u].map[j] # NoEntry => mid[u].map[j] = ts[u].map[j]
    <2>1. CASE FirstTier(ts, e.key) = "none"
      BY <2>1 DEF TakeAny
    <2>2. CASE FirstTier(ts, e.key) # "none"
      <3> DEFINE t == FirstTier(ts, e.key)
      <3>1. t \in Tiers
        BY <2>2 DEF FirstTier, Tiers
      <3>2. mid = Take(ts, t, e.key)
        BY <2>2 DEF TakeAny
      <3> HIDE DEF t, mid
      <3> QED BY <1>1, <3>1, <3>2, TakeStays
    <2> QED BY <2>1, <2>2
  <1> HIDE DEF mid
  <1>3. Falls(Place(mid, e), mid, e)
    BY <1>1, PlaceFalls
  <1>4. \A new : Falls(new, mid, e) => Falls(new, ts, e)
    BY <1>2 DEF Falls
  <1> QED BY <1>3, <1>4 DEF mid

-----------------------------------------------------------------------------
(* Lifetimes.  What is in the tiers, in the NXDOMAIN store, on its way back from
   a snapshot or in the snapshot itself never has more to live than its cap. *)

Limit(e) == Second * (IF e.data = Negative THEN NegativeTtlCap ELSE MaxTtlCap)

Capped(e, time) == e.expires <= time + Limit(e)

TiersCapped(ts, time) ==
    \A t \in Tiers, k \in Keys : ts[t].map[k] # NoEntry => Capped(ts[t].map[k], time)

NxLimit == Second * NegativeTtlCap

NxCapped(f, time) == \A n \in DOMAIN f : f[n] <= time + NxLimit

LifeInv ==
    /\ TiersCapped(tiers, now)
    /\ NxCapped(nx, now)
    /\ \A e \in loading : Capped(e, now)
    /\ \A d \in disk.entries : Capped(FromDto(d), now)
    /\ \A n \in DOMAIN disk.nx : FromUnix(disk.nx[n]) <= now + NxLimit

LEMMA LimitTypes == NxLimit \in Nat /\ \A e : Limit(e) \in Nat
  <1>1. Second \in Nat /\ NegativeTtlCap \in Nat /\ MaxTtlCap \in Nat
    BY CacheAssumption
  <1> QED BY <1>1, NatProduct DEF NxLimit, Limit

(* An expiry read back from a snapshot is the one written, or earlier. *)
LEMMA RoundsDown == \A t \in Nat : FromUnix(ToUnix(t)) \in Nat /\ FromUnix(ToUnix(t)) <= t
  <1> SUFFICES ASSUME NEW t \in Nat
               PROVE  FromUnix(ToUnix(t)) \in Nat /\ FromUnix(ToUnix(t)) <= t
    OBVIOUS
  <1>1. Second \in Nat /\ Second > 0
    BY CacheAssumption
  <1>2. (t \div Second) * Second <= t /\ t \div Second \in Nat
    BY <1>1
  <1>3. (t \div Second) * Second \in Nat
    BY <1>1, <1>2, NatProduct
  <1> QED BY <1>2, <1>3 DEF FromUnix, ToUnix

(* A cap on the TTL caps the lifetime. *)
LEMMA ClippedLife ==
    ASSUME NEW ttl \in Nat, NEW limit \in Nat
    PROVE  Least(ttl, limit) * Second <= Second * limit
  <1>1. Least(ttl, limit) \in Nat /\ Least(ttl, limit) <= limit /\ Second \in Nat
    BY CacheAssumption DEF Least
  <1>2. \A a, b, c \in Nat : a <= b => a * c <= c * b
    OBVIOUS
  <1> QED BY <1>1, <1>2

LEMMA FallsCapped ==
    ASSUME NEW new, NEW old, NEW e, NEW time, Falls(new, old, e), Capped(e, time),
           TiersCapped(old, time)
    PROVE  TiersCapped(new, time)
  BY DEF Falls, TiersCapped

LEMMA TakeCapped ==
    ASSUME NEW ts, TsOK(ts), NEW t \in Tiers, NEW k \in Keys, NEW time, TiersCapped(ts, time)
    PROVE  TiersCapped(Take(ts, t, k), time)
  <1> DEFINE new == Take(ts, t, k)
  <1>1. \A u \in Tiers, j \in Keys : new[u].map[j] # NoEntry => new[u].map[j] = ts[u].map[j]
    BY TakeStays
  <1> HIDE DEF new
  <1>2. TiersCapped(new, time)
    BY <1>1 DEF TiersCapped
  <1> QED BY <1>2 DEF new

LEMMA CappedForLonger ==
    ASSUME NEW a \in Nat, NEW b \in Nat, a <= b
    PROVE  /\ \A e \in Entry : Capped(e, a) => Capped(e, b)
           /\ \A n \in Nat : n <= a + NxLimit => n <= b + NxLimit
  <1>1. NxLimit \in Nat /\ \A e \in Entry : Limit(e) \in Nat /\ e.expires \in Nat
    BY LimitTypes DEF Entry
  <1> QED BY <1>1 DEF Capped

LEMMA DtoCapped ==
    ASSUME NEW e \in Entry, NEW time \in Nat, Capped(e, time)
    PROVE  Capped(FromDto(ToDto(e)), time)
  <1> DEFINE f == FromDto(ToDto(e))
  <1>1. e.expires \in Nat
    BY DEF Entry
  <1>2. f.data = e.data /\ f.expires = FromUnix(ToUnix(e.expires))
    BY DEF FromDto, ToDto, Entry
  <1>3. f.expires <= e.expires /\ f.expires \in Nat
    BY <1>1, <1>2, RoundsDown
  <1>4. Limit(f) = Limit(e) /\ Limit(e) \in Nat
    BY <1>2, LimitTypes DEF Limit
  <1> HIDE DEF f
  <1>5. Capped(f, time)
    BY <1>1, <1>3, <1>4 DEF Capped
  <1> QED BY <1>5 DEF f

(* Steps that leave everything but the tiers alone. *)
LEMMA LifeStep ==
    ASSUME LifeInv, TiersCapped(tiers', now), UNCHANGED <<nx, now, disk>>,
           loading' \subseteq loading
    PROVE  LifeInv'
  BY DEF LifeInv, NxCapped

(* A visit of a lookup moves an entry or drops it. *)
LEMMA VisitCapped ==
    ASSUME CInv, LifeInv, Hits(walk.todo) # {}
    PROVE  LET k == walk.todo[FirstHit(walk.todo)][1]
               t == walk.todo[FirstHit(walk.todo)][2]
           IN  /\ TiersCapped(Take(tiers, t, k), now)
               /\ \A sc \in Scores :
                    TiersCapped(Place(Take(tiers, t, k), [tiers[t].map[k] EXCEPT !.score = sc]), now)
               /\ TiersCapped(Place(Take(tiers, t, k), tiers[t].map[k]), now)
               /\ TiersCapped(Park(Take(tiers, t, k), tiers[t].map[k]), now)
  <1> DEFINE k == walk.todo[FirstHit(walk.todo)][1]
             t == walk.todo[FirstHit(walk.todo)][2]
             e == tiers[t].map[k]
  <1>1. walk.todo \in Seq(Keys \X Tiers) /\ TsOK(tiers) /\ TiersCapped(tiers, now)
    BY DEF CInv, WalkInv, Walks, LifeInv
  <1>2. k \in Keys /\ t \in Tiers /\ e # NoEntry
    BY <1>1, HitFacts
  <1> HIDE DEF k, t
  <1>3. e \in Entry /\ e.key = k /\ Capped(e, now)
    BY <1>1, <1>2, TakeOK DEF TiersCapped
  <1>4. ASSUME NEW f \in Entry, f.key = k, Capped(f, now)
        PROVE  TiersCapped(Place(Take(tiers, t, k), f), now)
                 /\ TiersCapped(Park(Take(tiers, t, k), f), now)
    <2>1. Falls(Place(Take(tiers, t, k), f), tiers, f)
            /\ Falls(Park(Take(tiers, t, k), f), tiers, f)
      BY <1>1, <1>2, <1>4, MoveFalls
    <2> QED BY <1>1, <1>4, <2>1, FallsCapped
  <1>5. ASSUME NEW sc \in Scores
        PROVE  TiersCapped(Place(Take(tiers, t, k), [e EXCEPT !.score = sc]), now)
    <2> DEFINE f == [e EXCEPT !.score = sc]
    <2>1. f \in Entry /\ f.key = k /\ Capped(f, now)
      BY <1>3 DEF Entry, Capped, Limit
    <2> HIDE DEF f
    <2>2. TiersCapped(Place(Take(tiers, t, k), f), now)
      BY <2>1, <1>4
    <2> QED BY <2>2 DEF f
  <1>6. TiersCapped(Take(tiers, t, k), now)
    BY <1>1, <1>2, TakeCapped
  <1>7. TiersCapped(Place(Take(tiers, t, k), e), now) /\ TiersCapped(Park(Take(tiers, t, k), e), now)
    BY <1>3, <1>4
  <1> QED BY <1>5, <1>6, <1>7 DEF k, t

LEMMA ReplaceCapped ==
    ASSUME CInv, LifeInv, NEW e \in Entry, Capped(e, now)
    PROVE  TiersCapped(Place(TakeAny(tiers, e.key), e), now)
  <1>1. TsOK(tiers) /\ TiersCapped(tiers, now)
    BY DEF CInv, LifeInv
  <1> QED BY <1>1, ReplaceFalls, FallsCapped

LEMMA InsertPositiveLife ==
    ASSUME CInv, LifeInv, NEW k \in Asked, NEW d \in Data, NEW ttl \in Ttls,
           NEW v \in Verdicts, NEW sc \in Scores, InsertPositive(k, d, ttl, v, sc)
    PROVE  LifeInv'
  <1> DEFINE old == Found(tiers, k)
             same == old # NoEntry /\ old.data = d
             life == now + Least(ttl, MaxTtlCap) * Second
             good == v \/ (same /\ old.validated)
             e == [key |-> k, data |-> d, expires |-> life, validated |-> good, score |-> sc]
  <1>1. k \in Keys /\ v \in BOOLEAN /\ TsOK(tiers)
    BY CacheAssumption DEF Keys, CInv
  <1>2. same => old.validated \in BOOLEAN
    BY <1>1, TakeAnyOK DEF Entry
  <1>3. good \in BOOLEAN
    BY <1>1, <1>2, Zenon
  <1>4. life \in Nat /\ life <= now + Second * MaxTtlCap
    <2>1. ttl \in Nat /\ MaxTtlCap \in Nat
      BY CacheAssumption
    <2>2. now \in Nat /\ now + Least(ttl, MaxTtlCap) * Second \in Nat
      BY <2>1, ExpiryType DEF CInv
    <2>3. Least(ttl, MaxTtlCap) * Second <= Second * MaxTtlCap
      BY <2>1, ClippedLife
    <2>4. Second * MaxTtlCap \in Nat /\ Least(ttl, MaxTtlCap) * Second \in Nat
      BY <2>1, NatProduct, CacheAssumption DEF Least
    <2> QED BY <2>2, <2>3, <2>4
  <1>5. tiers' = Place(TakeAny(tiers, k), e)
    BY DEF InsertPositive
  <1> HIDE DEF life, good
  <1>6. e \in Entry /\ e.key = k /\ e.data # Negative /\ e.expires = life
    BY <1>1, <1>3, <1>4, CacheAssumption DEF Entry
  <1> HIDE DEF e
  <1>7. Capped(e, now)
    BY <1>4, <1>6 DEF Capped, Limit
  <1>8. TiersCapped(tiers', now)
    BY <1>5, <1>6, <1>7, ReplaceCapped
  <1> QED BY <1>8, LifeStep DEF InsertPositive, Between

LEMMA InsertNegativeLife ==
    ASSUME CInv, LifeInv, NEW k \in Asked, NEW ttl \in Ttls, NEW sc \in Scores,
           InsertNegative(k, ttl, sc)
    PROVE  LifeInv'
  <1> DEFINE old == Found(tiers, k)
             life == now + Least(ttl, NegativeTtlCap) * Second
             good == old # NoEntry /\ old.validated
             e == [key |-> k, data |-> Negative, expires |-> life, validated |-> good,
                   score |-> sc]
  <1>1. k \in Keys /\ TsOK(tiers)
    BY CacheAssumption DEF Keys, CInv
  <1>2. old # NoEntry => old.validated \in BOOLEAN
    BY <1>1, TakeAnyOK DEF Entry
  <1>3. good \in BOOLEAN
    BY <1>2, Zenon
  <1>4. life \in Nat /\ life <= now + Second * NegativeTtlCap
    <2>1. ttl \in Nat /\ NegativeTtlCap \in Nat
      BY CacheAssumption
    <2>2. now \in Nat /\ now + Least(ttl, NegativeTtlCap) * Second \in Nat
      BY <2>1, ExpiryType DEF CInv
    <2>3. Least(ttl, NegativeTtlCap) * Second <= Second * NegativeTtlCap
      BY <2>1, ClippedLife
    <2>4. Second * NegativeTtlCap \in Nat /\ Least(ttl, NegativeTtlCap) * Second \in Nat
      BY <2>1, NatProduct, CacheAssumption DEF Least
    <2> QED BY <2>2, <2>3, <2>4
  <1>5. tiers' = Place(TakeAny(tiers, k), e)
    BY DEF InsertNegative
  <1> HIDE DEF life, good
  <1>6. e \in Entry /\ e.key = k /\ e.data = Negative /\ e.expires = life
    BY <1>1, <1>3, <1>4 DEF Entry
  <1> HIDE DEF e
  <1>7. Capped(e, now)
    BY <1>4, <1>6 DEF Capped, Limit
  <1>8. TiersCapped(tiers', now)
    BY <1>5, <1>6, <1>7, ReplaceCapped
  <1> QED BY <1>8, LifeStep DEF InsertNegative, Between

(* An NXDOMAIN keeps the later of two expiries, both within the cap. *)
LEMMA InsertNxdomainLife ==
    ASSUME CInv, LifeInv, NEW n \in NxNames, NEW ttl \in Ttls, InsertNxdomain(n, ttl)
    PROVE  LifeInv'
  <1> DEFINE life == now + Least(ttl, NegativeTtlCap) * Second
  <1>1. life <= now + NxLimit
    <2>1. ttl \in Nat /\ NegativeTtlCap \in Nat
      BY CacheAssumption
    <2>2. now \in Nat
      BY DEF CInv
    <2>3. Least(ttl, NegativeTtlCap) * Second <= Second * NegativeTtlCap
      BY <2>1, ClippedLife
    <2>4. Second * NegativeTtlCap \in Nat /\ Least(ttl, NegativeTtlCap) * Second \in Nat
      BY <2>1, NatProduct, CacheAssumption DEF Least
    <2> QED BY <2>2, <2>3, <2>4 DEF NxLimit
  <1>2. NxCapped(nx, now)
    BY DEF LifeInv
  <1>3. NxCapped(NxRoom, now)
    BY <1>2 DEF NxRoom, NxCapped
  <1>4. nx' = IF n \in DOMAIN nx THEN [nx EXCEPT ![n] = Greatest(nx[n], life)]
              ELSE [m \in DOMAIN NxRoom \cup {n} |-> IF m = n THEN life ELSE NxRoom[m]]
    BY DEF InsertNxdomain
  <1> HIDE DEF life
  <1>5. NxCapped(nx', now)
    <2>1. CASE n \in DOMAIN nx
      <3>1. Greatest(nx[n], life) <= now + NxLimit
        BY <1>1, <1>2, <2>1 DEF NxCapped, Greatest
      <3> QED BY <1>2, <1>4, <2>1, <3>1 DEF NxCapped
    <2>2. CASE n \notin DOMAIN nx
      BY <1>1, <1>3, <1>4, <2>2 DEF NxCapped
    <2> QED BY <2>1, <2>2
  <1>6. UNCHANGED <<tiers, now, disk, loading>>
    BY DEF InsertNxdomain, Between
  <1> QED BY <1>5, <1>6 DEF LifeInv

LEMMA RescoreLife ==
    ASSUME CInv, LifeInv, NEW k \in Asked, NEW sc \in Scores, Rescore(k, sc)
    PROVE  LifeInv'
  <1> DEFINE old == Found(tiers, k)
             e == [old EXCEPT !.score = sc]
  <1>1. k \in Keys /\ TsOK(tiers) /\ TiersCapped(tiers, now)
    BY CacheAssumption DEF Keys, CInv, LifeInv
  <1>2. old # NoEntry /\ tiers' = Place(TakeAny(tiers, k), e)
    BY DEF Rescore
  <1>3. old \in Entry /\ old.key = k
    BY <1>1, <1>2, TakeAnyOK
  <1>4. Capped(old, now)
    <2>1. \E t \in Tiers : old = tiers[t].map[k]
      BY <1>2 DEF Found, FirstTier, Tiers
    <2> QED BY <1>1, <1>2, <2>1 DEF TiersCapped
  <1>5. e \in Entry /\ e.key = k /\ Capped(e, now)
    BY <1>3, <1>4 DEF Entry, Capped, Limit
  <1> HIDE DEF e
  <1>6. TiersCapped(tiers', now)
    BY <1>2, <1>5, ReplaceCapped
  <1> QED BY <1>6, LifeStep DEF Rescore, Between

LEMMA SweepLife == ASSUME CInv, LifeInv, Sweep PROVE LifeInv'
  <1>1. \A t \in Tiers, k \in Keys : tiers'[t].map[k] \in {NoEntry, tiers[t].map[k]}
    BY DEF Sweep
  <1>2. TiersCapped(tiers', now)
    BY <1>1 DEF TiersCapped, LifeInv
  <1>3. NxCapped(nx', now)
    BY DEF Sweep, NxCapped, LifeInv
  <1>4. UNCHANGED <<now, disk, loading>>
    BY DEF Sweep, Between
  <1> QED BY <1>2, <1>3, <1>4 DEF LifeInv

LEMMA TickLife == ASSUME CInv, LifeInv, Tick PROVE LifeInv'
  <1>1. now \in Nat /\ now' = now + 1 /\ UNCHANGED <<tiers, nx, disk, loading>>
    BY DEF Tick, Between, CInv
  <1>2. /\ \A e \in Entry : Capped(e, now) => Capped(e, now')
        /\ \A n \in Nat : n <= now + NxLimit => n <= now' + NxLimit
    BY <1>1, CappedForLonger
  <1>3. /\ \A t \in Tiers, k \in Keys : tiers[t].map[k] # NoEntry => tiers[t].map[k] \in Entry
        /\ loading \subseteq Entry /\ \A d \in disk.entries : FromDto(d) \in Entry
        /\ \A n \in DOMAIN nx : nx[n] \in Nat
        /\ \A n \in DOMAIN disk.nx : FromUnix(disk.nx[n]) \in Nat
    BY TakeOK, DtoOK, UnixTimes DEF CInv, UniqueKeys, NxOK
  <1> QED BY <1>1, <1>2, <1>3 DEF LifeInv, TiersCapped, NxCapped

LEMMA SaveCacheLife == ASSUME CInv, LifeInv, SaveCache PROVE LifeInv'
  <1>1. UNCHANGED <<tiers, nx, now, loading>> /\ now \in Nat
    BY DEF SaveCache, Between, CInv
  <1>2. /\ disk'.entries = UNION { { ToDto(tiers[t].map[k]) : k \in Present(tiers[t]) } :
                                     t \in Tiers }
        /\ disk'.nx = [n \in DOMAIN nx |-> ToUnix(nx[n])]
    BY DEF SaveCache
  <1>3. ASSUME NEW d \in disk'.entries PROVE Capped(FromDto(d), now)
    <2>1. PICK t \in Tiers, k \in Keys :
            tiers[t].map[k] # NoEntry /\ d = ToDto(tiers[t].map[k])
      BY <1>2, <1>3 DEF Present
    <2>2. tiers[t].map[k] \in Entry /\ Capped(tiers[t].map[k], now)
      BY <2>1, TakeOK DEF CInv, LifeInv, TiersCapped
    <2> QED BY <1>1, <2>1, <2>2, DtoCapped
  <1>4. ASSUME NEW n \in DOMAIN disk'.nx PROVE FromUnix(disk'.nx[n]) <= now + NxLimit
    <2>1. n \in DOMAIN nx /\ disk'.nx[n] = ToUnix(nx[n]) /\ nx[n] \in Nat
      BY <1>2, <1>4 DEF CInv, NxOK
    <2>2. nx[n] <= now + NxLimit /\ NxLimit \in Nat
      BY <2>1, LimitTypes DEF LifeInv, NxCapped
    <2> QED BY <1>1, <2>1, <2>2, RoundsDown
  <1> QED BY <1>1, <1>3, <1>4 DEF LifeInv

LEMMA RestartLife == ASSUME CInv, LifeInv, Restart PROVE LifeInv'
  <1>1. /\ tiers' = [t \in Tiers |-> EmptyTier]
        /\ loading' = { FromDto(d) : d \in disk.entries }
        /\ nx' = [n \in { m \in DOMAIN disk.nx : Servable(FromUnix(disk.nx[m])) }
                    |-> FromUnix(disk.nx[n])]
        /\ UNCHANGED <<now, disk>>
    BY DEF Restart
  <1>2. TiersCapped(tiers', now)
    BY <1>1 DEF TiersCapped, EmptyTier
  <1>3. NxCapped(nx', now)
    BY <1>1 DEF LifeInv, NxCapped
  <1> QED BY <1>1, <1>2, <1>3 DEF LifeInv

LEMMA RestoreEntryLife == ASSUME CInv, LifeInv, RestoreEntry PROVE LifeInv'
  <1>1. PICK e \in loading :
          /\ loading' = loading \ {e}
          /\ tiers' \in {tiers, Park(tiers, e), Place(tiers, e)}
          /\ UNCHANGED <<nx, now, walk, answer, disk>>
    BY DEF RestoreEntry
  <1>2. e \in Entry /\ Absent(tiers, e.key) /\ TsOK(tiers) /\ Capped(e, now)
          /\ TiersCapped(tiers, now)
    BY DEF CInv, UniqueKeys, LifeInv
  <1>3. Falls(Park(tiers, e), tiers, e) /\ Falls(Place(tiers, e), tiers, e)
    BY <1>2, ParkFalls, PlaceFalls
  <1>4. TiersCapped(tiers', now)
    BY <1>1, <1>2, <1>3, FallsCapped
  <1> QED BY <1>1, <1>4, LifeStep

LEMMA VisitLife == ASSUME CInv, LifeInv, ExactVisit \/ CnameVisit PROVE LifeInv'
  <1>1. Hits(walk.todo) # {} /\ UNCHANGED <<nx, now, disk, loading>>
    BY DEF ExactVisit, CnameVisit
  <1>2. TiersCapped(tiers', now)
    <2>1. CASE ExactVisit
      BY <1>1, <2>1, VisitCapped DEF ExactVisit
    <2>2. CASE CnameVisit
      BY <1>1, <2>2, VisitCapped DEF CnameVisit
    <2> QED BY <2>1, <2>2
  <1> QED BY <1>1, <1>2, LifeStep

LEMMA LifeNext == CInv /\ LifeInv /\ [Next]_vars => LifeInv'
  <1> SUFFICES ASSUME CInv, LifeInv, [Next]_vars PROVE LifeInv'
    OBVIOUS
  <1>1. CASE UNCHANGED <<tiers, nx, now, disk, loading>>
    BY <1>1 DEF LifeInv
  <1>2. CASE TryCname \/ TryNx \/ \E k \in Asked : Lookup(k)
    BY <1>1, <1>2 DEF TryCname, TryNx, Lookup
  <1>3. CASE \E k \in Asked, ttl \in Ttls, sc \in Scores :
               \/ \E d \in Data, v \in Verdicts : InsertPositive(k, d, ttl, v, sc)
               \/ InsertNegative(k, ttl, sc)
    BY <1>3, InsertPositiveLife, InsertNegativeLife
  <1>4. CASE \E n \in NxNames, ttl \in Ttls : InsertNxdomain(n, ttl)
    BY <1>4, InsertNxdomainLife
  <1>5. CASE \E k \in Asked, sc \in Scores : Rescore(k, sc)
    BY <1>5, RescoreLife
  <1>6. CASE ExactVisit \/ CnameVisit
    BY <1>6, VisitLife
  <1>7. CASE Sweep \/ Tick \/ SaveCache \/ Restart \/ RestoreEntry
    BY <1>7, SweepLife, TickLife, SaveCacheLife, RestartLife, RestoreEntryLife
  <1> QED BY <1>1, <1>2, <1>3, <1>4, <1>5, <1>6, <1>7 DEF Next, vars

(* max_ttl_cap and negative_ttl_cap bound what is left of every cached life, at
   every moment, whatever moves, merges, snapshots and restarts came between:
   a snapshot rounds expiries down, and nothing else puts one later but an
   insert, which applies the cap. *)
THEOREM LivesAreCapped == Spec => []LifetimeCapped
  <1>1. Init => LifeInv
    BY DEF Init, Nothing, LifeInv, TiersCapped, NxCapped, EmptyTier
  <1>2. LifeInv => LifetimeCapped
    BY DEF LifeInv, TiersCapped, NxCapped, LifetimeCapped, Present, Capped, Limit, NxLimit
  <1> QED BY <1>1, <1>2, LifeNext, CacheInductive, PTL DEF Spec

-----------------------------------------------------------------------------
(* The search.  A lookup visits the partitions of its key from the narrowest to
   the global one, each in the order of the tiers; whatever it has not answered
   with yet and could, it has still ahead of it, although its own visits move
   and demote entries. *)

(* The keys of the partitions that contain the one of k. *)
Scopes(k) == { WithScope(k, i) : i \in 0 .. Len(k[3]) }

(* Visits to keys of S, narrower partitions first, every tier followed by the
   one below it. *)
Route(todo, S) ==
    /\ todo \in Seq(Keys \X Tiers)
    /\ \A i \in 1 .. Len(todo) : todo[i][1] \in S
    /\ \A i, j \in 1 .. Len(todo) : i <= j => Len(todo[j][1][3]) <= Len(todo[i][1][3])
    /\ \A i \in 1 .. Len(todo) : Below[todo[i][2]] # "none" =>
         i < Len(todo) /\ todo[i + 1] = <<todo[i][1], Below[todo[i][2]]>>

Ahead(todo, k, t) == \E i \in 1 .. Len(todo) : todo[i] = <<k, t>>

LiveAt(ts, t, k) == ts[t].map[k] # NoEntry /\ Live(ts[t].map[k])

Redirects(e) == e # NoEntry /\ e.data # Negative /\ Fresh(e)

SearchInv ==
    /\ walk.phase # "idle" \/ loading # {} => answer = NoAnswer
    /\ walk.phase = "exact" =>
         /\ Route(walk.todo, Scopes(walk.key))
         /\ \A k \in Scopes(walk.key), t \in Tiers :
              LiveAt(tiers, t, k) => Ahead(walk.todo, k, t)
    /\ walk.phase \in {"cname", "nx"} =>
         \A k \in Scopes(walk.key), t \in Tiers : ~LiveAt(tiers, t, k)
    /\ walk.phase = "cname" =>
         /\ Route(walk.todo, Scopes(WithType(walk.key, "CNAME")))
         /\ \A k \in Scopes(WithType(walk.key, "CNAME")), t \in Tiers :
              Redirects(tiers[t].map[k]) => Ahead(walk.todo, k, t)
    /\ walk.phase = "nx" => walk.key[2] \in {"CNAME", "ANY"}
    /\ MostSpecificAnswer

LEMMA KeyParts ==
    ASSUME NEW k \in Keys
    PROVE  /\ k = <<k[1], k[2], k[3]>>
           /\ k[1] \in Names /\ k[2] \in Types /\ k[3] \in Partitions
           /\ k[3] \in Seq({0, 1}) /\ Len(k[3]) \in Nat
  BY CacheAssumption DEF Keys

(* The broader partitions of a key are keys, and as long as their scope. *)
LEMMA ScopeFacts ==
    ASSUME NEW k \in Keys, NEW m \in 0 .. Len(k[3])
    PROVE  /\ WithScope(k, m) \in Keys
           /\ WithScope(k, m)[2] = k[2]
           /\ Len(WithScope(k, m)[3]) = m
  <1>1. /\ k[1] \in Names /\ k[2] \in Types /\ k[3] \in Partitions
        /\ k[3] \in Seq({0, 1}) /\ Len(k[3]) \in Nat
    BY KeyParts
  <1>2. SubSeq(k[3], 1, m) \in Partitions
    BY <1>1, CacheAssumption
  <1>3. Len(SubSeq(k[3], 1, m)) = m
    BY <1>1, SubSeqProperties
  <1> QED BY <1>1, <1>2, <1>3 DEF WithScope, Keys

LEMMA CoveringScopes ==
    ASSUME NEW k \in Keys
    PROVE  /\ Covering(k, k[2]) = Scopes(k)
           /\ \A type : Covering(k, type) = Scopes(WithType(k, type))
           /\ WithType(k, "CNAME") \in Keys /\ WithType(k, "CNAME")[2] = "CNAME"
           /\ k[2] = "CNAME" => WithType(k, "CNAME") = k
           /\ Scopes(k) \subseteq Keys
  <1>1. k = <<k[1], k[2], k[3]>> /\ k[1] \in Names /\ k[2] \in Types /\ k[3] \in Partitions
    BY KeyParts
  <1>2. WithType(k, k[2]) = k
    BY <1>1 DEF WithType
  <1>3. \A type : WithType(k, type)[3] = k[3] /\ WithType(k, type)[2] = type
    BY DEF WithType
  <1>4. WithType(k, "CNAME") \in Keys
    BY <1>1, CacheAssumption DEF WithType, Keys
  <1>5. \A type : Covering(k, type) = Scopes(WithType(k, type))
    BY <1>3 DEF Covering, Scopes
  <1>6. Scopes(k) \subseteq Keys
    BY ScopeFacts DEF Scopes
  <1> QED BY <1>2, <1>3, <1>4, <1>5, <1>6

(* A walk starts out with every tier of every partition ahead of it. *)
LEMMA VisitsRoute ==
    ASSUME NEW k \in Keys
    PROVE  /\ Route(Visits(k), Scopes(k))
           /\ \A j \in Scopes(k), t \in Tiers : Ahead(Visits(k), j, t)
  <1> DEFINE L == Len(k[3])
             n == 3 * (L + 1)
             V == Visits(k)
             q(i) == L - ((i - 1) \div 3)
             r(i) == ((i - 1) % 3) + 1
  <1>1. L \in Nat /\ n \in Nat
    BY KeyParts
  <1>2. V \in Seq(Keys \X Tiers)
    BY VisitsType
  <1>3. /\ V = [i \in 1 .. n |-> <<WithScope(k, q(i)), TierOrder[r(i)]>>]
        /\ Len(V) = n
    <2>1. V = [i \in 1 .. n |-> <<WithScope(k, q(i)), TierOrder[r(i)]>>]
      BY DEF Visits
    <2>2. DOMAIN V = 1 .. n
      BY <2>1
    <2> HIDE DEF V, n
    <2>3. Len(V) = n
      BY <1>1, <1>2, <2>2, LenProperties
    <2> QED BY <2>1, <2>3
  <1>4. \A i \in 1 .. n : V[i] = <<WithScope(k, q(i)), TierOrder[r(i)]>>
    BY <1>3
  <1> HIDE DEF V
  <1>5. \A i \in 1 .. n : q(i) \in 0 .. L /\ r(i) \in 1 .. 3
    <2>1. \A l \in Nat : \A i \in 1 .. 3 * (l + 1) :
            l - ((i - 1) \div 3) \in 0 .. l /\ ((i - 1) % 3) + 1 \in 1 .. 3
      OBVIOUS
    <2> HIDE DEF L
    <2> QED BY <2>1, <1>1
  <1>6. \A i, j \in 1 .. n : i <= j => q(j) <= q(i)
    <2>1. \A i, j \in Nat \ {0} : i <= j => (i - 1) \div 3 <= (j - 1) \div 3
      OBVIOUS
    <2>2. \A i \in 1 .. n : i \in Nat \ {0} /\ (i - 1) \div 3 \in Int
      OBVIOUS
    <2> HIDE DEF L
    <2> QED BY <1>1, <2>1, <2>2
  <1>7. \A i \in 1 .. n : r(i) # 3 => i + 1 \in 1 .. n /\ q(i + 1) = q(i) /\ r(i + 1) = r(i) + 1
    <2>1. \A l \in Nat : \A i \in 1 .. 3 * (l + 1) : ((i - 1) % 3) + 1 # 3 =>
            /\ i + 1 \in 1 .. 3 * (l + 1)
            /\ l - (((i + 1) - 1) \div 3) = l - ((i - 1) \div 3)
            /\ (((i + 1) - 1) % 3) + 1 = (((i - 1) % 3) + 1) + 1
      OBVIOUS
    <2> HIDE DEF L
    <2> QED BY <2>1, <1>1
  <1>8. \A m \in 0 .. L, s \in 1 .. 3 : \E i \in 1 .. n : q(i) = m /\ r(i) = s
    <2>1. \A l \in Nat : \A m \in 0 .. l, s \in 1 .. 3 :
            /\ 3 * (l - m) + s \in 1 .. 3 * (l + 1)
            /\ l - (((3 * (l - m) + s) - 1) \div 3) = m
            /\ (((3 * (l - m) + s) - 1) % 3) + 1 = s
      OBVIOUS
    <2> SUFFICES ASSUME NEW m \in 0 .. L, NEW s \in 1 .. 3
                 PROVE  \E i \in 1 .. n : q(i) = m /\ r(i) = s
      OBVIOUS
    <2> WITNESS 3 * (L - m) + s \in 1 .. n
    <2> HIDE DEF L
    <2> QED BY <2>1, <1>1
  <1>9. /\ TierOrder[1] = "hot" /\ TierOrder[2] = "warm" /\ TierOrder[3] = "cold"
        /\ \A t \in Tiers : \E s \in 1 .. 3 : TierOrder[s] = t
        /\ \A s \in 1 .. 3 : Below[TierOrder[s]] # "none" =>
             s # 3 /\ Below[TierOrder[s]] = TierOrder[s + 1]
    BY DEF TierOrder, Tiers, Below
  <1> HIDE DEF q, r, n
  <1>10. \A m \in 0 .. L : WithScope(k, m) \in Scopes(k) /\ Len(WithScope(k, m)[3]) = m
    BY ScopeFacts DEF Scopes
  <1>11. Route(V, Scopes(k))
    <2>1. \A i \in 1 .. n : V[i][1] \in Scopes(k)
      BY <1>4, <1>5, <1>10
    <2>2. \A i, j \in 1 .. n : i <= j => Len(V[j][1][3]) <= Len(V[i][1][3])
      BY <1>4, <1>5, <1>6, <1>10
    <2>3. ASSUME NEW i \in 1 .. n, Below[V[i][2]] # "none"
          PROVE  i < n /\ V[i + 1] = <<V[i][1], Below[V[i][2]]>>
      <3>1. V[i] = <<WithScope(k, q(i)), TierOrder[r(i)]>> /\ r(i) \in 1 .. 3
        BY <1>4, <1>5
      <3>2. r(i) # 3 /\ Below[V[i][2]] = TierOrder[r(i) + 1]
        BY <2>3, <3>1, <1>9
      <3>3. i + 1 \in 1 .. n /\ q(i + 1) = q(i) /\ r(i + 1) = r(i) + 1
        BY <1>7, <3>2
      <3>4. V[i + 1] = <<WithScope(k, q(i)), TierOrder[r(i) + 1]>>
        BY <1>4, <3>3
      <3> QED BY <1>1, <3>1, <3>2, <3>3, <3>4
    <2> QED BY <1>2, <1>3, <2>1, <2>2, <2>3 DEF Route
  <1>12. ASSUME NEW j \in Scopes(k), NEW t \in Tiers PROVE Ahead(V, j, t)
    <2>1. PICK m \in 0 .. L : j = WithScope(k, m)
      BY DEF Scopes
    <2>2. PICK s \in 1 .. 3 : TierOrder[s] = t
      BY <1>9
    <2>3. PICK i \in 1 .. n : q(i) = m /\ r(i) = s
      BY <1>8
    <2>4. V[i] = <<j, t>>
      BY <1>4, <2>1, <2>2, <2>3
    <2> QED BY <1>3, <2>4 DEF Ahead
  <1> QED BY <1>11, <1>12 DEF V

LEMMA RestRoute ==
    ASSUME NEW todo, NEW S, Route(todo, S), Hits(todo) # {}
    PROVE  Route(Rest(todo), S)
  <1> DEFINE f == FirstHit(todo)
             r == Rest(todo)
  <1>1. todo \in Seq(Keys \X Tiers)
    BY DEF Route
  <1>2. /\ f \in 1 .. Len(todo) /\ Len(todo) \in Nat /\ r \in Seq(Keys \X Tiers)
        /\ Len(r) = Len(todo) - f /\ \A i \in 1 .. Len(r) : r[i] = todo[f + i]
    BY <1>1, RestFacts
  <1> HIDE DEF f, r
  <1>3. \A i \in 1 .. Len(r) : f + i \in 1 .. Len(todo)
    BY <1>2
  <1>4. \A i \in 1 .. Len(r) : r[i][1] \in S
    BY <1>2, <1>3 DEF Route
  <1>5. \A i, j \in 1 .. Len(r) : i <= j => Len(r[j][1][3]) <= Len(r[i][1][3])
    <2> SUFFICES ASSUME NEW i \in 1 .. Len(r), NEW j \in 1 .. Len(r), i <= j
                 PROVE  Len(r[j][1][3]) <= Len(r[i][1][3])
      OBVIOUS
    <2>1. f + i \in 1 .. Len(todo) /\ f + j \in 1 .. Len(todo) /\ f + i <= f + j
      BY <1>2, <1>3
    <2>2. Len(todo[f + j][1][3]) <= Len(todo[f + i][1][3])
      BY <2>1 DEF Route
    <2> QED BY <1>2, <2>2
  <1>6. ASSUME NEW i \in 1 .. Len(r), Below[r[i][2]] # "none"
        PROVE  i < Len(r) /\ r[i + 1] = <<r[i][1], Below[r[i][2]]>>
    <2>1. f + i < Len(todo) /\ todo[(f + i) + 1] = <<r[i][1], Below[r[i][2]]>>
      BY <1>2, <1>3, <1>6 DEF Route
    <2>2. i < Len(r) /\ i + 1 \in 1 .. Len(r) /\ f + (i + 1) = (f + i) + 1
      BY <1>2, <2>1
    <2> QED BY <1>2, <2>1, <2>2
  <1>7. Route(r, S)
    BY <1>2, <1>4, <1>5, <1>6 DEF Route
  <1> QED BY <1>7 DEF r

(* What is ahead and not visited now is ahead still, in its tier and in the one
   below, where the visit may have sent it. *)
LEMMA AheadStill ==
    ASSUME NEW todo, NEW S, Route(todo, S), Hits(todo) # {}, NEW k \in Keys, NEW t \in Tiers,
           Ahead(todo, k, t), tiers[t].map[k] # NoEntry, todo[FirstHit(todo)] # <<k, t>>
    PROVE  Ahead(Rest(todo), k, t) /\ (Below[t] # "none" => Ahead(Rest(todo), k, Below[t]))
  <1> DEFINE f == FirstHit(todo)
             r == Rest(todo)
  <1>1. todo \in Seq(Keys \X Tiers)
    BY DEF Route
  <1>2. /\ f \in 1 .. Len(todo) /\ Len(todo) \in Nat /\ \A j \in Hits(todo) : f <= j
        /\ Len(r) = Len(todo) - f /\ \A i \in 1 .. Len(r) : r[i] = todo[f + i]
    BY <1>1, RestFacts
  <1>3. PICK i \in 1 .. Len(todo) : todo[i] = <<k, t>>
    BY DEF Ahead
  <1>4. i \in Hits(todo) /\ i # f
    BY <1>3 DEF Hits
  <1> HIDE DEF f, r
  <1>5. i - f \in 1 .. Len(r) /\ f + (i - f) = i
    BY <1>2, <1>4
  <1>6. r[i - f] = <<k, t>>
    BY <1>2, <1>3, <1>5
  <1>7. ASSUME Below[t] # "none" PROVE Ahead(r, k, Below[t])
    <2>1. i < Len(todo) /\ todo[i + 1] = <<k, Below[t]>>
      BY <1>3, <1>7 DEF Route
    <2>2. (i - f) + 1 \in 1 .. Len(r) /\ f + ((i - f) + 1) = i + 1
      BY <1>2, <1>5, <2>1
    <2>3. r[(i - f) + 1] = <<k, Below[t]>>
      BY <1>2, <2>1, <2>2
    <2> QED BY <2>2, <2>3 DEF Ahead
  <1>8. Ahead(r, k, t)
    BY <1>5, <1>6 DEF Ahead
  <1> QED BY <1>7, <1>8 DEF r

(* Whatever is ahead and cached is in no narrower a partition than the visit. *)
LEMMA NarrowestFirst ==
    ASSUME NEW todo, NEW S, Route(todo, S), Hits(todo) # {}, NEW k \in Keys, NEW t \in Tiers,
           Ahead(todo, k, t), tiers[t].map[k] # NoEntry
    PROVE  ~(Len(k[3]) > Len(todo[FirstHit(todo)][1][3]))
  <1> DEFINE f == FirstHit(todo)
  <1>1. todo \in Seq(Keys \X Tiers)
    BY DEF Route
  <1>2. /\ f \in 1 .. Len(todo) /\ Len(todo) \in Nat /\ \A j \in Hits(todo) : f <= j
    BY <1>1, RestFacts
  <1>3. PICK i \in 1 .. Len(todo) : todo[i] = <<k, t>>
    BY DEF Ahead
  <1>4. f <= i
    BY <1>2, <1>3 DEF Hits
  <1>5. todo[f][1] \in Keys
    BY <1>1, <1>2
  <1> HIDE DEF f
  <1>6. Len(todo[i][1][3]) <= Len(todo[f][1][3]) /\ todo[i][1] = k
    BY <1>2, <1>3, <1>4 DEF Route
  <1>7. Len(k[3]) \in Nat /\ Len(todo[f][1][3]) \in Nat
    BY <1>5, KeyParts
  <1> QED BY <1>6, <1>7 DEF f

(* An entry moved with its expiry and content makes nothing live or redirecting
   that was not. *)
LEMMA MovedLives ==
    ASSUME NEW new, NEW old, TsOK(new), NEW e \in Entry, NEW t \in Tiers, NEW k \in Keys,
           Falls(new, old, e), e.key = k, old[t].map[k] # NoEntry,
           e.expires = old[t].map[k].expires, e.data = old[t].map[k].data,
           NEW u \in Tiers, NEW j \in Keys
    PROVE  /\ LiveAt(new, u, j) => \E w \in Tiers : LiveAt(old, w, j)
           /\ Redirects(new[u].map[j]) => \E w \in Tiers : Redirects(old[w].map[j])
  <1> SUFFICES ASSUME new[u].map[j] # NoEntry
               PROVE  /\ LiveAt(new, u, j) => \E w \in Tiers : LiveAt(old, w, j)
                      /\ Redirects(new[u].map[j]) => \E w \in Tiers : Redirects(old[w].map[j])
    BY DEF LiveAt, Redirects
  <1>1. new[u].map[j].key = j
    BY DEF TsOK, TmOK
  <1>2. CASE new[u].map[j] = e
    <2>1. j = k
      BY <1>1, <1>2
    <2>2. Live(e) => Live(old[t].map[k])
      BY DEF Live, Fresh, StaleServable
    <2>3. Redirects(e) => Redirects(old[t].map[k])
      BY DEF Redirects, Fresh
    <2> QED BY <1>2, <2>1, <2>2, <2>3 DEF LiveAt
  <1>3. CASE \E w \in Tiers : new[u].map[j] = old[w].map[j]
    BY <1>3 DEF LiveAt
  <1> QED BY <1>2, <1>3 DEF Falls

(* What the answer promises, while the clock stands still. *)
LEMMA PrimedKeys ==
    ASSUME now' = now
    PROVE  /\ LiveKeys' = { k \in Keys : \E t \in Tiers : LiveAt(tiers', t, k) }
           /\ RedirectKeys' = { k \in Keys : k[2] = "CNAME"
                                  /\ \E t \in Tiers : Redirects(tiers'[t].map[k]) }
  <1>1. LiveKeys' = { k \in Keys : \E t \in Tiers : LiveAt(tiers', t, k) }
    BY DEF LiveKeys, LiveAt, Live, Fresh, StaleServable
  <1>2. RedirectKeys' = { k \in Keys : k[2] = "CNAME"
                            /\ \E t \in Tiers : Redirects(tiers'[t].map[k]) }
    BY DEF RedirectKeys, Redirects, Fresh
  <1> QED BY <1>1, <1>2

(* A redirecting entry is live. *)
LEMMA RedirectsLive ==
    ASSUME NEW ts, NEW t, NEW k, Redirects(ts[t].map[k])
    PROVE  LiveAt(ts, t, k)
  BY DEF Redirects, LiveAt, Live

(* An exact answer comes from the visit taken, and what is left in the tiers was
   live before. *)
LEMMA ExactReturn ==
    ASSUME CInv, SearchInv, walk.phase = "exact", Hits(walk.todo) # {},
           NEW kind \in {"fresh", "stale"}, Return(kind, walk.todo[FirstHit(walk.todo)][1]),
           UNCHANGED <<now, loading>>,
           \A u \in Tiers, j \in Keys : LiveAt(tiers', u, j) => \E w \in Tiers : LiveAt(tiers, w, j)
    PROVE  SearchInv'
  <1> DEFINE hit == walk.todo[FirstHit(walk.todo)][1]
  <1>1. answer' = [kind |-> kind, key |-> walk.key, hit |-> hit] /\ walk' = NoWalk
    BY DEF Return
  <1>2. walk.key \in Keys /\ loading = {}
    BY DEF CInv, WalkInv
  <1>3. Route(walk.todo, Scopes(walk.key)) /\ walk.todo \in Seq(Keys \X Tiers)
    BY DEF SearchInv, Route
  <1>4. hit \in Scopes(walk.key)
    BY <1>3, RestFacts DEF Route
  <1>5. Covering(walk.key, walk.key[2]) = Scopes(walk.key)
    BY <1>2, CoveringScopes
  <1>6. ASSUME NEW j \in LiveKeys', j \in Scopes(walk.key)
        PROVE  ~(Len(j[3]) > Len(hit[3]))
    <2>1. j \in Keys /\ \E w \in Tiers : LiveAt(tiers', w, j)
      BY <1>6, PrimedKeys
    <2>2. PICK w \in Tiers : LiveAt(tiers, w, j)
      BY <2>1
    <2>3. Ahead(walk.todo, j, w) /\ tiers[w].map[j] # NoEntry
      BY <1>6, <2>2 DEF SearchInv, LiveAt
    <2> QED BY <1>3, <2>1, <2>3, NarrowestFirst
  <1> HIDE DEF hit
  <1>7. MostSpecificAnswer'
    <2>1. answer'.key = walk.key /\ answer'.hit = hit /\ answer'.kind \in {"fresh", "stale"}
      BY <1>1
    <2>2. Narrower(LiveKeys' \cap Scopes(walk.key), hit) = {}
      BY <1>6 DEF Narrower
    <2> QED BY <1>4, <1>5, <2>1, <2>2 DEF MostSpecificAnswer
  <1> QED BY <1>1, <1>2, <1>7 DEF SearchInv, NoWalk

LEMMA ExactVisitSearch == ASSUME CInv, SearchInv, ExactVisit PROVE SearchInv'
  <1> DEFINE todo == walk.todo
             k == walk.todo[FirstHit(walk.todo)][1]
             t == walk.todo[FirstHit(walk.todo)][2]
             e == tiers[t].map[k]
  <1>1. walk.phase = "exact" /\ Hits(todo) # {} /\ UNCHANGED <<nx, now, disk, loading>>
    BY DEF ExactVisit
  <1>2. walk \in Walks /\ todo \in Seq(Keys \X Tiers) /\ TsOK(tiers) /\ walk.key \in Keys
    BY <1>1 DEF CInv, WalkInv, Walks
  <1>3. k \in Keys /\ t \in Tiers /\ e # NoEntry
    BY <1>1, <1>2, HitFacts
  <1>4. TsOK(tiers')
    BY <1>1, VisitFacts DEF ExactVisit
  <1>5. \/ Fresh(e) /\ Return("fresh", k)
             /\ \E sc \in Scores : tiers' = Place(Take(tiers, t, k), [e EXCEPT !.score = sc])
        \/ Return("stale", k) /\ tiers' = Park(Take(tiers, t, k), e)
        \/ ~Live(e) /\ tiers' = Take(tiers, t, k) /\ Continue
    BY DEF ExactVisit
  <1>6. <<k, t>> = todo[FirstHit(todo)]
    BY <1>1, <1>2, HitFacts, Zenon
  <1> HIDE DEF k, t
  <1>7. e \in Entry /\ e.key = k
    BY <1>2, <1>3, TakeOK
  <1>8. ASSUME NEW g \in Entry, g.key = k, g.expires = e.expires, g.data = e.data,
               tiers' \in {Place(Take(tiers, t, k), g), Park(Take(tiers, t, k), g)}
        PROVE  \A u \in Tiers, j \in Keys :
                 LiveAt(tiers', u, j) => \E w \in Tiers : LiveAt(tiers, w, j)
    <2>1. Falls(tiers', tiers, g)
      BY <1>2, <1>3, <1>8, MoveFalls
    <2> QED BY <1>3, <1>4, <1>8, <2>1, MovedLives
  <1>9. CASE Fresh(e) /\ Return("fresh", k)
               /\ \E sc \in Scores : tiers' = Place(Take(tiers, t, k), [e EXCEPT !.score = sc])
    <2>1. PICK sc \in Scores : tiers' = Place(Take(tiers, t, k), [e EXCEPT !.score = sc])
      BY <1>9
    <2> DEFINE g == [e EXCEPT !.score = sc]
    <2>2. g \in Entry /\ g.key = k /\ g.expires = e.expires /\ g.data = e.data
      BY <1>7 DEF Entry
    <2> HIDE DEF g
    <2>3. \A u \in Tiers, j \in Keys :
             LiveAt(tiers', u, j) => \E w \in Tiers : LiveAt(tiers, w, j)
      BY <1>8, <2>1, <2>2 DEF g
    <2> QED BY <1>1, <1>9, <2>3, ExactReturn DEF k
  <1>10. CASE Return("stale", k) /\ tiers' = Park(Take(tiers, t, k), e)
    <2>1. \A u \in Tiers, j \in Keys :
             LiveAt(tiers', u, j) => \E w \in Tiers : LiveAt(tiers, w, j)
      BY <1>7, <1>8, <1>10
    <2> QED BY <1>1, <1>10, <2>1, ExactReturn DEF k
  <1>11. CASE ~Live(e) /\ tiers' = Take(tiers, t, k) /\ Continue
    <2>1. /\ walk'.phase = "exact" /\ walk'.key = walk.key /\ walk'.todo = Rest(todo)
          /\ answer' = answer
      BY <1>1, <1>2, <1>11 DEF Continue, Walks
    <2>2. Route(todo, Scopes(walk.key)) /\ answer = NoAnswer
      BY <1>1 DEF SearchInv
    <2>3. Route(Rest(todo), Scopes(walk.key))
      BY <1>1, <2>2, RestRoute
    <2>4. ASSUME NEW j \in Scopes(walk.key), NEW u \in Tiers, LiveAt(tiers', u, j)
          PROVE  Ahead(Rest(todo), j, u)
      <3>1. j \in Keys
        BY <1>2, CoveringScopes
      <3>2. tiers'[u].map[j] = tiers[u].map[j]
        BY <1>2, <1>3, <1>11, <2>4, <3>1, TakeStays DEF LiveAt
      <3>3. LiveAt(tiers, u, j) /\ tiers[u].map[j] # NoEntry
        BY <2>4, <3>2 DEF LiveAt
      <3>4. Ahead(todo, j, u)
        BY <1>1, <3>3 DEF SearchInv
      <3>5. <<j, u>> # <<k, t>>
        BY <1>11, <3>3 DEF LiveAt
      <3> QED BY <1>1, <1>6, <2>2, <3>1, <3>3, <3>4, <3>5, AheadStill
    <2>5. \A j \in Scopes(walk.key), u \in Tiers : LiveAt(tiers, u, j)' => Ahead(Rest(todo), j, u)
      BY <1>1, <2>4 DEF LiveAt, Live, Fresh, StaleServable
    <2>6. MostSpecificAnswer'
      BY <2>1, <2>2 DEF MostSpecificAnswer, NoAnswer
    <2> HIDE DEF todo
    <2> QED BY <2>1, <2>2, <2>3, <2>5, <2>6 DEF SearchInv
  <1> QED BY <1>5, <1>9, <1>10, <1>11

(* Nothing becomes live under the keys of the question while CNAMEs are moved. *)
LEMMA CnameVisitSearch == ASSUME CInv, SearchInv, CnameVisit PROVE SearchInv'
  <1> DEFINE todo == walk.todo
             k == walk.todo[FirstHit(walk.todo)][1]
             t == walk.todo[FirstHit(walk.todo)][2]
             e == tiers[t].map[k]
             A == WithType(walk.key, "CNAME")
  <1>1. walk.phase = "cname" /\ Hits(todo) # {} /\ UNCHANGED <<nx, now, disk, loading>>
    BY DEF CnameVisit
  <1>2. /\ walk \in Walks /\ todo \in Seq(Keys \X Tiers) /\ TsOK(tiers) /\ walk.key \in Keys
        /\ loading = {} /\ walk.key[2] \notin {"CNAME", "ANY"}
    BY <1>1 DEF CInv, WalkInv, Walks
  <1>3. k \in Keys /\ t \in Tiers /\ e # NoEntry
    BY <1>1, <1>2, HitFacts
  <1>4. TsOK(tiers')
    BY <1>1, VisitFacts DEF CnameVisit
  <1>5. \/ ~Redirects(e) /\ Continue
             /\ tiers' \in {Place(Take(tiers, t, k), e), Park(Take(tiers, t, k), e),
                            Take(tiers, t, k)}
        \/ Redirects(e) /\ Return("cname", k)
             /\ \E sc \in Scores : tiers' = Place(Take(tiers, t, k), [e EXCEPT !.score = sc])
    BY <1>3 DEF CnameVisit, Redirects
  <1>6. <<k, t>> = todo[FirstHit(todo)]
    BY <1>1, <1>2, HitFacts, Zenon
  <1>7. /\ Route(todo, Scopes(A)) /\ answer = NoAnswer
        /\ \A j \in Scopes(walk.key), u \in Tiers : ~LiveAt(tiers, u, j)
        /\ \A j \in Scopes(A), u \in Tiers : Redirects(tiers[u].map[j]) => Ahead(todo, j, u)
    BY <1>1 DEF SearchInv
  <1>8. k \in Scopes(A)
    <2>1. FirstHit(todo) \in 1 .. Len(todo)
      BY <1>1, <1>2, RestFacts, Zenon
    <2> QED BY <1>7, <2>1 DEF Route
  <1> HIDE DEF k, t
  <1>9. e \in Entry /\ e.key = k
    BY <1>2, <1>3, TakeOK
  <1>10. /\ Covering(walk.key, walk.key[2]) = Scopes(walk.key)
         /\ Covering(walk.key, "CNAME") = Scopes(A)
         /\ Scopes(walk.key) \subseteq Keys /\ Scopes(A) \subseteq Keys
    BY <1>2, CoveringScopes
  <1> HIDE DEF A
  <1>11. CASE ~Redirects(e) /\ Continue
               /\ tiers' \in {Place(Take(tiers, t, k), e), Park(Take(tiers, t, k), e),
                              Take(tiers, t, k)}
    <2>1. /\ walk'.phase = "cname" /\ walk'.key = walk.key /\ walk'.todo = Rest(todo)
          /\ answer' = answer
      BY <1>1, <1>2, <1>11 DEF Continue, Walks
    <2>2. Falls(tiers', tiers, e)
      <3>1. Falls(Take(tiers, t, k), tiers, e)
        <4> DEFINE mid == Take(tiers, t, k)
        <4>1. \A u \in Tiers, j \in Keys : mid[u].map[j] # NoEntry => mid[u].map[j] = tiers[u].map[j]
          BY <1>2, <1>3, TakeStays
        <4> HIDE DEF mid
        <4>2. Falls(mid, tiers, e)
          BY <4>1 DEF Falls
        <4> QED BY <4>2 DEF mid
      <3>2. Falls(Place(Take(tiers, t, k), e), tiers, e) /\ Falls(Park(Take(tiers, t, k), e), tiers, e)
        BY <1>2, <1>3, <1>9, MoveFalls
      <3> QED BY <1>11, <3>1, <3>2
    <2>3. \A j \in Scopes(walk.key), u \in Tiers : ~LiveAt(tiers', u, j)
      BY <1>3, <1>4, <1>7, <1>9, <1>10, <2>2, MovedLives, SMTT(30)
    <2>4. Route(Rest(todo), Scopes(A))
      BY <1>1, <1>7, RestRoute
    <2>5. ASSUME NEW j \in Scopes(A), NEW u \in Tiers, Redirects(tiers[u].map[j])
          PROVE  /\ Ahead(Rest(todo), j, u)
                 /\ Below[u] # "none" => Ahead(Rest(todo), j, Below[u])
      <3>1. Ahead(todo, j, u) /\ tiers[u].map[j] # NoEntry /\ j \in Keys
        BY <1>7, <1>10, <2>5 DEF Redirects
      <3>2. <<j, u>> # <<k, t>>
        BY <1>11, <2>5
      <3> QED BY <1>1, <1>6, <1>7, <3>1, <3>2, AheadStill
    <2>6. ASSUME NEW j \in Scopes(A), NEW u \in Tiers, Redirects(tiers'[u].map[j])
          PROVE  Ahead(Rest(todo), j, u)
      <3>1. j \in Keys /\ tiers'[u].map[j] # NoEntry
        BY <1>10, <2>6 DEF Redirects
      <3>2. tiers'[u].map[j] # e
        BY <1>11, <2>6
      <3>3. CASE tiers'[u].map[j] = tiers[u].map[j]
        BY <2>5, <2>6, <3>3
      <3>4. CASE \E w \in Tiers : Below[w] = u /\ tiers'[u].map[j] = tiers[w].map[j]
        <4>1. PICK w \in Tiers : Below[w] = u /\ tiers'[u].map[j] = tiers[w].map[j]
          BY <3>4
        <4>2. Below[w] # "none"
          BY <4>1 DEF Tiers
        <4> QED BY <2>5, <2>6, <4>1, <4>2
      <3> QED BY <2>2, <3>1, <3>2, <3>3, <3>4 DEF Falls
    <2>7. /\ \A j \in Scopes(walk.key), u \in Tiers : ~LiveAt(tiers, u, j)'
          /\ \A j \in Scopes(A), u \in Tiers :
               Redirects(tiers[u].map[j])' => Ahead(Rest(todo), j, u)
      BY <1>1, <2>3, <2>6 DEF LiveAt, Live, Fresh, StaleServable, Redirects
    <2>8. MostSpecificAnswer'
      BY <1>7, <2>1 DEF MostSpecificAnswer, NoAnswer
    <2> HIDE DEF todo
    <2> QED BY <1>7, <2>1, <2>4, <2>7, <2>8 DEF SearchInv, A
  <1>12. CASE Redirects(e) /\ Return("cname", k)
               /\ \E sc \in Scores : tiers' = Place(Take(tiers, t, k), [e EXCEPT !.score = sc])
    <2>1. PICK sc \in Scores : tiers' = Place(Take(tiers, t, k), [e EXCEPT !.score = sc])
      BY <1>12
    <2> DEFINE g == [e EXCEPT !.score = sc]
    <2>2. g \in Entry /\ g.key = k /\ g.expires = e.expires /\ g.data = e.data
      BY <1>9 DEF Entry
    <2> HIDE DEF g
    <2>3. Falls(tiers', tiers, g)
      BY <1>2, <1>3, <2>1, <2>2, MoveFalls DEF g
    <2>4. \A u \in Tiers, j \in Keys :
            /\ LiveAt(tiers', u, j) => \E w \in Tiers : LiveAt(tiers, w, j)
            /\ Redirects(tiers'[u].map[j]) => \E w \in Tiers : Redirects(tiers[w].map[j])
      BY <1>3, <1>4, <2>2, <2>3, MovedLives
    <2>5. LiveKeys' \cap Scopes(walk.key) = {}
      BY <1>1, <1>7, <1>10, <2>4, PrimedKeys
    <2>6. ASSUME NEW j \in RedirectKeys', j \in Scopes(A)
          PROVE  ~(Len(j[3]) > Len(k[3]))
      <3>1. j \in Keys /\ \E w \in Tiers : Redirects(tiers'[w].map[j])
        BY <1>1, <2>6, PrimedKeys
      <3>2. PICK w \in Tiers : Redirects(tiers[w].map[j])
        BY <2>4, <3>1
      <3>3. Ahead(todo, j, w) /\ tiers[w].map[j] # NoEntry
        BY <1>7, <2>6, <3>2 DEF Redirects
      <3> QED BY <1>1, <1>7, <3>1, <3>3, NarrowestFirst DEF k
    <2>7. /\ answer'.key = walk.key /\ answer'.hit = k /\ answer'.kind = "cname"
          /\ walk' = NoWalk
      BY <1>12 DEF Return
    <2>8. Narrower(RedirectKeys' \cap Scopes(A), k) = {}
      BY <2>6 DEF Narrower
    <2>9. MostSpecificAnswer'
      BY <1>2, <1>8, <1>10, <2>5, <2>7, <2>8 DEF MostSpecificAnswer
    <2> QED BY <1>1, <1>2, <2>7, <2>9 DEF SearchInv, NoWalk
  <1> QED BY <1>5, <1>11, <1>12

LEMMA LookupSearch == ASSUME CInv, SearchInv, NEW k \in Asked, Lookup(k) PROVE SearchInv'
  <1>1. k \in Keys
    BY CacheAssumption DEF Keys
  <1>2. /\ walk'.phase = "exact" /\ walk'.key = k /\ walk'.todo = Visits(k)
        /\ answer' = NoAnswer
    BY DEF Lookup
  <1>3. Route(Visits(k), Scopes(k)) /\ \A j \in Scopes(k), t \in Tiers : Ahead(Visits(k), j, t)
    BY <1>1, VisitsRoute
  <1>4. MostSpecificAnswer'
    BY <1>2 DEF MostSpecificAnswer, NoAnswer
  <1> QED BY <1>2, <1>3, <1>4 DEF SearchInv

(* No visit left of the exact type: there is no live entry of it. *)
LEMMA TryCnameSearch == ASSUME CInv, SearchInv, TryCname PROVE SearchInv'
  <1> DEFINE A == WithType(walk.key, "CNAME")
  <1>1. /\ walk.phase = "exact" /\ Hits(walk.todo) = {}
        /\ UNCHANGED <<tiers, nx, now, answer, disk, loading>>
    BY DEF TryCname
  <1>2. walk \in Walks /\ walk.key \in Keys
    BY <1>1 DEF CInv, WalkInv
  <1>3. \A k \in Scopes(walk.key), t \in Tiers : ~LiveAt(tiers, t, k)
    <2> SUFFICES ASSUME NEW k \in Scopes(walk.key), NEW t \in Tiers, LiveAt(tiers, t, k)
                 PROVE  FALSE
      OBVIOUS
    <2>1. Ahead(walk.todo, k, t) /\ tiers[t].map[k] # NoEntry
      BY <1>1 DEF SearchInv, LiveAt
    <2> QED BY <1>1, <2>1 DEF Ahead, Hits
  <1>4. \A k \in Scopes(walk.key), t \in Tiers : ~LiveAt(tiers, t, k)'
    BY <1>1, <1>3 DEF LiveAt, Live, Fresh, StaleServable
  <1>5. answer' = NoAnswer /\ MostSpecificAnswer'
    BY <1>1 DEF SearchInv, MostSpecificAnswer, NoAnswer
  <1>6. CASE walk.key[2] \in {"CNAME", "ANY"}
    <2>1. walk'.phase = "nx" /\ walk'.key = walk.key
      BY <1>2, <1>6 DEF TryCname, Walks
    <2> QED BY <1>4, <1>5, <1>6, <2>1 DEF SearchInv
  <1>7. CASE walk.key[2] \notin {"CNAME", "ANY"}
    <2>1. walk'.phase = "cname" /\ walk'.key = walk.key /\ walk'.todo = Visits(A)
      BY <1>2, <1>7 DEF TryCname, Walks
    <2>2. A \in Keys
      BY <1>2, CoveringScopes
    <2>3. Route(Visits(A), Scopes(A)) /\ \A j \in Scopes(A), t \in Tiers : Ahead(Visits(A), j, t)
      BY <2>2, VisitsRoute
    <2> QED BY <1>4, <1>5, <2>1, <2>3 DEF SearchInv
  <1> QED BY <1>6, <1>7

(* NXDOMAIN or a miss: nothing exact is live and nothing redirects. *)
LEMMA TryNxSearch == ASSUME CInv, SearchInv, TryNx PROVE SearchInv'
  <1> DEFINE A == WithType(walk.key, "CNAME")
             kind == IF NxFresh(walk.key[1]) THEN "nx" ELSE "miss"
  <1>1. /\ walk.phase = "nx" \/ (walk.phase = "cname" /\ Hits(walk.todo) = {})
        /\ Return(kind, walk.key) /\ UNCHANGED <<tiers, nx, now, disk, loading>>
    BY DEF TryNx
  <1>2. walk.key \in Keys /\ loading = {}
    BY <1>1 DEF CInv, WalkInv
  <1>3. \A k \in Scopes(walk.key), t \in Tiers : ~LiveAt(tiers, t, k)
    BY <1>1 DEF SearchInv
  <1>4. walk.key[2] = "ANY" \/ \A k \in Scopes(A), t \in Tiers : ~Redirects(tiers[t].map[k])
    <2>1. CASE walk.phase = "cname" /\ Hits(walk.todo) = {}
      <3> SUFFICES ASSUME NEW k \in Scopes(A), NEW t \in Tiers, Redirects(tiers[t].map[k])
                   PROVE  FALSE
        OBVIOUS
      <3>1. Ahead(walk.todo, k, t) /\ tiers[t].map[k] # NoEntry
        BY <2>1 DEF SearchInv, Redirects
      <3> QED BY <2>1, <3>1 DEF Ahead, Hits
    <2>2. CASE walk.phase = "nx" /\ walk.key[2] # "ANY"
      <3>1. walk.key[2] = "CNAME"
        BY <2>2 DEF SearchInv
      <3>2. A = walk.key
        BY <1>2, <3>1, CoveringScopes
      <3> HIDE DEF A
      <3> QED BY <1>3, <3>2, RedirectsLive
    <2> QED BY <1>1, <2>1, <2>2
  <1>5. /\ Covering(walk.key, walk.key[2]) = Scopes(walk.key)
        /\ Covering(walk.key, "CNAME") = Scopes(A)
    BY <1>2, CoveringScopes
  <1>6. LiveKeys' \cap Scopes(walk.key) = {}
    BY <1>1, <1>3, PrimedKeys
  <1>7. walk.key[2] = "ANY" \/ RedirectKeys' \cap Scopes(A) = {}
    BY <1>1, <1>4, PrimedKeys
  <1>8. /\ answer'.key = walk.key /\ answer'.kind \in {"nx", "miss"} /\ walk' = NoWalk
        /\ answer'.kind = "nx" <=> NxFresh(walk.key[1])
    BY <1>1 DEF Return
  <1>9. NxFresh(walk.key[1]) <=> (now < nx[walk.key[1]] /\ walk.key[1] \in DOMAIN nx)
    BY DEF NxFresh
  <1> HIDE DEF A
  <1>10. MostSpecificAnswer'
    BY <1>1, <1>5, <1>6, <1>7, <1>8, <1>9 DEF MostSpecificAnswer, NxFresh
  <1> QED BY <1>1, <1>2, <1>8, <1>10 DEF SearchInv, NoWalk

(* Everything else runs between lookups and leaves no answer. *)
LEMMA BetweenSearch ==
    ASSUME answer' = NoAnswer, walk'.phase = "idle" PROVE SearchInv'
  <1>1. MostSpecificAnswer'
    BY DEF MostSpecificAnswer, NoAnswer
  <1> QED BY <1>1 DEF SearchInv

LEMMA SearchNext == CInv /\ SearchInv /\ [Next]_vars => SearchInv'
  <1> SUFFICES ASSUME CInv, SearchInv, [Next]_vars PROVE SearchInv'
    OBVIOUS
  <1>1. CASE UNCHANGED vars
    BY <1>1 DEF vars, SearchInv, MostSpecificAnswer, LiveKeys, RedirectKeys, LiveAt, Redirects,
                Live, Fresh, StaleServable, NxFresh
  <1>2. CASE \E k \in Asked : Lookup(k)
    BY <1>2, LookupSearch
  <1>3. CASE ExactVisit \/ TryCname \/ CnameVisit \/ TryNx
    BY <1>3, ExactVisitSearch, TryCnameSearch, CnameVisitSearch, TryNxSearch
  <1>4. CASE Between
    BY <1>4, BetweenSearch DEF Between, Idle
  <1>5. CASE \/ \E k \in Asked, ttl \in Ttls, sc \in Scores :
                  \/ \E d \in Data, v \in Verdicts : InsertPositive(k, d, ttl, v, sc)
                  \/ InsertNegative(k, ttl, sc)
             \/ \E n \in NxNames, ttl \in Ttls : InsertNxdomain(n, ttl)
             \/ \E k \in Asked, sc \in Scores : Rescore(k, sc)
             \/ Sweep \/ Tick \/ SaveCache
    BY <1>4, <1>5 DEF InsertPositive, InsertNegative, InsertNxdomain, Rescore, Sweep, Tick,
                      SaveCache
  <1>6. CASE Restart
    BY <1>6, BetweenSearch, NoWalkOK DEF Restart
  <1>7. CASE RestoreEntry
    <2>1. answer' = answer /\ walk' = walk /\ loading # {}
      BY <1>7 DEF RestoreEntry
    <2>2. answer = NoAnswer /\ walk.phase = "idle"
      BY <2>1 DEF SearchInv, CInv
    <2> QED BY <2>1, <2>2, BetweenSearch
  <1> QED BY <1>1, <1>2, <1>3, <1>5, <1>6, <1>7 DEF Next

(* A lookup answers from the narrowest network that contains the requester and
   has a live answer, prefers an exact answer to a CNAME and a CNAME to
   NXDOMAIN, and misses only when there is nothing: the entries its visits
   demote fall one tier, which the order of the visits has still ahead. *)
THEOREM NarrowestAnswers == Spec => []MostSpecificAnswer
  <1>1. Init => SearchInv
    <2> SUFFICES ASSUME Init PROVE SearchInv
      OBVIOUS
    <2>1. answer.kind = "none" /\ walk.phase = "idle" /\ loading = {}
      BY DEF Init, NoAnswer, NoWalk
    <2>2. MostSpecificAnswer
      BY <2>1 DEF MostSpecificAnswer
    <2> QED BY <2>1, <2>2 DEF SearchInv
  <1>2. SearchInv => MostSpecificAnswer
    BY DEF SearchInv
  <1> QED BY <1>1, <1>2, SearchNext, CacheInductive, PTL DEF Spec

=============================================================================
