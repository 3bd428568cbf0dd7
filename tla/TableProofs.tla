----------------------------- MODULE TableProofs -----------------------------
(***************************************************************************)
(* Machine-checked proofs about four of the tables all request threads     *)
(* share: the fake-IP pool, for any names, address range, cap, lifetime    *)
(* and snapshot; the client rate limiter, for any clients, rates and table *)
(* size; the alias graph, for any keys, cap and age; and the upstream      *)
(* selector, for any servers, histories, draws and bands.  The clock may   *)
(* be set back at any time.  Last, about the server in front of them, with *)
(* its datagram queue and its count of connections, for any threads,       *)
(* listeners and limits and a shutdown at any moment.                      *)
(***************************************************************************)
EXTENDS FakeIp, RateLimiter, AliasGraph, Upstream, Server, FiniteSetTheorems,
        NaturalsInduction, SequenceTheorems, WellFoundedInduction, TLAPS

-----------------------------------------------------------------------------
(* Numbers and finite sets *)

(* A set of natural numbers has a least element. *)
LEMMA LeastExists ==
    ASSUME NEW T \in SUBSET Nat, T # {}
    PROVE  \E m \in T : \A j \in T : m <= j
  <1> DEFINE R == {p \in Nat \X Nat : p[1] < p[2]}
  <1>1. IsWellFoundedOn(R, Nat)
    BY NatLessThanWellFounded, Zenon DEF OpToRel
  <1>2. \A j, m \in Nat : <<j, m>> \notin R => m <= j
    OBVIOUS
  <1> HIDE DEF R
  <1>3. PICK m \in T : \A j \in T : <<j, m>> \notin R
    BY <1>1, WFMin
  <1> QED BY <1>2, <1>3

(* A sum of two residues wraps at most once. *)
LEMMA WrapsOnce ==
    ASSUME NEW s \in Nat \ {0}, NEW x \in Nat, x < 2 * s
    PROVE  x % s = IF x < s THEN x ELSE x - s
  <1>1. CASE x < s
    BY <1>1
  <1>2. CASE x >= s
    BY <1>2
  <1> QED BY <1>1, <1>2

(* The allocatable range is finite and as large as Size says. *)
LEMMA RangeSize ==
    /\ Size \in Nat \ {0} /\ Cap \in 1 .. Size
           /\ IsFiniteSet(KeyRange) /\ Cardinality(KeyRange) = Size
  <1>1. First \in Int /\ Last \in Int /\ First <= Last /\ MaxEntries \in Nat \ {0}
    BY FakeIpAssumption
  <1>2. IsFiniteSet(KeyRange) /\ Cardinality(KeyRange) = Last - First + 1
    BY <1>1, FS_Interval DEF KeyRange
  <1> QED BY <1>1, <1>2 DEF Size, Cap

-----------------------------------------------------------------------------
(* The fake-IP pool: eviction *)

(* evict_for_capacity takes some of the keys it was given, and at least one
   unless there are none: the last stage has an oldest key to take. *)
LEMMA EvictionFrees ==
    ASSUME NEW dom, NEW stamp, \A k \in dom : stamp[k] \in Nat, NEW horizon, NEW stride
    PROVE  /\ EvictForCapacity(dom, stamp, horizon, stride) \subseteq dom
           /\ dom # {} => EvictForCapacity(dom, stamp, horizon, stride) # {}
  <1>1. dom # {} => OldestKey(dom, stamp) \in dom
    <2> SUFFICES ASSUME dom # {} PROVE OldestKey(dom, stamp) \in dom
      OBVIOUS
    <2> DEFINE T == {stamp[k] : k \in dom}
    <2>1. T \in SUBSET Nat /\ T # {}
      OBVIOUS
    <2>2. PICK m \in T : \A j \in T : m <= j
      <3> HIDE DEF T
      <3> QED BY <2>1, LeastExists
    <2>3. \E k \in dom : \A j \in dom : stamp[k] <= stamp[j]
      BY <2>2
    <2> QED BY <2>3 DEF OldestKey
  <1> QED BY <1>1 DEF EvictForCapacity, ExpiredKeys, StridedKeys

(* Stale entries are chosen first: a key whose stamp is within the horizon is
   evicted only when all of them are. *)
LEMMA StaleFirst ==
    ASSUME NEW dom, NEW stamp, NEW horizon, NEW stride,
           ExpiredKeys(dom, stamp, horizon) # {}
    PROVE  EvictForCapacity(dom, stamp, horizon, stride) = ExpiredKeys(dom, stamp, horizon)
  BY DEF EvictForCapacity, ExpiredKeys

(* What stays when room is made is part of the table, and fits the range with
   one key to spare. *)
LEMMA RoomFits ==
    ASSUME FakeTypeOK
    PROVE  /\ Room \subseteq DOMAIN byKey /\ Room \subseteq KeyRange
           /\ IsFiniteSet(Room) /\ Cardinality(Room) \in Nat /\ Cardinality(Room) < Size
  <1> DEFINE stamp == [k \in DOMAIN byKey |-> byKey[k].last]
             gone == EvictForCapacity(DOMAIN byKey, stamp, Cutoff, FakeStride)
  <1>1. DOMAIN byKey \in SUBSET KeyRange
    BY DEF FakeTypeOK
  <1>2. /\ IsFiniteSet(DOMAIN byKey) /\ Cardinality(DOMAIN byKey) \in Nat
        /\ Cardinality(DOMAIN byKey) <= Size
    BY <1>1, RangeSize, FS_Subset, FS_CardinalityType
  <1>3. \A k \in DOMAIN byKey : stamp[k] \in Nat
    BY DEF FakeTypeOK
  <1>4. gone \subseteq DOMAIN byKey /\ (DOMAIN byKey # {} => gone # {})
    <2> HIDE DEF stamp
    <2> QED BY <1>3, EvictionFrees
  <1>5. CASE Cardinality(DOMAIN byKey) < Cap
    <2>1. Room = DOMAIN byKey
      BY <1>5 DEF Room
    <2> QED BY <1>1, <1>2, <1>5, <2>1, RangeSize
  <1>6. CASE ~(Cardinality(DOMAIN byKey) < Cap)
    <2>1. Room = DOMAIN byKey \ gone
      BY <1>6 DEF Room
    <2>2. DOMAIN byKey # {}
      BY <1>6, FS_EmptySet, RangeSize
    <2> HIDE DEF gone
    <2>3. Room \in SUBSET DOMAIN byKey /\ Room # DOMAIN byKey
      BY <1>4, <2>1, <2>2
    <2>4. /\ IsFiniteSet(Room) /\ Cardinality(Room) \in Nat
          /\ Cardinality(Room) <= Cardinality(DOMAIN byKey)
          /\ Cardinality(Room) # Cardinality(DOMAIN byKey)
      BY <1>2, <2>3, FS_Subset, FS_CardinalityType
    <2> QED BY <1>1, <1>2, <2>3, <2>4, RangeSize
  <1> QED BY <1>5, <1>6

-----------------------------------------------------------------------------
(* The probe *)

(* The keys advance returns lie in the range, and no two of a round are the
   same. *)
LEMMA ProbeFacts ==
    ASSUME FakeTypeOK
    PROVE  /\ \A i \in Nat : Probe(i) \in KeyRange
           /\ \A i, j \in 0 .. Size - 1 : Probe(i) = Probe(j) => i = j
  <1> DEFINE a == next - First
  <1>1. First \in Nat /\ Size \in Nat \ {0} /\ Last = First + Size - 1
    BY RangeSize, FakeIpAssumption DEF Size
  <1>2. a \in 0 .. Size - 1
    BY <1>1 DEF FakeTypeOK, KeyRange
  <1>3. \A i \in Nat : Probe(i) = First + ((a + i) % Size)
    BY DEF Probe, FakeTypeOK
  <1> HIDE DEF a
  <1>4. \A i \in Nat : (a + i) % Size \in 0 .. Size - 1
    BY <1>1, <1>2
  <1>5. \A i \in Nat : Probe(i) \in KeyRange
    BY <1>1, <1>3, <1>4 DEF KeyRange
  <1>6. \A i \in 0 .. Size - 1 : (a + i) % Size = IF a + i < Size THEN a + i ELSE a + i - Size
    <2> TAKE i \in 0 .. Size - 1
    <2>1. a + i \in Nat /\ a + i < 2 * Size
      BY <1>1, <1>2
    <2> DEFINE x == a + i
    <2> HIDE DEF x
    <2>2. x % Size = IF x < Size THEN x ELSE x - Size
      <3>1. x \in Nat /\ x < 2 * Size
        BY <2>1 DEF x
      <3> QED BY <1>1, <3>1, WrapsOnce
    <2> QED BY <1>1, <1>2, <2>1, <2>2 DEF x
  <1>7. ASSUME NEW i \in 0 .. Size - 1, NEW j \in 0 .. Size - 1, Probe(i) = Probe(j)
        PROVE  i = j
    <2>1. (a + i) % Size = (a + j) % Size
      BY <1>1, <1>3, <1>4, <1>7
    <2> QED BY <1>1, <1>2, <1>6, <2>1
  <1> QED BY <1>5, <1>7

(* take_key's pigeonhole argument: len + 1 different candidates cannot all be
   taken. *)
LEMMA ProbeMeetsFree ==
    ASSUME FakeTypeOK, NEW occupied, IsFiniteSet(occupied),
           Cardinality(occupied) \in Nat, Cardinality(occupied) < Size
    PROVE  FreeProbes(occupied) # {}
  <1> SUFFICES ASSUME FreeProbes(occupied) = {} PROVE FALSE
    OBVIOUS
  <1> DEFINE n == Cardinality(occupied)
             tries == 0 .. n
             f == [i \in tries |-> Probe(i)]
  <1>1. \A i \in tries : Probe(i) \in occupied
    BY DEF FreeProbes
  <1>2. f \in [tries -> occupied]
    BY <1>1
  <1>3. \A i \in tries : i \in 0 .. Size - 1
    BY RangeSize
  <1>4. \A x, y \in tries : f[x] = f[y] => x = y
    BY <1>3, ProbeFacts
  <1>5. IsFiniteSet(tries) /\ Cardinality(tries) = n + 1
    BY FS_Interval
  <1> HIDE DEF f, tries
  <1>6. \E x, y \in tries : x # y /\ f[x] = f[y]
    BY <1>2, <1>5, FS_PigeonHole
  <1> QED BY <1>4, <1>6

(* The key take_key returns is of the range and free. *)
LEMMA FirstFreeIsFree ==
    ASSUME FakeTypeOK, NEW occupied, FreeProbes(occupied) # {}
    PROVE  /\ FirstFree(occupied) \in Nat
           /\ Probe(FirstFree(occupied)) \in KeyRange \ occupied
           /\ Probe(FirstFree(occupied) + 1) \in KeyRange
  <1>1. FreeProbes(occupied) \in SUBSET Nat
    BY DEF FreeProbes
  <1>2. \E i \in FreeProbes(occupied) : \A j \in FreeProbes(occupied) : i <= j
    BY <1>1, LeastExists
  <1>3. FirstFree(occupied) \in FreeProbes(occupied)
    BY <1>2 DEF FirstFree
  <1>4. FirstFree(occupied) \in Nat /\ Probe(FirstFree(occupied)) \notin occupied
    BY <1>1, <1>3 DEF FreeProbes
  <1>5. FirstFree(occupied) + 1 \in Nat
    BY <1>4
  <1> QED BY <1>4, <1>5, ProbeFacts

-----------------------------------------------------------------------------
(* The index *)

(* The inductive invariant: the two maps are inverse, and byName is nothing but
   a function (which a mapping restored in place relies on). *)
PoolInv == Reversible /\ byName = [n \in DOMAIN byName |-> byName[n]]

(* Rebuilding the index over the keys that stay only drops names: the others
   keep their address, and it is one that stays. *)
LEMMA IndexRestricts ==
    ASSUME PoolInv, NEW S \in SUBSET DOMAIN byKey
    PROVE  /\ DOMAIN Index(KeepKeys(S)) \subseteq DOMAIN byName
           /\ \A n \in DOMAIN byName : n \in DOMAIN Index(KeepKeys(S)) <=> byName[n] \in S
           /\ \A n \in DOMAIN Index(KeepKeys(S)) : Index(KeepKeys(S))[n] = byName[n]
           /\ Index(KeepKeys(S)) = [n \in {m \in DOMAIN byName : byName[m] \in S} |-> byName[n]]
  <1> DEFINE f == KeepKeys(S)
             names == {m \in DOMAIN byName : byName[m] \in S}
             pick(n) == CHOOSE k \in DOMAIN f : f[k].name = n
  <1>1. DOMAIN f = S /\ \A k \in S : f[k] = byKey[k]
    BY DEF KeepKeys
  <1>2. { f[k].name : k \in DOMAIN f } = names
    <2>1. \A k \in S : byKey[k].name \in names
      BY DEF PoolInv, Reversible
    <2>2. \A m \in names : byName[m] \in S /\ byKey[byName[m]].name = m
      BY DEF PoolInv, Reversible
    <2> QED BY <1>1, <2>1, <2>2
  <1>3. \A n \in names : pick(n) = byName[n]
    <2> TAKE n \in names
    <2>1. byName[n] \in S /\ byKey[byName[n]].name = n
      BY DEF PoolInv, Reversible
    <2>2. \A k \in S : byKey[k].name = n => k = byName[n]
      BY DEF PoolInv, Reversible
    <2> QED BY <1>1, <2>1, <2>2
  <1>4. Index(f) = [n \in names |-> byName[n]]
    <2>1. Index(f) = [n \in names |-> pick(n)]
      BY <1>2 DEF Index
    <2> QED BY <1>3, <2>1
  <1> QED BY <1>4

-----------------------------------------------------------------------------
(* Every operation keeps the two maps inverse *)

LEMMA PoolInit ==
    ASSUME FakeInit
    PROVE  PoolInv
  <1>1. DOMAIN byKey = {} /\ DOMAIN byName = {} /\ byName = <<>>
    BY DEF FakeInit
  <1>2. next \in KeyRange /\ now \in Nat
    BY FakeIpAssumption DEF FakeInit, KeyRange
  <1>3. byName = [n \in DOMAIN byName |-> byName[n]]
    BY <1>1
  <1> QED BY <1>1, <1>2, <1>3 DEF PoolInv, Reversible, FakeTypeOK

(* Again and Reverse: only a time stamp moves. *)
LEMMA PoolTouchKeeps ==
    ASSUME PoolInv, NEW k \in DOMAIN byKey, byKey' = [byKey EXCEPT ![k].last = now],
           UNCHANGED <<now, byName, next>>
    PROVE  PoolInv'
  <1>1. /\ DOMAIN byKey' = DOMAIN byKey
        /\ \A q \in DOMAIN byKey : byKey'[q] \in [name : Names, last : Nat] /\ byKey'[q].name = byKey[q].name
    BY DEF PoolInv, Reversible, FakeTypeOK
  <1> QED BY <1>1 DEF PoolInv, Reversible, FakeTypeOK

(* What one allocation leaves: the mappings in Room, and the new one at a key
   nobody holds. *)
LEMMA AllocateFacts ==
    ASSUME PoolInv, NEW n \in Names, Allocate(n)
    PROVE  \E k \in KeyRange \ Room :
             LET kept == {m \in DOMAIN byName : byName[m] \in Room}
             IN  /\ DOMAIN byKey' = Room \cup {k}
                 /\ \A q \in Room : byKey'[q] = byKey[q]
                 /\ byKey'[k] = [name |-> n, last |-> now]
                 /\ byName' = [m \in kept \cup {n} |-> IF m = n THEN k ELSE byName[m]]
                 /\ next' \in KeyRange /\ now' = now /\ n \notin DOMAIN byName
  <1> DEFINE i == FirstFree(Room)
             k == Probe(i)
             kept == {m \in DOMAIN byName : byName[m] \in Room}
             idx == IF Room = DOMAIN byKey THEN byName ELSE Index(KeepKeys(Room))
  <1>1. FakeTypeOK
    BY DEF PoolInv, Reversible
  <1>2. k \in KeyRange \ Room /\ Probe(i + 1) \in KeyRange
    BY <1>1, FirstFreeIsFree DEF Allocate
  <1>3. Room \in SUBSET DOMAIN byKey
    BY <1>1, RoomFits
  <1>4. idx = [m \in kept |-> byName[m]]
    <2>1. CASE Room = DOMAIN byKey
      <3>1. kept = DOMAIN byName
        BY <2>1 DEF PoolInv, Reversible
      <3> QED BY <2>1, <3>1 DEF PoolInv
    <2>2. CASE Room # DOMAIN byKey
      BY <1>3, <2>2, IndexRestricts
    <2> QED BY <2>1, <2>2
  <1>5. byKey' = [q \in Room \cup {k} |-> IF q = k THEN [name |-> n, last |-> now] ELSE byKey[q]]
    BY DEF Allocate
  <1>6. byName' = [m \in DOMAIN idx \cup {n} |-> IF m = n THEN k ELSE idx[m]]
    BY DEF Allocate
  <1>7. next' = Probe(i + 1) /\ now' = now /\ n \notin DOMAIN byName
    BY DEF Allocate
  <1> HIDE DEF k, idx, i
  <1>8. byName' = [m \in kept \cup {n} |-> IF m = n THEN k ELSE byName[m]]
    BY <1>4, <1>6
  <1>9. /\ DOMAIN byKey' = Room \cup {k}
        /\ \A q \in Room : byKey'[q] = byKey[q]
        /\ byKey'[k] = [name |-> n, last |-> now]
    BY <1>2, <1>5
  <1> QED BY <1>2, <1>7, <1>8, <1>9

LEMMA AllocateKeeps ==
    ASSUME PoolInv, NEW n \in Names, Allocate(n)
    PROVE  PoolInv'
  <1> DEFINE kept == {m \in DOMAIN byName : byName[m] \in Room}
  <1>1. PICK k \in KeyRange \ Room :
             /\ DOMAIN byKey' = Room \cup {k}
             /\ \A q \in Room : byKey'[q] = byKey[q]
             /\ byKey'[k] = [name |-> n, last |-> now]
             /\ byName' = [m \in kept \cup {n} |-> IF m = n THEN k ELSE byName[m]]
             /\ next' \in KeyRange /\ now' = now /\ n \notin DOMAIN byName
    BY AllocateFacts
  <1>2. FakeTypeOK /\ Room \subseteq DOMAIN byKey
    BY RoomFits DEF PoolInv, Reversible
  <1>3. /\ DOMAIN byName' = kept \cup {n} /\ byName'[n] = k
        /\ \A m \in kept : byName'[m] = byName[m] /\ byName[m] \in Room
    BY <1>1
  <1>4. FakeTypeOK'
    BY <1>1, <1>2, <1>3 DEF FakeTypeOK
  <1>5. \A m \in kept : byKey[byName[m]].name = m
    BY DEF PoolInv, Reversible
  <1>6. \A q \in Room : byKey[q].name \in kept /\ byName[byKey[q].name] = q
    BY <1>2 DEF PoolInv, Reversible
  <1>7. Reversible'
    <2> HIDE DEF kept
    <2>1. \A m \in DOMAIN byName' : byName'[m] \in DOMAIN byKey' /\ byKey'[byName'[m]].name = m
      BY <1>1, <1>3, <1>5
    <2>2. \A q \in DOMAIN byKey' : byKey'[q].name \in DOMAIN byName' /\ byName'[byKey'[q].name] = q
      BY <1>1, <1>3, <1>6
    <2> QED BY <1>4, <2>1, <2>2 DEF Reversible
  <1> QED BY <1>1, <1>7 DEF PoolInv

(* Dropping keys together with the names that hold them: cleanup. *)
LEMMA CleanupKeeps ==
    ASSUME PoolInv, Cleanup
    PROVE  PoolInv'
  <1> DEFINE S == { k \in DOMAIN byKey : byKey[k].last >= Cutoff }
             names == {m \in DOMAIN byName : byName[m] \in S}
  <1>1. byKey' = KeepKeys(S) /\ byName' = Index(KeepKeys(S)) /\ UNCHANGED <<now, next>>
    BY DEF Cleanup
  <1>2. S \in SUBSET DOMAIN byKey
    OBVIOUS
  <1> HIDE DEF S
  <1>3. byName' = [m \in names |-> byName[m]]
    BY <1>1, <1>2, IndexRestricts
  <1>4. DOMAIN byKey' = S /\ \A k \in S : byKey'[k] = byKey[k]
    BY <1>1 DEF KeepKeys
  <1> QED BY <1>1, <1>2, <1>3, <1>4 DEF PoolInv, Reversible, FakeTypeOK

LEMMA RestoreKeeps ==
    ASSUME PoolInv, NEW s \in Snapshot, Restore(s[1], s[2])
    PROVE  PoolInv'
  <1> DEFINE n == s[1]
             k == s[2]
  <1>1. n \in Names /\ k \in KeyRange
    BY FakeIpAssumption DEF Restore
  <1>2. /\ k \in DOMAIN byKey => byKey[k].name = n
        /\ n \in DOMAIN byName => byName[n] = k
        /\ byName' = [m \in DOMAIN byName \cup {n} |-> IF m = n THEN k ELSE byName[m]]
        /\ byKey' = [q \in DOMAIN byKey \cup {k} |-> IF q = k THEN [name |-> n, last |-> now] ELSE byKey[q]]
        /\ UNCHANGED <<now, next>>
    BY DEF Restore
  <1> HIDE DEF n, k
  <1>3. FakeTypeOK'
    BY <1>1, <1>2 DEF PoolInv, Reversible, FakeTypeOK
  <1>4. \A m \in DOMAIN byName' : byName'[m] \in DOMAIN byKey' /\ byKey'[byName'[m]].name = m
    BY <1>2 DEF PoolInv, Reversible
  <1>5. \A q \in DOMAIN byKey' : byKey'[q].name \in DOMAIN byName' /\ byName'[byKey'[q].name] = q
    BY <1>2 DEF PoolInv, Reversible
  <1> QED BY <1>2, <1>3, <1>4, <1>5 DEF PoolInv, Reversible

LEMMA ReleaseKeeps ==
    ASSUME PoolInv, NEW n \in Names, Release(n)
    PROVE  PoolInv'
  <1>1. /\ n \in DOMAIN byName
        /\ byName' = [m \in DOMAIN byName \ {n} |-> byName[m]]
        /\ byKey' = [k \in DOMAIN byKey \ {byName[n]} |-> byKey[k]]
        /\ UNCHANGED <<now, next>>
    BY DEF Release, KeepKeys
  <1>2. FakeTypeOK'
    BY <1>1 DEF PoolInv, Reversible, FakeTypeOK
  <1>3. \A m \in DOMAIN byName' : byName'[m] \in DOMAIN byKey' /\ byKey'[byName'[m]].name = m
    BY <1>1 DEF PoolInv, Reversible
  <1>4. \A q \in DOMAIN byKey' : byKey'[q].name \in DOMAIN byName' /\ byName'[byKey'[q].name] = q
    BY <1>1 DEF PoolInv, Reversible
  <1> QED BY <1>1, <1>2, <1>3, <1>4 DEF PoolInv, Reversible

LEMMA PoolStep ==
    ASSUME PoolInv, [FakeNext]_fakeVars
    PROVE  PoolInv'
  <1>1. ASSUME NEW n \in Names, Again(n) PROVE PoolInv'
    <2>1. byName[n] \in DOMAIN byKey
      BY <1>1 DEF Again, PoolInv, Reversible
    <2> QED BY <1>1, <2>1, PoolTouchKeeps DEF Again
  <1>2. ASSUME NEW n \in Names, Allocate(n) PROVE PoolInv'
    BY <1>2, AllocateKeeps
  <1>3. ASSUME NEW n \in Names, Release(n) PROVE PoolInv'
    BY <1>3, ReleaseKeeps
  <1>4. ASSUME NEW k \in KeyRange, Reverse(k) PROVE PoolInv'
    BY <1>4, PoolTouchKeeps DEF Reverse
  <1>5. ASSUME NEW s \in Snapshot, Restore(s[1], s[2]) PROVE PoolInv'
    BY <1>5, RestoreKeeps
  <1>6. CASE Cleanup
    BY <1>6, CleanupKeeps
  <1>7. CASE Clear
    <2>1. DOMAIN byKey' = {} /\ DOMAIN byName' = {} /\ byName' = <<>>
      BY <1>7 DEF Clear
    <2>2. byName' = [n \in DOMAIN byName' |-> byName'[n]]
      BY <2>1
    <2> QED BY <1>7, <2>1, <2>2 DEF Clear, PoolInv, Reversible, FakeTypeOK
  <1>8. CASE FakeClock
    BY <1>8, FakeIpAssumption DEF FakeClock, SetClock, PoolInv, Reversible, FakeTypeOK
  <1>9. CASE UNCHANGED fakeVars
    BY <1>9 DEF fakeVars, PoolInv, Reversible, FakeTypeOK
  <1> QED BY <1>1, <1>2, <1>3, <1>4, <1>5, <1>6, <1>7, <1>8, <1>9 DEF FakeNext

LEMMA PoolInvariance ==
    FakeSpec => []PoolInv
  <1>1. FakeInit => PoolInv
    BY PoolInit
  <1>2. PoolInv /\ [FakeNext]_fakeVars => PoolInv'
    BY PoolStep
  <1> QED BY <1>1, <1>2, PTL DEF FakeSpec

(* Fake-IP addresses are reversible: after any sequence of allocations,
   evictions, clean-ups, restores, releases and clock changes, by_key and
   by_name are each other's inverse. *)
THEOREM MappingsReversible ==
    FakeSpec => []Reversible
  <1>1. PoolInv => Reversible
    BY DEF PoolInv
  <1> QED BY <1>1, PoolInvariance, PTL

(* take_key's error is never met: once reclaim made room, a free key is among
   the first len + 1 candidates, whatever restore put into the pool past its
   cap. *)
THEOREM AllocationNeverFails ==
    FakeSpec => []AllocationSucceeds
  <1>1. PoolInv => AllocationSucceeds
    BY RoomFits, ProbeMeetsFree DEF PoolInv, Reversible, AllocationSucceeds
  <1> QED BY <1>1, PoolInvariance, PTL

-----------------------------------------------------------------------------
(* What a step may drop *)

(* The step FreshGoesLast asks for. *)
FreshStep ==
    ((\E n \in Names : Release(n)) \/ Clear)
    \/ \A k \in Dropped : byKey[k].last >= Cutoff =>
         Cardinality(DOMAIN byKey) >= Cap /\ \A j \in DOMAIN byKey : byKey[j].last >= Cutoff

(* Making room drops what is stale, or, when the pool is full of fresh
   mappings, some of those. *)
LEMMA RoomDropsStale ==
    ASSUME FakeTypeOK, NEW k \in DOMAIN byKey \ Room, byKey[k].last >= Cutoff
    PROVE  Cardinality(DOMAIN byKey) >= Cap /\ \A j \in DOMAIN byKey : byKey[j].last >= Cutoff
  <1> DEFINE stamp == [q \in DOMAIN byKey |-> byKey[q].last]
             old == ExpiredKeys(DOMAIN byKey, stamp, Cutoff)
             gone == EvictForCapacity(DOMAIN byKey, stamp, Cutoff, FakeStride)
  <1>1. Cutoff \in Nat
    BY FakeIpAssumption DEF Cutoff, FakeTypeOK
  <1>2. Cardinality(DOMAIN byKey) \in Nat
    BY RangeSize, FS_Subset, FS_CardinalityType DEF FakeTypeOK
  <1>3. ~(Cardinality(DOMAIN byKey) < Cap) /\ k \in gone
    BY DEF Room
  <1>4. k \notin old
    BY <1>1 DEF ExpiredKeys, FakeTypeOK
  <1>5. old = {}
    <2> HIDE DEF stamp
    <2> QED BY <1>3, <1>4, StaleFirst
  <1>6. \A j \in DOMAIN byKey : byKey[j].last >= Cutoff
    <2> TAKE j \in DOMAIN byKey
    <2>1. byKey[j].last \in Nat /\ stamp[j] = byKey[j].last
      BY DEF FakeTypeOK
    <2>2. ~(stamp[j] < Cutoff)
      <3> HIDE DEF stamp
      <3> QED BY <1>5 DEF ExpiredKeys
    <2> QED BY <1>1, <2>1, <2>2
  <1> QED BY <1>2, <1>3, <1>6, RangeSize

LEMMA StepIsFresh ==
    ASSUME PoolInv, FakeNext
    PROVE  FreshStep
  <1>1. FakeTypeOK
    BY DEF PoolInv, Reversible
  <1>2. ASSUME NEW n \in Names, Again(n) PROVE FreshStep
    <2>1. Dropped = {}
      BY <1>1, <1>2 DEF Again, Dropped, FakeTypeOK
    <2> QED BY <2>1 DEF FreshStep
  <1>3. ASSUME NEW n \in Names, Allocate(n) PROVE FreshStep
    <2>1. Dropped \subseteq DOMAIN byKey \ Room
      BY <1>3, AllocateFacts DEF Dropped
    <2> QED BY <1>1, <2>1, RoomDropsStale DEF FreshStep
  <1>4. ASSUME NEW k \in KeyRange, Reverse(k) PROVE FreshStep
    <2>1. Dropped = {}
      BY <1>1, <1>4 DEF Reverse, Dropped, FakeTypeOK
    <2> QED BY <2>1 DEF FreshStep
  <1>5. ASSUME NEW s \in Snapshot, Restore(s[1], s[2]) PROVE FreshStep
    <2>1. Dropped = {}
      BY <1>1, <1>5 DEF Restore, Dropped, FakeTypeOK
    <2> QED BY <2>1 DEF FreshStep
  <1>6. CASE Cleanup
    <2>1. \A k \in Dropped : k \in DOMAIN byKey /\ ~(byKey[k].last >= Cutoff)
      BY <1>6 DEF Cleanup, KeepKeys, Dropped
    <2> QED BY <2>1 DEF FreshStep
  <1>7. CASE FakeClock
    <2>1. Dropped = {}
      BY <1>7 DEF FakeClock, SetClock, Dropped
    <2> QED BY <2>1 DEF FreshStep
  <1>8. CASE (\E n \in Names : Release(n)) \/ Clear
    BY <1>8 DEF FreshStep
  <1> QED BY <1>2, <1>3, <1>4, <1>5, <1>6, <1>7, <1>8 DEF FakeNext

(* "Stale entries are always chosen first": outside release and clear no step
   drops a mapping used within its lifetime, unless the pool is at its cap and
   every mapping in it is as fresh. *)
THEOREM FreshMappingsGoLast ==
    FakeSpec => FreshGoesLast
  <1>1. PoolInv /\ [FakeNext]_fakeVars => [FreshStep]_fakeVars
    BY StepIsFresh
  <1> QED BY <1>1, PoolInvariance, PTL DEF FakeSpec, FreshGoesLast, FreshStep

-----------------------------------------------------------------------------
(* The space implements the address book *)

LEMMA BookStep ==
    ASSUME PoolInv, [FakeNext]_fakeVars
    PROVE  [Book!Next]_byName
  <1>1. ASSUME NEW n \in Names, Allocate(n) PROVE Book!Next
    <2> DEFINE kept == {m \in DOMAIN byName : byName[m] \in Room}
               S == DOMAIN byName \ kept
    <2>1. PICK k \in KeyRange \ Room :
             /\ byName' = [m \in kept \cup {n} |-> IF m = n THEN k ELSE byName[m]]
             /\ n \notin DOMAIN byName
      BY <1>1, AllocateFacts
    <2>2. S \in SUBSET DOMAIN byName /\ DOMAIN byName \ S = kept
      OBVIOUS
    <2>3. \A m \in kept : byName[m] # k
      BY <2>1
    <2> HIDE DEF S, kept
    <2>4. DOMAIN Book!Without(S) = kept
      BY <2>2 DEF Book!Without
    <2>5. Book!Assign(n, k, S)
      BY <2>1, <2>2, <2>3, <2>4 DEF Book!Assign
    <2> QED BY <2>2, <2>5 DEF Book!Next
  <1>2. ASSUME NEW n \in Names, Release(n) PROVE Book!Next
    <2>1. {n} \in SUBSET DOMAIN byName /\ Book!Forget({n})
      BY <1>2 DEF Release, Book!Forget, Book!Without
    <2> QED BY <2>1 DEF Book!Next
  <1>3. ASSUME NEW s \in Snapshot, Restore(s[1], s[2]) PROVE Book!Next \/ UNCHANGED byName
    <2> DEFINE n == s[1]
               k == s[2]
    <2>1. /\ n \in Names /\ k \in KeyRange
          /\ k \in DOMAIN byKey => byKey[k].name = n
          /\ n \in DOMAIN byName => byName[n] = k
          /\ byName' = [m \in DOMAIN byName \cup {n} |-> IF m = n THEN k ELSE byName[m]]
      BY <1>3, FakeIpAssumption DEF Restore
    <2> HIDE DEF n, k
    <2>2. CASE n \in DOMAIN byName
      <3>1. byName' = [m \in DOMAIN byName |-> byName[m]]
        BY <2>1, <2>2
      <3> QED BY <3>1 DEF PoolInv
    <2>3. CASE n \notin DOMAIN byName
      <3>1. \A m \in DOMAIN byName : byName[m] # k
        BY <2>1, <2>3 DEF PoolInv, Reversible
      <3>2. Book!Assign(n, k, {})
        BY <2>1, <2>3, <3>1 DEF Book!Assign, Book!Without
      <3> QED BY <2>1, <3>2 DEF Book!Next
    <2> QED BY <2>2, <2>3
  <1>4. CASE Cleanup
    <2> DEFINE K == { k \in DOMAIN byKey : byKey[k].last >= Cutoff }
               names == {m \in DOMAIN byName : byName[m] \in K}
               S == DOMAIN byName \ names
    <2>1. K \in SUBSET DOMAIN byKey /\ K # DOMAIN byKey /\ byName' = Index(KeepKeys(K))
      BY <1>4 DEF Cleanup
    <2> HIDE DEF K
    <2>2. byName' = [m \in names |-> byName[m]]
      BY <2>1, IndexRestricts
    <2>3. PICK k \in DOMAIN byKey : k \notin K
      BY <2>1
    <2>4. byKey[k].name \in S
      BY <2>3 DEF PoolInv, Reversible
    <2>5. S \in SUBSET DOMAIN byName /\ S # {} /\ DOMAIN byName \ S = names
      BY <2>4
    <2> HIDE DEF names, S
    <2>6. Book!Forget(S)
      BY <2>2, <2>5 DEF Book!Forget, Book!Without
    <2> QED BY <2>5, <2>6 DEF Book!Next
  <1>5. CASE Clear
    <2>1. byName' = [m \in {} |-> byName[m]]
      BY <1>5 DEF Clear
    <2>2. CASE DOMAIN byName = {}
      <3>1. byName = [m \in {} |-> byName[m]]
        BY <2>2 DEF PoolInv
      <3> QED BY <2>1, <3>1
    <2>3. CASE DOMAIN byName # {}
      <3>1. Book!Forget(DOMAIN byName)
        BY <2>1, <2>3 DEF Book!Forget, Book!Without
      <3> QED BY <3>1 DEF Book!Next
    <2> QED BY <2>2, <2>3
  <1>6. CASE \/ \E n \in Names : Again(n)
             \/ \E k \in KeyRange : Reverse(k)
             \/ FakeClock
             \/ UNCHANGED fakeVars
    BY <1>6 DEF Again, Reverse, FakeClock, SetClock, fakeVars
  <1> QED BY <1>1, <1>2, <1>3, <1>4, <1>5, <1>6 DEF FakeNext

(* The fake-IP space implements the address book: an address, once handed out,
   stays with its name until the name is forgotten, and a forgotten name's
   address is given to one other name at most. *)
THEOREM BookImplemented ==
    FakeSpec => KeepsContract
  <1>1. FakeInit => Book!Init
    BY DEF FakeInit, Book!Init
  <1>2. PoolInv /\ [FakeNext]_fakeVars => [Book!Next]_byName
    BY BookStep
  <1> QED BY <1>1, <1>2, PoolInvariance, PTL DEF FakeSpec, KeepsContract, Book!Spec

-----------------------------------------------------------------------------
(* The rate limiter *)

(* Refilling never takes a bucket over its capacity, gives at most the steady
   rate for the time its mark moved, and never moves the mark back. *)
LEMMA RefillBounded ==
    ASSUME NEW cap \in Nat, NEW rate \in Nat, NEW at \in Nat,
           NEW b \in [tokens : 0 .. cap, last : Nat]
    PROVE  LET r == Refill(b, cap, rate, at)
           IN  /\ r \in [tokens : 0 .. cap, last : Nat]
               /\ r.last >= b.last
               /\ r.tokens <= b.tokens + rate * (r.last - b.last)
  <1> DEFINE r == Refill(b, cap, rate, at)
             level == b.tokens + rate * (at - b.last)
  <1>1. CASE at > b.last
    <2>1. rate * (at - b.last) \in Nat
      BY <1>1
    <2>2. r = [tokens |-> IF level < cap THEN level ELSE cap, last |-> at]
      BY <1>1 DEF Refill
    <2> QED BY <1>1, <2>1, <2>2
  <1>2. CASE ~(at > b.last)
    <2>1. r = b
      BY <1>2 DEF Refill
    <2>2. rate * (b.last - b.last) = 0
      OBVIOUS
    <2> QED BY <2>1, <2>2
  <1> QED BY <1>1, <1>2

(* Time adds up: what accrues over two spans accrues over both together. *)
LEMMA Accrues ==
    ASSUME NEW r \in Nat, NEW a \in Int, NEW b \in Int, NEW c \in Int
    PROVE  r * (a - b) + r * (b - c) = r * (a - c)
  OBVIOUS

(* A bucket's record, and the promise made to one client. *)
Bucket == [tokens : 0 .. Burst, last : Nat]
Promised(b, first, granted) ==
    granted + b.tokens <= Burst + Rate * (b.last - first)

(* Refilling keeps the promise, whatever the clock did. *)
LEMMA RefillKeeps ==
    ASSUME NEW b \in Bucket, NEW at \in Nat,
           NEW first \in Nat, NEW granted \in Nat, Promised(b, first, granted)
    PROVE  /\ Refill(b, Burst, Rate, at) \in Bucket
           /\ Promised(Refill(b, Burst, Rate, at), first, granted)
  <1> DEFINE r == Refill(b, Burst, Rate, at)
  <1>1. Burst \in Nat /\ Rate \in Nat
    BY LimiterAssumption
  <1>2. r \in Bucket /\ r.last >= b.last /\ r.tokens <= b.tokens + Rate * (r.last - b.last)
    BY <1>1, RefillBounded DEF Bucket
  <1> HIDE DEF r
  <1>3. /\ Rate * (r.last - b.last) \in Int /\ Rate * (b.last - first) \in Int
        /\ b.tokens \in Nat /\ r.tokens \in Nat
    BY <1>1, <1>2 DEF Bucket
  <1>4. Rate * (r.last - b.last) + Rate * (b.last - first) = Rate * (r.last - first)
    <2>1. r.last \in Int /\ b.last \in Int /\ first \in Int
      BY <1>2 DEF Bucket
    <2> QED BY <1>1, <2>1, Accrues
  <1>5. Promised(r, first, granted)
    BY <1>1, <1>2, <1>3, <1>4 DEF Promised
  <1> QED BY <1>2, <1>5 DEF r

(* Serving one request keeps the promise: what is granted is paid for. *)
LEMMA ServeKeeps ==
    ASSUME NEW b \in Bucket,
           NEW first \in Nat, NEW granted \in Nat, Promised(b, first, granted)
    PROVE  LET ok  == Grants(b, Token)
               new == IF ok THEN Spend(b, Token) ELSE b
               sum == granted + (IF ok THEN Token ELSE 0)
           IN  new \in Bucket /\ sum \in Nat /\ Promised(new, first, sum)
  <1>1. Token \in Nat /\ Rate \in Nat /\ Burst \in Nat
    BY LimiterAssumption
  <1>2. CASE Grants(b, Token)
    <2>1. b.tokens >= Token
      BY <1>2 DEF Grants
    <2> DEFINE new == Spend(b, Token)
    <2>2. new \in Bucket /\ new.tokens = b.tokens - Token /\ new.last = b.last
      BY <1>1, <2>1 DEF Spend, Bucket
    <2> HIDE DEF new
    <2>3. Rate * (b.last - first) \in Int /\ b.tokens \in Int
      BY <1>1 DEF Bucket
    <2>4. Promised(new, first, granted + Token)
      BY <1>1, <2>2, <2>3 DEF Promised
    <2> QED BY <1>1, <1>2, <2>2, <2>4 DEF new
  <1>3. CASE ~Grants(b, Token)
    BY <1>3 DEF Promised
  <1> QED BY <1>2, <1>3

LEMMA LimiterStep ==
    ASSUME RateRespected, [LimiterNext]_limiterVars
    PROVE  RateRespected'
  <1> DEFINE OK(c) == /\ buckets[c] \in Bucket /\ born[c] \in Nat /\ passed[c] \in Nat
                      /\ Promised(buckets[c], born[c], passed[c])
             Inv == /\ now \in Nat /\ DOMAIN buckets \subseteq Clients
                    /\ DOMAIN born = DOMAIN buckets /\ DOMAIN passed = DOMAIN buckets
                    /\ \A c \in DOMAIN buckets : OK(c)
  <1>1. Inv
    BY DEF RateRespected, LimiterTypeOK, Promised, Bucket
  <1>2. ASSUME NEW c \in Clients, Allow(c) PROVE Inv'
    <2> DEFINE old == c \in DOMAIN buckets
               level == Level(c)
               ok == Grants(level, Token)
               first == IF old THEN born[c] ELSE now
               before == IF old THEN passed[c] ELSE 0
               new == IF ok THEN Spend(level, Token) ELSE level
               sum == before + (IF ok THEN Token ELSE 0)
               T == Tracked(c)
    <2>1. /\ buckets' = [d \in T |-> IF d = c THEN new ELSE buckets[d]]
          /\ born' = [d \in T |-> IF d = c THEN first ELSE born[d]]
          /\ passed' = [d \in T |-> IF d = c THEN sum ELSE passed[d]]
          /\ now' = now
      BY <1>2 DEF Allow, Keep
    <2>2. first \in Nat /\ before \in Nat
      BY <1>1
    <2>3. level \in Bucket /\ Promised(level, first, before)
      <3>1. CASE old
        <4>1. level = Refill(buckets[c], Burst, Rate, now)
          BY <3>1 DEF Level
        <4> QED BY <1>1, <3>1, <4>1, RefillKeeps
      <3>2. CASE ~old
        <4> DEFINE b == NewBucket(Burst, now)
        <4>1. level = Refill(b, Burst, Rate, now)
          BY <3>2 DEF Level
        <4>2. b \in Bucket /\ b.tokens = Burst /\ b.last = now
          BY <1>1, LimiterAssumption DEF NewBucket, Bucket
        <4>3. Rate * (now - now) = 0 /\ Burst \in Nat
          BY <1>1, LimiterAssumption
        <4> HIDE DEF b
        <4>4. Promised(b, now, 0)
          BY <4>2, <4>3 DEF Promised
        <4>5. first = now /\ before = 0
          BY <3>2
        <4> QED BY <1>1, <4>1, <4>2, <4>4, <4>5, RefillKeeps
      <3> QED BY <3>1, <3>2
    <2> HIDE DEF first, before, level
    <2>4. new \in Bucket /\ sum \in Nat /\ Promised(new, first, sum)
      BY <2>2, <2>3, ServeKeeps
    <2>5. T \subseteq DOMAIN buckets \cup {c}
      BY DEF Tracked, BucketsKept
    <2> HIDE DEF new, sum, T, ok
    <2>6. DOMAIN buckets' = T /\ DOMAIN born' = T /\ DOMAIN passed' = T
      BY <2>1
    <2>7. ASSUME NEW d \in T PROVE OK(d)'
      <3>1. CASE d = c
        <4>1. buckets'[d] = new /\ born'[d] = first /\ passed'[d] = sum
          BY <2>1, <3>1
        <4> QED BY <2>2, <2>4, <4>1 DEF Promised
      <3>2. CASE d # c
        <4>1. buckets'[d] = buckets[d] /\ born'[d] = born[d] /\ passed'[d] = passed[d]
          BY <2>1, <3>2
        <4>2. OK(d)
          BY <1>1, <2>5, <3>2
        <4> QED BY <4>1, <4>2 DEF Promised
      <3> QED BY <3>1, <3>2
    <2> QED BY <1>1, <2>1, <2>5, <2>6, <2>7
  <1>3. ASSUME LimiterClock PROVE Inv'
    <2>1. now' \in Nat /\ UNCHANGED <<buckets, born, passed>>
      BY <1>3, LimiterAssumption DEF LimiterClock, SetClock
    <2> QED BY <1>1, <2>1 DEF Promised
  <1>4. ASSUME UNCHANGED limiterVars PROVE Inv'
    <2>1. UNCHANGED <<now, buckets, born, passed>>
      BY <1>4 DEF limiterVars
    <2> QED BY <1>1, <2>1 DEF Promised
  <1>5. Inv'
    BY <1>2, <1>3, <1>4 DEF LimiterNext
  <1> QED BY <1>5 DEF RateRespected, LimiterTypeOK, Promised, Bucket

(* No client gets more than its burst plus the steady rate over the time since
   it was first tracked, for any schedule of requests and evictions, also when
   the wall clock is set back and forth. *)
THEOREM NobodyExceedsRate ==
    LimiterSpec => []RateRespected
  <1>1. LimiterInit => RateRespected
    BY DEF LimiterInit, RateRespected, LimiterTypeOK
  <1>2. RateRespected /\ [LimiterNext]_limiterVars => RateRespected'
    BY LimiterStep
  <1> QED BY <1>1, <1>2, PTL DEF LimiterSpec

(* The table of buckets is as small as configured. *)
BucketsBounded == Cardinality(DOMAIN buckets) <= MaxBuckets

LEMMA BoundStep ==
    ASSUME RateRespected, RateRespected',
           BucketsBounded, [LimiterNext]_limiterVars
    PROVE  BucketsBounded'
  <1> DEFINE D == DOMAIN buckets
  <1>1. IsFiniteSet(D) /\ Cardinality(D) \in Nat /\ MaxBuckets \in Nat \ {0}
    BY FS_Subset, FS_CardinalityType, LimiterAssumption DEF RateRespected, LimiterTypeOK
  <1>2. ASSUME NEW c \in Clients, Allow(c) PROVE BucketsBounded'
    <2>1. DOMAIN buckets' = Tracked(c)
      BY <1>2 DEF Allow, Keep
    <2>2. CASE c \in D
      BY <2>1, <2>2 DEF Tracked, BucketsBounded
    <2>3. CASE c \notin D
      <3> DEFINE R == BucketsKept
      <3>1. DOMAIN buckets' = R \cup {c}
        BY <2>1, <2>3 DEF Tracked
      <3>2. /\ IsFiniteSet(R) /\ Cardinality(R) \in Nat
            /\ Cardinality(R) < MaxBuckets /\ R \subseteq D
        <4>1. CASE Cardinality(D) < MaxBuckets
          <5>1. R = D
            BY <4>1 DEF BucketsKept
          <5> QED BY <1>1, <4>1, <5>1
        <4>2. CASE ~(Cardinality(D) < MaxBuckets)
          <5> DEFINE stamp == [d \in D |-> buckets[d].last]
                     horizon == IF now < BucketRetention THEN 0 ELSE now - BucketRetention
                     gone == EvictForCapacity(D, stamp, horizon, BucketStride)
          <5>1. R = D \ gone
            BY <4>2 DEF BucketsKept
          <5>2. \A d \in D : stamp[d] \in Nat
            BY DEF RateRespected, LimiterTypeOK
          <5>3. D # {}
            BY <1>1, <4>2, FS_EmptySet
          <5>4. gone \subseteq D /\ gone # {}
            <6> HIDE DEF stamp, D, horizon
            <6> QED BY <5>2, <5>3, EvictionFrees
          <5> HIDE DEF gone, R, D
          <5>5. R \in SUBSET D /\ R # D
            BY <5>1, <5>4
          <5>6. /\ IsFiniteSet(R) /\ Cardinality(R) \in Nat
                /\ Cardinality(R) <= Cardinality(D) /\ Cardinality(R) # Cardinality(D)
            BY <1>1, <5>5, FS_Subset, FS_CardinalityType
          <5>7. Cardinality(D) <= MaxBuckets
            BY DEF BucketsBounded, D
          <5> QED BY <1>1, <5>5, <5>6, <5>7
        <4> QED BY <4>1, <4>2
      <3> HIDE DEF R
      <3>3. Cardinality(R \cup {c}) = Cardinality(R) + 1
        BY <2>3, <3>2, FS_AddElement
      <3> QED BY <1>1, <3>1, <3>2, <3>3 DEF BucketsBounded
    <2> QED BY <2>2, <2>3
  <1>3. CASE LimiterClock \/ UNCHANGED limiterVars
    BY <1>3 DEF LimiterClock, SetClock, limiterVars, BucketsBounded
  <1> QED BY <1>2, <1>3 DEF LimiterNext

(* The table of client buckets never outgrows max_client_buckets: a client new
   to a full table always makes the eviction free a place. *)
THEOREM BucketTableBounded ==
    LimiterSpec => []BucketsBounded
  <1>1. LimiterInit => BucketsBounded
    BY FS_EmptySet, LimiterAssumption DEF LimiterInit, BucketsBounded
  <1>2. RateRespected /\ RateRespected' /\ BucketsBounded /\ [LimiterNext]_limiterVars
            => BucketsBounded'
    BY BoundStep
  <1> QED BY <1>1, <1>2, NobodyExceedsRate, PTL DEF LimiterSpec

-----------------------------------------------------------------------------
(* The alias graph *)

(* The edges of a graph over finitely many keys can be counted. *)
LEMMA EdgesFinite ==
    ASSUME NEW f \in [Keys -> SUBSET Keys]
    PROVE  IsFiniteSet(EdgesOf(f)) /\ Cardinality(EdgesOf(f)) \in Nat
  <1>1. IsFiniteSet(Keys \X Keys)
    BY FS_Product, AliasAssumption
  <1>2. EdgesOf(f) \in SUBSET (Keys \X Keys)
    BY DEF EdgesOf
  <1> QED BY <1>1, <1>2, FS_Subset, FS_CardinalityType

LEMMA LinkKeeps ==
    ASSUME EdgesExact, NEW a \in Keys, NEW t \in Keys, Link(a, t)
    PROVE  EdgesExact'
  <1> USE DEF AliasTypeOK
  <1>1. DOMAIN seen' \subseteq Keys /\ (\A k \in DOMAIN seen' : seen'[k] \in Nat) /\ now' \in Nat
    BY DEF EdgesExact, Link, Touch
  <1>2. CASE t \in fwd[a] \/ edges >= MaxEdges
    <2>1. UNCHANGED <<fwd, rev, edges>>
      BY <1>2 DEF Link
    <2> QED BY <1>1, <2>1 DEF EdgesExact, EdgesOf
  <1>3. CASE ~(t \in fwd[a] \/ edges >= MaxEdges)
    <2>1. /\ fwd' = [fwd EXCEPT ![a] = fwd[a] \cup {t}]
          /\ rev' = [rev EXCEPT ![t] = rev[t] \cup {a}]
          /\ edges' = edges + 1
      BY <1>3 DEF Link
    <2>2. fwd \in [Keys -> SUBSET Keys] /\ rev \in [Keys -> SUBSET Keys] /\ edges \in Nat
      BY DEF EdgesExact
    <2>3. fwd' \in [Keys -> SUBSET Keys] /\ rev' \in [Keys -> SUBSET Keys]
      BY <2>1, <2>2
    <2>4. \A x, y \in Keys : y \in fwd'[x] <=> x \in rev'[y]
      BY <2>1, <2>2 DEF EdgesExact
    <2>5. EdgesOf(fwd') = EdgesOf(fwd) \cup {<<a, t>>}
      <3>1. \A e \in Keys \X Keys : e[2] \in fwd'[e[1]] <=> (e[2] \in fwd[e[1]] \/ e = <<a, t>>)
        BY <2>1, <2>2
      <3> QED BY <3>1 DEF EdgesOf
    <2>6. <<a, t>> \notin EdgesOf(fwd)
      BY <1>3 DEF EdgesOf
    <2>7. Cardinality(EdgesOf(fwd')) = edges + 1
      BY <2>2, <2>5, <2>6, EdgesFinite, FS_AddElement DEF EdgesExact
    <2>8. edges' \in Nat /\ edges' <= MaxEdges
      BY <1>3, <2>1, <2>2, AliasAssumption
    <2>9. edges' = Cardinality(EdgesOf(fwd'))
      BY <2>1, <2>7
    <2> QED BY <1>1, <2>3, <2>4, <2>8, <2>9 DEF EdgesExact, EdgesOf
  <1> QED BY <1>2, <1>3

LEMMA PruneKeeps ==
    ASSUME EdgesExact, Prune
    PROVE  EdgesExact'
  <1> USE DEF AliasTypeOK
  <1>1. DOMAIN seen' \subseteq Keys /\ (\A k \in DOMAIN seen' : seen'[k] \in Nat) /\ now' \in Nat
    BY DEF EdgesExact, Prune
  <1>2. fwd \in [Keys -> SUBSET Keys] /\ rev \in [Keys -> SUBSET Keys] /\ edges \in Nat
    BY DEF EdgesExact
  <1> DEFINE D == Dead
  <1>3. /\ fwd' = [k \in Keys |-> IF k \in D THEN {} ELSE fwd[k] \ D]
        /\ rev' = [k \in Keys |-> IF k \in D THEN {} ELSE rev[k] \ D]
        /\ edges' = Cardinality(EdgesOf(fwd'))
    BY DEF Prune, Cut
  <1> HIDE DEF D
  <1>4. fwd' \in [Keys -> SUBSET Keys] /\ rev' \in [Keys -> SUBSET Keys]
    BY <1>2, <1>3
  <1>5. \A x, y \in Keys : y \in fwd'[x] <=> x \in rev'[y]
    BY <1>2, <1>3 DEF EdgesExact
  <1>6. EdgesOf(fwd') \in SUBSET EdgesOf(fwd)
    BY <1>2, <1>3 DEF EdgesOf
  <1>7. edges' <= edges
    BY <1>2, <1>3, <1>6, EdgesFinite, FS_Subset DEF EdgesExact
  <1>8. edges' \in Nat
    BY <1>3, <1>4, EdgesFinite
  <1>9. edges' <= MaxEdges
    BY <1>2, <1>7, <1>8, AliasAssumption DEF EdgesExact
  <1> QED BY <1>1, <1>3, <1>4, <1>5, <1>8, <1>9 DEF EdgesExact, EdgesOf

(* The alias graph's two directions stay transposes of each other and its
   running counter stays the number of edges and within the cap, through
   linking, pruning and a clock that is set back: the counter never drifts. *)
THEOREM EdgeCounterNeverDrifts ==
    AliasSpec => []EdgesExact
  <1>1. AliasInit => EdgesExact
    <2> SUFFICES ASSUME AliasInit PROVE EdgesExact
      OBVIOUS
    <2>1. AliasTypeOK
      BY DEF AliasInit, AliasTypeOK
    <2>2. EdgesOf(fwd) = {}
      BY DEF AliasInit, EdgesOf
    <2>3. Cardinality(EdgesOf(fwd)) = 0
      BY <2>2, FS_EmptySet
    <2>4. edges = 0 /\ edges <= MaxEdges
      BY AliasAssumption DEF AliasInit
    <2>5. \A a, t \in Keys : t \in fwd[a] <=> a \in rev[t]
      BY DEF AliasInit
    <2> QED BY <2>1, <2>3, <2>4, <2>5 DEF EdgesExact
  <1>2. EdgesExact /\ [AliasNext]_aliasVars => EdgesExact'
    <2> SUFFICES ASSUME EdgesExact, [AliasNext]_aliasVars PROVE EdgesExact'
      OBVIOUS
    <2>1. ASSUME NEW a \in Keys, NEW t \in Keys, Link(a, t) PROVE EdgesExact'
      BY <2>1, LinkKeeps
    <2>2. CASE Prune
      BY <2>2, PruneKeeps
    <2>3. CASE AliasClock
      BY <2>3, AliasAssumption DEF AliasClock, SetClock, EdgesExact, AliasTypeOK, EdgesOf
    <2>4. CASE UNCHANGED aliasVars
      BY <2>4 DEF aliasVars, EdgesExact, AliasTypeOK, EdgesOf
    <2> QED BY <2>1, <2>2, <2>3, <2>4 DEF AliasNext
  <1> QED BY <1>1, <1>2, PTL DEF AliasSpec
-----------------------------------------------------------------------------
(* The alias graph: the search *)

(* A set that holds zero and every successor of its members is all of Nat. *)
LEMMA Counting ==
    ASSUME NEW T \in SUBSET Nat, 0 \in T, \A k \in T : k + 1 \in T
    PROVE  T = Nat
  <1> DEFINE Rest == Nat \ T
  <1>1. ASSUME Rest # {} PROVE FALSE
    <2>1. Rest \in SUBSET Nat
      OBVIOUS
    <2> HIDE DEF Rest
    <2>2. PICK m \in Rest : \A j \in Rest : m <= j
      BY <1>1, <2>1, LeastExists
    <2> USE DEF Rest
    <2>3. m \in Nat /\ m # 0 /\ m - 1 \in Nat
      BY <2>2
    <2>4. m - 1 \in T
      BY <2>2, <2>3
    <2>5. (m - 1) + 1 \in T
      BY <2>4
    <2> QED BY <2>2, <2>3, <2>5
  <1> QED BY <1>1

(* The search goes one iteration after the other. *)
LEMMA SearchInTurn ==
    ASSUME NEW key, NEW max, Cardinality(Keys) \in Nat
    PROVE  \E g : /\ g[0] = [seen |-> {key}, queue |-> <<key>>]
                  /\ \A i \in 1..Cardinality(Keys) : g[i] = Visit(g[i - 1], max)
                  /\ Search(key, max) = g[Cardinality(Keys)]
  <1> DEFINE n == Cardinality(Keys)
             x0 == [seen |-> {key}, queue |-> <<key>>]
             Step(d, i) == Visit(d, max)
             Run(k, g) == g = [i \in 0..k |-> IF i = 0 THEN x0 ELSE Step(g[i - 1], i)]
             T == {k \in Nat : \E g : Run(k, g)}
             r == CHOOSE g : Run(n, g)
  <1>1. Search(key, max) = r[n]
    BY DEF Search
  <1> HIDE DEF Step, x0, n
  <1>2. 0 \in T
    <2> DEFINE g == [i \in 0..0 |-> x0]
    <2>1. Run(0, g)  OBVIOUS
    <2> HIDE DEF g, Run
    <2> QED BY <2>1
  <1>3. ASSUME NEW k \in T PROVE k + 1 \in T
    <2>1. k \in Nat  OBVIOUS
    <2>2. PICK g : Run(k, g)  BY <1>3
    <2> DEFINE h == [i \in 0..(k + 1) |-> IF i = k + 1 THEN Step(g[k], k + 1) ELSE g[i]]
               e == [i \in 0..(k + 1) |-> IF i = 0 THEN x0 ELSE Step(h[i - 1], i)]
    <2>3. \A i \in 0..k : g[i] = IF i = 0 THEN x0 ELSE Step(g[i - 1], i)  BY <2>2
    <2>4. \A i \in 0..k : h[i] = g[i]  BY <2>1
    <2>5. h[k + 1] = Step(h[k], k + 1)  BY <2>1, <2>4
    <2>6. \A i \in 0..k : i # 0 => h[i] = Step(h[i - 1], i)
      <3>1. TAKE i \in 0..k
      <3>2. i # 0 => i - 1 \in 0..k  BY <2>1
      <3> HIDE DEF h
      <3> QED BY <2>3, <2>4, <3>2
    <2>7. h[0] = x0  BY <2>1, <2>3, <2>4
    <2>8. \A i \in 0..(k + 1) : h[i] = IF i = 0 THEN x0 ELSE Step(h[i - 1], i)
      <3> HIDE DEF h
      <3>1. TAKE i \in 0..(k + 1)
      <3>2. CASE i = k + 1
        <4>1. i - 1 = k /\ i # 0  BY <2>1, <3>2
        <4> QED BY <2>5, <3>2, <4>1
      <3>3. CASE i \in 0..k
        BY <2>6, <2>7, <3>3
      <3> QED BY <2>1, <3>2, <3>3
    <2>9. h = e
      <3>1. h = [i \in 0..(k + 1) |-> h[i]]  OBVIOUS
      <3> HIDE DEF h
      <3> QED BY <2>8, <3>1
    <2>10. Run(k + 1, h)  BY <2>9
    <2> HIDE DEF h, Run
    <2> QED BY <2>1, <2>10
  <1>4. T = Nat
    <2> HIDE DEF Run
    <2>1. T \in SUBSET Nat  OBVIOUS
    <2> HIDE DEF T
    <2> QED BY <1>2, <1>3, <2>1, Counting
  <1>5. Run(n, r)
    <2> HIDE DEF Run, r
    <2>1. \E g : Run(n, g)  BY <1>4 DEF n
    <2> QED BY <2>1 DEF r
  <1> HIDE DEF r
  <1>6. r[0] = x0 /\ \A i \in 1..n : r[i] = Step(r[i - 1], i)
    BY <1>5 DEF n
  <1>7. \A i \in 1..Cardinality(Keys) : r[i] = Visit(r[i - 1], max)
    BY <1>6 DEF Step, n
  <1>8. r[0] = [seen |-> {key}, queue |-> <<key>>]
    BY <1>6 DEF x0
  <1>9. Search(key, max) = r[Cardinality(Keys)]
    BY <1>1 DEF n
  <1> QED BY <1>7, <1>8, <1>9, Zenon

(* R orders the members of S strictly and totally. *)
StrictOrder(S, R) ==
    /\ \A x, y \in S : x # y => <<x, y>> \in R \/ <<y, x>> \in R
    /\ \A x, y, z \in S : <<x, y>> \in R /\ <<y, z>> \in R => <<x, z>> \in R
    /\ \A x \in S : <<x, x>> \notin R

(* A finite set has a first member in every strict order. *)
LEMMA FirstExists ==
    ASSUME NEW S, NEW R, IsFiniteSet(S), S # {}, StrictOrder(S, R)
    PROVE  \E m \in S : \A x \in S \ {m} : <<m, x>> \in R
  <1> DEFINE Led(U) == \E m \in U : \A x \in U \ {m} : <<m, x>> \in R
             T == {c \in Nat : \A U \in SUBSET S : IsFiniteSet(U) /\ Cardinality(U) = c + 1 => Led(U)}
  <1>1. 0 \in T
    <2> SUFFICES ASSUME NEW U \in SUBSET S, IsFiniteSet(U), Cardinality(U) = 1 PROVE Led(U)
      OBVIOUS
    <2>1. PICK m : U = {m}
      BY FS_Singleton
    <2> QED BY <2>1
  <1>2. ASSUME NEW c \in T PROVE c + 1 \in T
    <2>1. c \in Nat /\ c + 1 \in Nat
      OBVIOUS
    <2>2. ASSUME NEW U \in SUBSET S, IsFiniteSet(U), Cardinality(U) = (c + 1) + 1 PROVE Led(U)
      <3>1. U # {}
        BY <2>1, <2>2, FS_EmptySet
      <3>2. PICK y \in U : TRUE
        BY <3>1
      <3> DEFINE V == U \ {y}
      <3>3. IsFiniteSet(V) /\ Cardinality(V) = c + 1 /\ V \in SUBSET S
        BY <2>1, <2>2, <3>2, FS_RemoveElement
      <3>4. Led(V)
        <4> HIDE DEF V, Led
        <4> QED BY <1>2, <3>3
      <3>5. PICK m \in V : \A x \in V \ {m} : <<m, x>> \in R
        BY <3>4
      <3>6. <<m, y>> \in R \/ <<y, m>> \in R
        BY <3>2, <3>5, <2>2 DEF StrictOrder
      <3>7. CASE <<m, y>> \in R
        BY <3>5, <3>7
      <3>8. CASE <<y, m>> \in R
        <4>1. \A x \in U \ {y} : <<y, x>> \in R
          BY <2>2, <3>2, <3>5, <3>8 DEF StrictOrder
        <4> QED BY <3>2, <4>1
      <3> QED BY <3>6, <3>7, <3>8
    <2> HIDE DEF Led
    <2> QED BY <2>1, <2>2
  <1>3. T = Nat
    <2> HIDE DEF Led
    <2>1. T \in SUBSET Nat
      OBVIOUS
    <2> HIDE DEF T
    <2> QED BY <1>1, <1>2, <2>1, Counting
  <1>4. Cardinality(S) - 1 \in Nat /\ (Cardinality(S) - 1) + 1 = Cardinality(S)
    BY FS_CardinalityType, FS_EmptySet
  <1>5. Led(S)
    <2> HIDE DEF Led
    <2>1. Cardinality(S) - 1 \in T
      BY <1>3, <1>4
    <2> QED BY <1>4, <2>1
  <1> QED BY <1>5

(* A finite set can be listed in every strict order of its members. *)
LEMMA OrderedExists ==
    ASSUME NEW S, NEW R, IsFiniteSet(S), StrictOrder(S, R)
    PROVE  \E s \in [1 .. Cardinality(S) -> S] :
               \A i, j \in 1 .. Cardinality(S) : i < j => <<s[i], s[j]>> \in R
  <1> DEFINE Listed(U, c) == \E s \in [1 .. c -> U] : \A i, j \in 1 .. c : i < j => <<s[i], s[j]>> \in R
             T == {c \in Nat : \A U \in SUBSET S : IsFiniteSet(U) /\ Cardinality(U) = c => Listed(U, c)}
  <1>1. 0 \in T
    <2> SUFFICES ASSUME NEW U PROVE Listed(U, 0)
      OBVIOUS
    <2> DEFINE none == [i \in 1 .. 0 |-> 0]
    <2>1. none \in [1 .. 0 -> U]
      OBVIOUS
    <2>2. \A i, j \in 1 .. 0 : i < j => <<none[i], none[j]>> \in R
      OBVIOUS
    <2> HIDE DEF none
    <2> QED BY <2>1, <2>2
  <1>2. ASSUME NEW c \in T PROVE c + 1 \in T
    <2>1. c \in Nat /\ c + 1 \in Nat
      OBVIOUS
    <2>2. ASSUME NEW U \in SUBSET S, IsFiniteSet(U), Cardinality(U) = c + 1
          PROVE  Listed(U, c + 1)
      <3>1. U # {}
        BY <2>1, <2>2, FS_EmptySet
      <3>2. StrictOrder(U, R)
        BY <2>2 DEF StrictOrder
      <3>3. PICK m \in U : \A x \in U \ {m} : <<m, x>> \in R
        BY <2>2, <3>1, <3>2, FirstExists
      <3> DEFINE V == U \ {m}
      <3>4. IsFiniteSet(V) /\ Cardinality(V) = c /\ V \in SUBSET S
        BY <2>1, <2>2, <3>3, FS_RemoveElement
      <3>5. Listed(V, c)
        <4> HIDE DEF V, Listed
        <4> QED BY <1>2, <3>4
      <3>6. PICK s \in [1 .. c -> V] : \A i, j \in 1 .. c : i < j => <<s[i], s[j]>> \in R
        BY <3>5
      <3> DEFINE t == [i \in 1 .. (c + 1) |-> IF i = 1 THEN m ELSE s[i - 1]]
      <3>7. \A i \in 1 .. (c + 1) : i # 1 => i - 1 \in 1 .. c
        BY <2>1
      <3>8. \A i \in 1 .. (c + 1) : i # 1 => t[i] = s[i - 1] /\ t[i] \in U /\ <<m, t[i]>> \in R
        <4>1. \A x \in V : x \in U /\ <<m, x>> \in R
          BY <2>2, <3>3
        <4> HIDE DEF V
        <4> QED BY <3>6, <3>7, <4>1
      <3>9. t \in [1 .. (c + 1) -> U]
        BY <3>3, <3>8
      <3>10. ASSUME NEW i \in 1 .. (c + 1), NEW j \in 1 .. (c + 1), i < j PROVE <<t[i], t[j]>> \in R
        <4>1. j # 1
          BY <2>1, <3>10
        <4>2. CASE i = 1
          <5>1. t[i] = m
            BY <4>2
          <5> QED BY <3>8, <4>1, <5>1
        <4>3. CASE i # 1
          <5>1. i - 1 \in 1 .. c /\ j - 1 \in 1 .. c /\ i - 1 < j - 1
            BY <2>1, <3>7, <3>10, <4>1, <4>3
          <5>2. t[i] = s[i - 1] /\ t[j] = s[j - 1]
            BY <3>8, <4>1, <4>3
          <5> HIDE DEF t
          <5> QED BY <3>6, <5>1, <5>2
        <4> QED BY <4>2, <4>3
      <3> HIDE DEF t
      <3> QED BY <3>9, <3>10
    <2> HIDE DEF Listed
    <2> QED BY <2>1, <2>2
  <1>3. T = Nat
    <2> HIDE DEF Listed
    <2>1. T \in SUBSET Nat
      OBVIOUS
    <2> HIDE DEF T
    <2> QED BY <1>1, <1>2, <2>1, Counting
  <1>4. Cardinality(S) \in T
    BY <1>3, FS_CardinalityType
  <1>5. Listed(S, Cardinality(S))
    <2> HIDE DEF Listed
    <2> QED BY <1>4
  <1> QED BY <1>5

(* A finite set of numbers can be listed in increasing order. *)
LEMMA SortedExists ==
    ASSUME NEW S \in SUBSET Nat, IsFiniteSet(S)
    PROVE  \E s \in [1 .. Cardinality(S) -> S] :
               \A i, j \in 1 .. Cardinality(S) : i < j => s[i] < s[j]
  <1> DEFINE R == {p \in S \X S : p[1] < p[2]}
  <1>1. \A x, y \in S : <<x, y>> \in R <=> x < y
    OBVIOUS
  <1> HIDE DEF R
  <1>2. StrictOrder(S, R)
    BY <1>1 DEF StrictOrder
  <1>3. PICK s \in [1 .. Cardinality(S) -> S] :
            \A i, j \in 1 .. Cardinality(S) : i < j => <<s[i], s[j]>> \in R
    BY <1>2, OrderedExists
  <1>4. \A i \in 1 .. Cardinality(S) : s[i] \in S
    BY <1>3
  <1> QED BY <1>1, <1>3, <1>4

(* The new keys of an iteration are all queued, once each. *)
LEMMA InOrderFacts ==
    ASSUME NEW S \in SUBSET Nat, IsFiniteSet(S)
    PROVE  /\ InOrder(S) \in Seq(S) /\ Len(InOrder(S)) = Cardinality(S)
           /\ \A x \in S : \E i \in 1 .. Len(InOrder(S)) : InOrder(S)[i] = x
  <1> DEFINE c == Cardinality(S)
             q == InOrder(S)
  <1>1. c \in Nat
    BY FS_CardinalityType
  <1>2. q \in [1 .. c -> S] /\ \A i, j \in 1 .. c : i < j => q[i] < q[j]
    <2>1. PICK s \in [1 .. c -> S] : \A i, j \in 1 .. c : i < j => s[i] < s[j]
      BY SortedExists
    <2>2. \A r \in [1 .. c -> S] : DOMAIN r = 1 .. c
      OBVIOUS
    <2>3. \E r \in [1 .. c -> S] : \A i, j \in DOMAIN r : i < j => r[i] < r[j]
      BY <2>1, <2>2
    <2>4. q \in [1 .. c -> S] /\ \A i, j \in DOMAIN q : i < j => q[i] < q[j]
      BY <2>3, Zenon DEF InOrder
    <2> QED BY <2>2, <2>4
  <1> HIDE DEF q, c
  <1>3. q \in Seq(S) /\ Len(q) = c
    BY <1>1, <1>2
  <1>4. \A i, j \in 1 .. c : q[i] = q[j] => i = j
    <2> SUFFICES ASSUME NEW i \in 1 .. c, NEW j \in 1 .. c, q[i] = q[j], i # j PROVE FALSE
      OBVIOUS
    <2>1. q[i] \in Nat /\ q[j] \in Nat
      BY <1>2
    <2>2. i < j \/ j < i
      BY <1>1
    <2> QED BY <1>2, <2>1, <2>2
  <1>5. q \in Injection(1 .. c, S)
    BY <1>2, <1>4 DEF Injection, IsInjective
  <1>6. Cardinality(1 .. c) = Cardinality(S)
    BY <1>1, FS_Interval DEF c
  <1>7. q \in Surjection(1 .. c, S)
    BY <1>5, <1>6, FS_Injection
  <1>8. \A x \in S : \E i \in 1 .. c : q[i] = x
    BY <1>7 DEF Surjection
  <1> QED BY <1>3, <1>8 DEF q, c

(* What the search has after n iterations: reachable keys only; those whose
   targets it has not taken yet are queued; and unless it is over, each
   iteration took one of the keys ever queued. *)
Midway(s, key, max, n) ==
    /\ s.seen \in SUBSET Keys /\ key \in s.seen /\ s.queue \in Seq(s.seen)
    /\ s.seen \subseteq Reachable(key)
    /\ \A a \in s.seen : fwd[a] \subseteq s.seen \/ \E i \in 1 .. Len(s.queue) : s.queue[i] = a
    /\ Cardinality(s.seen) >= max \/ s.queue = <<>> \/ n + Len(s.queue) = Cardinality(s.seen)

(* The targets of a reachable key are reachable. *)
LEMMA TargetsReachable ==
    ASSUME AliasTypeOK, NEW key \in Keys, NEW a \in Reachable(key)
    PROVE  fwd[a] \subseteq Reachable(key)
  <1>1. a \in Keys /\ fwd[a] \in SUBSET Keys
    BY DEF Reachable, AliasTypeOK
  <1>2. ASSUME NEW t \in fwd[a], NEW S \in SUBSET Keys, key \in S, ClosedUnder(S) PROVE t \in S
    <2>1. a \in S
      BY <1>2 DEF Reachable
    <2> QED BY <1>2, <2>1 DEF ClosedUnder
  <1> QED BY <1>1, <1>2 DEF Reachable

LEMMA VisitKeeps ==
    ASSUME AliasTypeOK, NEW key \in Keys, NEW max \in Nat, NEW n \in Nat, NEW s, Midway(s, key, max, n)
    PROVE  Midway(Visit(s, max), key, max, n + 1)
  <1> DEFINE V == s.seen
             q == s.queue
             new == fwd[Head(q)] \ V
             o == InOrder(new)
             w == V \cup new
  <1>1. /\ V \in SUBSET Keys /\ key \in V /\ q \in Seq(V) /\ V \subseteq Reachable(key)
        /\ \A a \in V : fwd[a] \subseteq V \/ \E i \in 1 .. Len(q) : q[i] = a
        /\ Cardinality(V) >= max \/ q = <<>> \/ n + Len(q) = Cardinality(V)
    BY DEF Midway
  <1>2. CASE q = <<>> \/ Cardinality(V) >= max
    <2>1. Visit(s, max) = s
      BY <1>2 DEF Visit
    <2> QED BY <1>1, <1>2, <2>1 DEF Midway
  <1>3. CASE ~(q = <<>> \/ Cardinality(V) >= max)
    <2>1. Visit(s, max) = [seen |-> w, queue |-> Tail(q) \o o]
      BY <1>3 DEF Visit
    <2> HIDE DEF V, q
    <2>2. /\ Head(q) \in V /\ Tail(q) \in Seq(V) /\ Len(Tail(q)) = Len(q) - 1
          /\ \A i \in 1 .. Len(Tail(q)) : Tail(q)[i] = q[i + 1]
      BY <1>1, <1>3, HeadTailProperties
    <2>3. Len(q) \in Nat \ {0} /\ Head(q) = q[1]
      BY <1>1, <1>3
    <2>4. new \in SUBSET Keys /\ new \subseteq Reachable(key)
      <3>1. Head(q) \in Keys /\ Head(q) \in Reachable(key)
        BY <1>1, <2>2
      <3>2. fwd[Head(q)] \subseteq Reachable(key)
        BY <3>1, TargetsReachable
      <3>3. Reachable(key) \subseteq Keys
        BY DEF Reachable
      <3> QED BY <3>2, <3>3
    <2>5. IsFiniteSet(V) /\ IsFiniteSet(new) /\ new \in SUBSET Nat
      <3> HIDE DEF new
      <3> QED BY <1>1, <2>4, FS_Subset, AliasAssumption
    <2>6. V \cap new = {}
      OBVIOUS
    <2>7. fwd[Head(q)] \subseteq w
      OBVIOUS
    <2> HIDE DEF new
    <2>8. /\ o \in Seq(new) /\ Len(o) = Cardinality(new)
          /\ \A x \in new : \E i \in 1 .. Len(o) : o[i] = x
      BY <2>5, InOrderFacts
    <2> HIDE DEF o
    <2>9. Cardinality(w) = Cardinality(V) + Cardinality(new)
      <3>1. Cardinality(V) \in Nat /\ Cardinality(new) \in Nat
        BY <2>5, FS_CardinalityType
      <3>2. Cardinality(V \cap new) = 0
        BY <2>6, FS_EmptySet
      <3>3. Cardinality(V \cup new) = Cardinality(V) + Cardinality(new) - Cardinality(V \cap new)
        BY <2>5, FS_Union
      <3> QED BY <3>1, <3>2, <3>3
    <2>10. w \in SUBSET Keys /\ key \in w /\ w \subseteq Reachable(key) /\ V \subseteq w /\ new \subseteq w
      BY <1>1, <2>4
    <2>11. w = V \cup new
      OBVIOUS
    <2> HIDE DEF w
    <2> DEFINE r == Tail(q) \o o
    <2>12. Tail(q) \in Seq(w) /\ o \in Seq(w)
      BY <2>2, <2>8, <2>10, SeqMonotonic
    <2>13. /\ r \in Seq(w) /\ Len(r) = Len(Tail(q)) + Len(o)
           /\ \A i \in 1 .. Len(Tail(q)) + Len(o) :
                  r[i] = IF i <= Len(Tail(q)) THEN Tail(q)[i] ELSE o[i - Len(Tail(q))]
      BY <2>12, ConcatProperties
    <2> HIDE DEF r
    <2>14. Len(o) \in Nat /\ Len(Tail(q)) \in Nat
      BY <2>2, <2>8, LenProperties
    <2>15. ASSUME NEW i \in 2 .. Len(q) PROVE \E j \in 1 .. Len(r) : r[j] = q[i]
      <3>1. i - 1 \in 1 .. Len(Tail(q)) /\ i - 1 \in 1 .. Len(r)
        BY <2>2, <2>3, <2>13, <2>14
      <3>2. r[i - 1] = Tail(q)[i - 1] /\ Tail(q)[i - 1] = q[(i - 1) + 1]
        BY <2>2, <2>13, <2>14, <3>1
      <3>3. (i - 1) + 1 = i
        BY <2>15
      <3> QED BY <3>1, <3>2, <3>3
    <2>16. ASSUME NEW i \in 1 .. Len(o) PROVE \E j \in 1 .. Len(r) : r[j] = o[i]
      <3>1. /\ i + Len(Tail(q)) \in 1 .. Len(r) /\ ~(i + Len(Tail(q)) <= Len(Tail(q)))
            /\ (i + Len(Tail(q))) - Len(Tail(q)) = i
        BY <2>13, <2>14
      <3>2. r[i + Len(Tail(q))] = o[i]
        BY <2>13, <2>14, <3>1
      <3> QED BY <3>1, <3>2
    <2>17. ASSUME NEW a \in w PROVE fwd[a] \subseteq w \/ \E j \in 1 .. Len(r) : r[j] = a
      <3>1. CASE a \in new
        BY <2>8, <2>16, <3>1
      <3>2. CASE a \in V /\ fwd[a] \subseteq V
        BY <2>10, <3>2
      <3>3. CASE \E i \in 1 .. Len(q) : q[i] = a
        <4>1. PICK i \in 1 .. Len(q) : q[i] = a
          BY <3>3
        <4>2. CASE i = 1
          BY <2>3, <2>7, <4>1, <4>2
        <4>3. CASE i # 1
          <5>1. i \in 2 .. Len(q)
            BY <2>3, <4>1, <4>3
          <5> QED BY <2>15, <4>1, <5>1
        <4> QED BY <4>2, <4>3
      <3> QED BY <1>1, <2>11, <2>17, <3>1, <3>2, <3>3
    <2>18. (n + 1) + Len(r) = Cardinality(w)
      <3>1. n + Len(q) = Cardinality(V)
        BY <1>1, <1>3
      <3> QED BY <2>2, <2>3, <2>8, <2>9, <2>13, <2>14, <3>1
    <2>19. Visit(s, max).seen = w /\ Visit(s, max).queue = r
      BY <2>1 DEF r
    <2> QED BY <2>10, <2>13, <2>17, <2>18, <2>19 DEF Midway
  <1> QED BY <1>2, <1>3

(* After as many iterations as there are keys the search is over. *)
LEMMA SearchEnds ==
    ASSUME AliasTypeOK, NEW key \in Keys, NEW max \in Nat
    PROVE  Midway(Search(key, max), key, max, Cardinality(Keys))
  <1> DEFINE c == Cardinality(Keys)
             x0 == [seen |-> {key}, queue |-> <<key>>]
  <1>1. c \in Nat
    BY FS_CardinalityType, AliasAssumption
  <1>2. PICK g : /\ g[0] = x0
                 /\ \A i \in 1 .. c : g[i] = Visit(g[i - 1], max)
                 /\ Search(key, max) = g[c]
    BY <1>1, SearchInTurn, Zenon
  <1>3. Midway(x0, key, max, 0)
    <2>1. Cardinality({key}) = 1
      BY FS_Singleton
    <2>2. key \in Reachable(key)
      BY DEF Reachable
    <2>3. <<key>> \in Seq({key}) /\ Len(<<key>>) = 1 /\ <<key>>[1] = key
      OBVIOUS
    <2>4. x0.seen = {key} /\ x0.queue = <<key>>
      OBVIOUS
    <2> HIDE DEF x0
    <2>5. \A a \in {key} : \E i \in 1 .. Len(<<key>>) : <<key>>[i] = a
      BY <2>3
    <2>6. 0 + Len(<<key>>) = Cardinality({key})
      BY <2>1, <2>3
    <2> QED BY <2>2, <2>3, <2>4, <2>5, <2>6 DEF Midway
  <1> DEFINE T == {n \in Nat : n <= c => Midway(g[n], key, max, n)}
  <1> HIDE DEF x0
  <1>4. 0 \in T
    BY <1>2, <1>3
  <1>5. ASSUME NEW n \in T PROVE n + 1 \in T
    <2> SUFFICES ASSUME n + 1 <= c PROVE Midway(g[n + 1], key, max, n + 1)
      OBVIOUS
    <2>1. n \in Nat /\ n <= c /\ n + 1 \in 1 .. c /\ (n + 1) - 1 = n
      BY <1>1
    <2>2. Midway(g[n], key, max, n)
      BY <1>5, <2>1
    <2>3. g[n + 1] = Visit(g[n], max)
      BY <1>2, <2>1
    <2> QED BY <2>1, <2>2, <2>3, VisitKeeps
  <1>6. T = Nat
    <2>1. T \in SUBSET Nat
      OBVIOUS
    <2> HIDE DEF T
    <2> QED BY <1>4, <1>5, <2>1, Counting
  <1>7. c \in T
    BY <1>1, <1>6
  <1> HIDE DEF c
  <1>8. Midway(g[c], key, max, c)
    BY <1>1, <1>7
  <1> QED BY <1>2, <1>8 DEF c

(* closure, in any graph the program can build, reports reachable keys only,
   and all of them unless it reports at least as many as it was asked for. *)
THEOREM SearchIsExact ==
    AliasSpec => []ClosureExact
  <1>1. EdgesExact => ClosureExact
    <2> SUFFICES ASSUME EdgesExact, NEW k \in Keys, NEW max \in 0 .. Cardinality(Keys)
                 PROVE  /\ Closure(k, max) \subseteq Reachable(k)
                        /\ Cardinality(Closure(k, max)) < max => Closure(k, max) = Reachable(k)
      BY DEF ClosureExact
    <2>1. AliasTypeOK
      BY DEF EdgesExact
    <2>2. IsFiniteSet(Keys) /\ Cardinality(Keys) \in Nat
      BY FS_CardinalityType, AliasAssumption
    <2>3. max \in Nat
      BY <2>2
    <2> DEFINE s == Search(k, max)
               c == Cardinality(Keys)
    <2>4. Midway(s, k, max, c)
      BY <2>1, <2>3, SearchEnds
    <2> HIDE DEF s
    <2>5. /\ s.seen \in SUBSET Keys /\ k \in s.seen /\ s.queue \in Seq(s.seen)
          /\ s.seen \subseteq Reachable(k)
          /\ \A a \in s.seen : fwd[a] \subseteq s.seen \/ \E i \in 1 .. Len(s.queue) : s.queue[i] = a
          /\ Cardinality(s.seen) >= max \/ s.queue = <<>> \/ c + Len(s.queue) = Cardinality(s.seen)
      BY <2>4 DEF Midway
    <2>6. Closure(k, max) = s.seen
      BY DEF Closure, s
    <2>7. IsFiniteSet(s.seen) /\ Cardinality(s.seen) <= c /\ Cardinality(s.seen) \in Nat
      <3>1. IsFiniteSet(s.seen) /\ Cardinality(s.seen) <= c
        BY <2>2, <2>5, FS_Subset
      <3> QED BY <3>1, FS_CardinalityType
    <2>8. ASSUME Cardinality(s.seen) < max PROVE Reachable(k) \subseteq s.seen
      <3>1. s.queue = <<>>
        <4>1. Len(s.queue) \in Nat
          BY <2>5
        <4>2. c \in Nat
          BY <2>2
        <4>3. ~(Cardinality(s.seen) >= max)
          BY <2>3, <2>7, <2>8
        <4>4. s.queue # <<>> => Len(s.queue) # 0
          BY <2>5, EmptySeq
        <4> HIDE DEF c
        <4> QED BY <2>5, <2>7, <4>1, <4>2, <4>3, <4>4
      <3>2. ~\E i \in 1 .. Len(s.queue) : TRUE
        BY <3>1
      <3>3. ClosedUnder(s.seen)
        BY <2>5, <3>2 DEF ClosedUnder
      <3> QED BY <2>5, <3>3 DEF Reachable
    <2> QED BY <2>5, <2>6, <2>8
  <1> QED BY <1>1, EdgeCounterNeverDrifts, PTL

-----------------------------------------------------------------------------
(* The upstream selector: what a server costs *)

LEMMA DivNat ==
    ASSUME NEW a \in Nat, NEW b \in Nat \ {0}
    PROVE  a \div b \in Nat
  OBVIOUS

LEMMA TimesNat ==
    ASSUME NEW a \in Nat, NEW b \in Nat
    PROVE  a * b \in Nat
  OBVIOUS

(* Every cost is a number, whatever outcomes were recorded. *)
LEMMA CostsTyped ==
    ASSUME SelectorTypeOK
    PROVE  Costs \in [DOMAIN Setup -> Nat]
  <1> SUFFICES ASSUME NEW e \in DOMAIN Setup PROVE Cost(e) \in Nat
    BY DEF Costs
  <1>1. Setup[e] \in Nat /\ Assumed \in Nat /\ MinRto \in Nat
    BY UpstreamAssumption
  <1>2. CASE e \notin DOMAIN paths
    <2>1. Setup[e] * Assumed \in Nat
      BY <1>1, TimesNat
    <2> QED BY <1>1, <1>2, <2>1 DEF Cost, Prior
  <1>3. CASE e \in DOMAIN paths
    <2> DEFINE p == paths[e]
               lost == Least(p.loss, 950)
               r == rto(p)
               rate == Least(servfail_rate(p), 900)
    <2>1. /\ p.successes \in Nat /\ p.servfails \in Nat /\ p.rtt \in Nat /\ p.var \in Nat
          /\ p.loss \in Nat /\ p.conn \in Nat
      BY <1>3 DEF SelectorTypeOK, PathModel
    <2> HIDE DEF p
    <2>2. lost \in Nat /\ lost <= 950
      BY <2>1 DEF Least
    <2>3. r \in Nat
      BY <1>1, <2>1 DEF rto, Most
    <2>4. servfail_rate(p) \in Nat
      <3>1. 1000 * p.servfails \in Nat /\ p.successes + p.servfails \in Nat
        BY <2>1
      <3>2. CASE p.successes + p.servfails = 0
        BY <3>2 DEF servfail_rate
      <3>3. CASE p.successes + p.servfails # 0
        BY <3>1, <3>3, DivNat DEF servfail_rate
      <3> QED BY <3>2, <3>3
    <2>5. rate \in Nat
      BY <2>4 DEF Least
    <2> HIDE DEF lost, r, rate
    <2>6. (lost * r) \div (1000 - lost) \in Nat
      <3>1. lost * r \in Nat
        BY <2>2, <2>3, TimesNat
      <3>2. 1000 - lost \in Nat \ {0}
        BY <2>2
      <3> QED BY <3>1, <3>2, DivNat
    <2>7. (rate * r * 3) \div 2000 \in Nat
      <3>1. rate * r \in Nat
        BY <2>3, <2>5, TimesNat
      <3>2. (rate * r) * 3 \in Nat
        BY <3>1, TimesNat
      <3> QED BY <3>2, DivNat
    <2>8. p.rtt + p.conn + (lost * r) \div (1000 - lost) + (rate * r * 3) \div 2000 \in Nat
      BY <2>1, <2>6, <2>7
    <2>9. expected_cost(p) = p.rtt + p.conn + (lost * r) \div (1000 - lost) + (rate * r * 3) \div 2000
      BY DEF expected_cost, lost, r, rate
    <2> QED BY <1>3, <2>8, <2>9 DEF Cost, p
  <1> QED BY <1>2, <1>3

(* A model that is recorded replaces the server's own and no other. *)
LEMMA RecordedKeeps ==
    ASSUME SelectorTypeOK, NEW ep \in Endpoints, NEW p, Recorded(ep, p),
           p \in PathModel
    PROVE  SelectorTypeOK'
  <1> DEFINE K == Kept(ep)
  <1>1. K \subseteq DOMAIN paths
    BY DEF Kept
  <1>2. /\ paths' = [e \in K \union {ep} |-> IF e = ep THEN [p EXCEPT !.seen = now] ELSE paths[e]]
        /\ now' = now
    BY DEF Recorded
  <1> HIDE DEF K
  <1>3. ep \in DOMAIN Setup
    BY UpstreamAssumption
  <1>4. [p EXCEPT !.seen = now] \in PathModel
    BY DEF SelectorTypeOK, PathModel
  <1>5. DOMAIN paths' = K \union {ep} /\ \A e \in K \union {ep} :
            paths'[e] = IF e = ep THEN [p EXCEPT !.seen = now] ELSE paths[e]
    BY <1>2
  <1> QED BY <1>1, <1>2, <1>3, <1>4, <1>5 DEF SelectorTypeOK

LEMMA PathTyped ==
    ASSUME SelectorTypeOK, NEW ep \in Endpoints, NEW rtt \in Nat
    PROVE  Path(ep, rtt) \in PathModel
  <1>1. Setup[ep] * rtt \in Nat
    BY TimesNat, UpstreamAssumption
  <1> QED BY <1>1 DEF Path, NewPath, SelectorTypeOK, PathModel

LEMMA SelectorStep ==
    ASSUME SelectorTypeOK, [SelectorNext]_upstreamVars
    PROVE  SelectorTypeOK'
  <1>1. ASSUME NEW ep \in Endpoints, NEW rtt \in Rtts, record_success(ep, rtt) PROVE SelectorTypeOK'
    <2> DEFINE p == Path(ep, rtt)
               ewma == (4 * p.rtt + rtt) \div 5
               q == [successes |-> p.successes + 1, servfails |-> p.servfails, rtt |-> ewma,
                     var |-> (4 * p.var + Gap(rtt, p.rtt)) \div 5, loss |-> (p.loss * 95) \div 100,
                     seen |-> p.seen, conn |-> Setup[ep] * ewma]
    <2>1. Recorded(ep, q)
      BY <1>1 DEF record_success
    <2>2. rtt \in Nat
      BY UpstreamAssumption
    <2>3. p \in PathModel
      BY <2>2, PathTyped
    <2> HIDE DEF p
    <2>4. ewma \in Nat
      BY <2>2, <2>3 DEF PathModel
    <2> HIDE DEF ewma
    <2>5. Setup[ep] * ewma \in Nat
      BY <2>4, TimesNat, UpstreamAssumption
    <2>6. (p.loss * 95) \div 100 \in 0 .. 1000
      BY <2>3 DEF PathModel
    <2>7. (4 * p.var + Gap(rtt, p.rtt)) \div 5 \in Nat
      BY <2>2, <2>3 DEF Gap, PathModel
    <2>8. p.successes + 1 \in Nat
      BY <2>3 DEF PathModel
    <2>9. q \in PathModel
      BY <2>3, <2>4, <2>5, <2>6, <2>7, <2>8, SMTT(30) DEF PathModel
    <2> HIDE DEF q
    <2> QED BY <2>1, <2>9, RecordedKeeps
  <1>2. ASSUME NEW ep \in Endpoints, record_timeout(ep) PROVE SelectorTypeOK'
    <2> DEFINE p == Path(ep, Assumed)
               q == [p EXCEPT !.loss = Least((4 * @ + 1000) \div 5, 1000)]
    <2>1. Recorded(ep, q)
      BY <1>2 DEF record_timeout
    <2>2. p \in PathModel
      <3>1. Assumed \in Nat
        BY UpstreamAssumption
      <3> QED BY <3>1, PathTyped
    <2> HIDE DEF p
    <2>3. Least((4 * p.loss + 1000) \div 5, 1000) \in 0 .. 1000
      BY <2>2 DEF Least, PathModel
    <2>4. q \in PathModel
      BY <2>2, <2>3, SMTT(30) DEF PathModel
    <2> HIDE DEF q
    <2> QED BY <2>1, <2>4, RecordedKeeps
  <1>3. ASSUME NEW ep \in Endpoints, record_servfail(ep) PROVE SelectorTypeOK'
    <2> DEFINE p == Path(ep, Assumed)
               q == [p EXCEPT !.servfails = @ + 1]
    <2>1. Recorded(ep, q)
      BY <1>3 DEF record_servfail
    <2>2. p \in PathModel
      <3>1. Assumed \in Nat
        BY UpstreamAssumption
      <3> QED BY <3>1, PathTyped
    <2> HIDE DEF p
    <2>3. q \in PathModel
      BY <2>2 DEF PathModel
    <2> HIDE DEF q
    <2> QED BY <2>1, <2>3, RecordedKeeps
  <1>4. CASE PathClock
    BY <1>4, UpstreamAssumption DEF PathClock, SetClock, SelectorTypeOK
  <1>5. CASE UNCHANGED upstreamVars
    BY <1>5 DEF upstreamVars, SelectorTypeOK
  <1> QED BY <1>1, <1>2, <1>3, <1>4, <1>5 DEF SelectorNext

LEMMA SelectorTyped ==
    SelectorSpec => []SelectorTypeOK
  <1>1. SelectorInit => SelectorTypeOK
    BY DEF SelectorInit, SelectorTypeOK
  <1> QED BY <1>1, SelectorStep, PTL DEF SelectorSpec

-----------------------------------------------------------------------------
(* The upstream selector: sorting *)

(* out is a list of n members rearranged in the order p of its places, which
   is that of R. *)
Sorts(p, out, l, n, R) ==
    /\ p \in [1 .. n -> 1 .. n] /\ \A i, j \in 1 .. n : i < j => <<p[i], p[j]>> \in R
    /\ out = [i \in 1 .. n |-> l[p[i]]]

(* Sorting in a strict order finds the order of the places. *)
LEMMA ArrangedFacts ==
    ASSUME NEW n \in Nat, NEW l, DOMAIN l = 1 .. n, NEW R, StrictOrder(1 .. n, R)
    PROVE  \E p : Sorts(p, Arranged(l, R), l, n, R)
  <1> DEFINE D == 1 .. n
             p == CHOOSE q \in [D -> D] : \A i, j \in D : i < j => <<q[i], q[j]>> \in R
  <1>1. IsFiniteSet(D) /\ Cardinality(D) = n
    BY FS_Interval
  <1>2. \E s \in [1 .. Cardinality(D) -> D] : \A i, j \in 1 .. Cardinality(D) : i < j => <<s[i], s[j]>> \in R
    <2> HIDE DEF D
    <2>1. StrictOrder(D, R)
      BY DEF D
    <2> QED BY <1>1, <2>1, OrderedExists
  <1>3. \E q \in [D -> D] : \A i, j \in D : i < j => <<q[i], q[j]>> \in R
    BY <1>1, <1>2
  <1>4. p \in [D -> D] /\ \A i, j \in D : i < j => <<p[i], p[j]>> \in R
    <2> HIDE DEF D
    <2> QED BY <1>3, Zenon
  <1>5. Arranged(l, R) = [i \in D |-> l[p[i]]]
    BY DEF Arranged
  <1>6. Sorts(p, Arranged(l, R), l, n, R)
    BY <1>4, <1>5 DEF Sorts
  <1> HIDE DEF p
  <1> QED BY <1>6

(* The order of the places leaves none out. *)
LEMMA OrderCovers ==
    ASSUME NEW n \in Nat, NEW p \in [1 .. n -> 1 .. n], NEW R, StrictOrder(1 .. n, R),
           \A i, j \in 1 .. n : i < j => <<p[i], p[j]>> \in R
    PROVE  /\ \A i, j \in 1 .. n : p[i] = p[j] => i = j
           /\ \A k \in 1 .. n : \E i \in 1 .. n : p[i] = k
  <1>1. \A i, j \in 1 .. n : p[i] = p[j] => i = j
    <2> SUFFICES ASSUME NEW i \in 1 .. n, NEW j \in 1 .. n, p[i] = p[j], i # j PROVE FALSE
      OBVIOUS
    <2>1. i < j \/ j < i
      OBVIOUS
    <2>2. <<p[i], p[i]>> \in R
      BY <2>1
    <2> QED BY <2>2 DEF StrictOrder
  <1>2. p \in Injection(1 .. n, 1 .. n)
    BY <1>1 DEF Injection, IsInjective
  <1>3. IsFiniteSet(1 .. n)
    BY FS_Interval
  <1>4. p \in Surjection(1 .. n, 1 .. n)
    BY <1>2, <1>3, FS_Injection
  <1> QED BY <1>1, <1>4 DEF Surjection

(* A non-empty set of places that holds every place before one it holds is an
   initial segment, as long as it has members. *)
LEMMA InitialSegment ==
    ASSUME NEW m \in Nat, NEW B \in SUBSET (1 .. m), 1 \in B,
           \A i, j \in 1 .. m : i < j /\ j \in B => i \in B
    PROVE  Cardinality(B) \in 1 .. m /\ B = 1 .. Cardinality(B)
  <1> DEFINE U == {k \in Nat : \A j \in B : j <= k}
  <1>1. m \in U
    OBVIOUS
  <1>2. U \in SUBSET Nat /\ U # {}
    BY <1>1
  <1>3. PICK k \in U : \A j \in U : k <= j
    BY <1>2, LeastExists
  <1>4. k \in Nat /\ 1 <= k /\ k <= m
    BY <1>1, <1>3
  <1>5. k \in B
    <2> SUFFICES ASSUME k \notin B PROVE FALSE
      OBVIOUS
    <2>1. k - 1 \in Nat /\ \A j \in B : j <= k - 1
      BY <1>3, <1>4
    <2>2. k - 1 \in U
      BY <2>1
    <2> QED BY <1>3, <1>4, <2>2
  <1>6. B = 1 .. k
    <2>1. \A i \in B : i \in 1 .. k
      BY <1>3
    <2>2. \A i \in 1 .. k : i \in B
      BY <1>4, <1>5
    <2> QED BY <2>1, <2>2
  <1>7. Cardinality(1 .. k) = k
    BY <1>4, FS_Interval
  <1> QED BY <1>4, <1>6, <1>7

(* A table of costs and a list of candidates. *)
Candidates(cost, l) == cost \in [DOMAIN Setup -> Nat] /\ l \in Seq(DOMAIN Setup) /\ l # <<>>

LEMMA CandidateFacts ==
    ASSUME NEW cost, NEW l, Candidates(cost, l)
    PROVE  /\ Len(l) \in Nat \ {0} /\ DOMAIN l = 1 .. Len(l)
           /\ \A a \in 1 .. Len(l) : l[a] \in DOMAIN Setup /\ cost[l[a]] \in Nat
           /\ Range(l) = {l[a] : a \in 1 .. Len(l)}
  <1>1. Len(l) \in Nat \ {0} /\ DOMAIN l = 1 .. Len(l)
    BY DEF Candidates
  <1>2. \A a \in 1 .. Len(l) : l[a] \in DOMAIN Setup
    BY <1>1 DEF Candidates
  <1>3. \A a \in 1 .. Len(l) : cost[l[a]] \in Nat
    BY <1>2 DEF Candidates
  <1> QED BY <1>1, <1>2, <1>3 DEF Range

(* The least cost is some candidate's. *)
LEMMA LowestFacts ==
    ASSUME NEW cost, NEW l, Candidates(cost, l)
    PROVE  /\ Lowest(cost, l) \in Nat
           /\ \A a \in 1 .. Len(l) : Lowest(cost, l) <= cost[l[a]]
           /\ \E a \in 1 .. Len(l) : Lowest(cost, l) = cost[l[a]]
  <1> DEFINE T == {cost[e] : e \in Range(l)}
  <1>1. /\ Len(l) \in Nat \ {0}
        /\ \A a \in 1 .. Len(l) : cost[l[a]] \in Nat
        /\ Range(l) = {l[a] : a \in 1 .. Len(l)}
    BY CandidateFacts
  <1>2. T = {cost[l[a]] : a \in 1 .. Len(l)}
    BY <1>1
  <1>3. T \in SUBSET Nat /\ T # {}
    BY <1>1, <1>2
  <1>4. \A c : (\A j \in T : c <= j) <=> (\A e \in Range(l) : c <= cost[e])
    OBVIOUS
  <1> HIDE DEF T
  <1>5. PICK m \in T : \A j \in T : m <= j
    BY <1>3, LeastExists
  <1>6. \E c \in T : \A e \in Range(l) : c <= cost[e]
    BY <1>4, <1>5
  <1>7. Lowest(cost, l) \in T /\ \A e \in Range(l) : Lowest(cost, l) <= cost[e]
    BY <1>6, Zenon DEF Lowest, T
  <1> QED BY <1>1, <1>2, <1>3, <1>7

(* The places of a list, by cost and then as they stand. *)
LEMMA CheaperStrict ==
    ASSUME NEW cost, NEW l, Candidates(cost, l)
    PROVE  StrictOrder(1 .. Len(l), Cheaper(cost, l))
  <1> DEFINE D == 1 .. Len(l)
             R == Cheaper(cost, l)
             f == [a \in D |-> cost[l[a]]]
  <1>1. DOMAIN l = D /\ D \subseteq Nat /\ \A a \in D : cost[l[a]] \in Nat
    BY CandidateFacts
  <1>2. f \in [D -> Nat]
    BY <1>1
  <1>3. \A x, y \in D : <<x, y>> \in R <=> f[x] < f[y] \/ (f[x] = f[y] /\ x < y)
    BY <1>1 DEF Cheaper
  <1> HIDE DEF D, R, f
  <1>4. \A x, y \in D : x # y => <<x, y>> \in R \/ <<y, x>> \in R
    BY <1>1, <1>2, <1>3
  <1>5. \A x, y, z \in D : <<x, y>> \in R /\ <<y, z>> \in R => <<x, z>> \in R
    BY <1>1, <1>2, <1>3
  <1>6. ASSUME NEW x \in D PROVE <<x, x>> \notin R
    <2>1. x \in Nat /\ f[x] \in Nat
      BY <1>1, <1>2
    <2>2. ~(f[x] < f[x]) /\ ~(x < x)
      BY <2>1
    <2> QED BY <1>3, <2>2
  <1> QED BY <1>4, <1>5, <1>6 DEF StrictOrder, D, R

(* The band's limit is at least the least cost. *)
LEMMA LimitFacts ==
    ASSUME NEW c \in Nat
    PROVE  limit(c) \in Nat /\ c <= limit(c)
  <1>1. Percent \in Nat /\ Absolute \in Nat
    BY UpstreamAssumption
  <1>2. (c * Percent) \div 100 \in Nat
    <2>1. c * Percent \in Nat
      BY <1>1, TimesNat
    <2> QED BY <2>1, DivNat
  <1>3. Most((c * Percent) \div 100, Absolute) \in Nat
    BY <1>1, <1>2 DEF Most
  <1> QED BY <1>3 DEF limit

(* The candidate at a place of the list is within the band. *)
Fits(cost, l, a) == cost[l[a]] <= limit(Lowest(cost, l))

(* sort_by_cost, in the order p of the places, puts the candidates within the
   band first, and InBand counts them. *)
BandFirst(p, cost, l) ==
    /\ Sorts(p, sort_by_cost(cost, l), l, Len(l), Cheaper(cost, l))
    /\ cost[l[p[1]]] = Lowest(cost, l)
    /\ InBand(cost, sort_by_cost(cost, l)) \in 1 .. Len(l)
    /\ \A i \in 1 .. Len(l) : Fits(cost, l, p[i]) <=> i <= InBand(cost, sort_by_cost(cost, l))

LEMMA SortFacts ==
    ASSUME NEW cost, NEW l, Candidates(cost, l)
    PROVE  \E p : BandFirst(p, cost, l)
  <1> DEFINE m == Len(l)
             R == Cheaper(cost, l)
             ranked == sort_by_cost(cost, l)
             low == Lowest(cost, l)
             most == limit(low)
             n == InBand(cost, ranked)
  <1>1. /\ m \in Nat \ {0} /\ DOMAIN l = 1 .. m
        /\ \A a \in 1 .. m : cost[l[a]] \in Nat
    BY CandidateFacts
  <1>2. StrictOrder(1 .. m, R)
    BY CheaperStrict
  <1>0. PICK p : Sorts(p, Arranged(l, R), l, m, R)
    <2> HIDE DEF m, R
    <2> QED BY <1>1, <1>2, ArrangedFacts
  <1>3. /\ p \in [1 .. m -> 1 .. m] /\ \A i, j \in 1 .. m : i < j => <<p[i], p[j]>> \in R
        /\ Arranged(l, R) = [i \in 1 .. m |-> l[p[i]]]
    BY <1>0 DEF Sorts
  <1>4. ranked = [i \in 1 .. m |-> l[p[i]]]
    BY <1>3 DEF sort_by_cost
  <1>5. \A k \in 1 .. m : \E i \in 1 .. m : p[i] = k
    <2> HIDE DEF m, R
    <2> QED BY <1>1, <1>2, <1>3, OrderCovers
  <1>6. /\ low \in Nat /\ \A a \in 1 .. m : low <= cost[l[a]]
        /\ \E a \in 1 .. m : low = cost[l[a]]
    BY LowestFacts
  <1>7. \A i, j \in 1 .. m : i < j => cost[l[p[i]]] <= cost[l[p[j]]]
    <2> SUFFICES ASSUME NEW i \in 1 .. m, NEW j \in 1 .. m, i < j PROVE cost[l[p[i]]] <= cost[l[p[j]]]
      OBVIOUS
    <2>1. <<p[i], p[j]>> \in R /\ p[i] \in 1 .. m /\ p[j] \in 1 .. m
      BY <1>3
    <2>2. cost[l[p[i]]] < cost[l[p[j]]] \/ cost[l[p[i]]] = cost[l[p[j]]]
      BY <2>1 DEF Cheaper
    <2>3. cost[l[p[i]]] \in Nat /\ cost[l[p[j]]] \in Nat
      BY <1>1, <2>1
    <2> QED BY <2>2, <2>3
  <1> HIDE DEF m, R, ranked, low
  <1>8. 1 \in 1 .. m /\ p[1] \in 1 .. m
    BY <1>1, <1>3
  <1>9. cost[l[p[1]]] = low
    <2>1. PICK a \in 1 .. m : low = cost[l[a]]
      BY <1>6
    <2>2. PICK i \in 1 .. m : p[i] = a
      BY <1>5, <2>1
    <2>3. cost[l[p[1]]] \in Nat /\ low <= cost[l[p[1]]]
      BY <1>1, <1>6, <1>8
    <2>4. CASE i = 1
      BY <2>1, <2>2, <2>4
    <2>5. CASE i # 1
      <3>1. 1 < i
        BY <1>1, <2>2, <2>5
      <3>2. cost[l[p[1]]] <= low
        BY <1>7, <1>8, <2>1, <2>2, <3>1
      <3> QED BY <1>6, <2>3, <3>2
    <2> QED BY <2>4, <2>5
  <1>10. most \in Nat /\ low <= most
    BY <1>6, LimitFacts
  <1> DEFINE B == {i \in 1 .. m : cost[l[p[i]]] <= most}
  <1>11. n = Cardinality(B)
    <2>1. DOMAIN ranked = 1 .. m
      BY <1>4
    <2>2. \A i \in 1 .. m : ranked[i] = l[p[i]]
      BY <1>4
    <2>3. {i \in DOMAIN ranked : cost[ranked[i]] <= limit(cost[ranked[1]])} = B
      BY <1>8, <1>9, <2>1, <2>2
    <2> HIDE DEF B
    <2> QED BY <2>3 DEF InBand
  <1> HIDE DEF most, n
  <1>12. 1 \in B
    BY <1>8, <1>9, <1>10
  <1>13. \A i, j \in 1 .. m : i < j /\ j \in B => i \in B
    <2> SUFFICES ASSUME NEW i \in 1 .. m, NEW j \in B, i < j PROVE cost[l[p[i]]] <= most
      OBVIOUS
    <2>1. cost[l[p[i]]] \in Nat /\ cost[l[p[j]]] \in Nat /\ cost[l[p[j]]] <= most
      BY <1>1, <1>3
    <2>2. cost[l[p[i]]] <= cost[l[p[j]]]
      BY <1>7
    <2> QED BY <1>10, <2>1, <2>2
  <1>14. B \in SUBSET (1 .. m)
    OBVIOUS
  <1> HIDE DEF B
  <1>15. n \in 1 .. m /\ B = 1 .. n
    BY <1>1, <1>11, <1>12, <1>13, <1>14, InitialSegment
  <1>16. \A i \in 1 .. m : Fits(cost, l, p[i]) <=> i <= n
    <2>1. \A i \in 1 .. m : i \in B <=> i <= n
      BY <1>1, <1>15
    <2>2. \A i \in 1 .. m : i \in B <=> cost[l[p[i]]] <= most
      BY DEF B
    <2> QED BY <2>1, <2>2 DEF Fits, most, low
  <1>17. Sorts(p, ranked, l, m, R)
    BY <1>3, <1>4 DEF Sorts
  <1>18. BandFirst(p, cost, l)
    BY <1>9, <1>15, <1>16, <1>17 DEF BandFirst, m, R, ranked, low, n
  <1> QED BY <1>18

(* The part of the sorted list that is within the band, and its length. *)
BandSize(cost, l) == InBand(cost, sort_by_cost(cost, l))
Band(cost, l) == SubSeq(sort_by_cost(cost, l), 1, BandSize(cost, l))

LEMMA BandFacts ==
    ASSUME NEW cost, NEW l, Candidates(cost, l), NEW p, BandFirst(p, cost, l)
    PROVE  /\ BandSize(cost, l) \in 1 .. Len(l) /\ DOMAIN Band(cost, l) = 1 .. BandSize(cost, l)
           /\ \A i \in 1 .. BandSize(cost, l) : p[i] \in 1 .. Len(l) /\ Band(cost, l)[i] = l[p[i]]
  <1> DEFINE m == Len(l)
             ranked == sort_by_cost(cost, l)
             n == BandSize(cost, l)
             head == Band(cost, l)
  <1>1. /\ m \in Nat \ {0}
        /\ \A a \in 1 .. m : l[a] \in DOMAIN Setup
    BY CandidateFacts
  <1>2. n \in 1 .. m
    BY DEF BandFirst, BandSize
  <1>3. p \in [1 .. m -> 1 .. m] /\ ranked = [i \in 1 .. m |-> l[p[i]]]
    BY DEF BandFirst, Sorts
  <1> HIDE DEF m, ranked, n, head
  <1>4. \A i \in 1 .. n : i \in 1 .. m /\ p[i] \in 1 .. m /\ ranked[i] = l[p[i]]
    BY <1>1, <1>2, <1>3
  <1>5. \A i \in 1 .. n : ranked[i] \in DOMAIN Setup
    BY <1>1, <1>4
  <1>6. 1 \in Int /\ n \in Int /\ 1 <= n
    BY <1>1, <1>2
  <1>7. /\ SubSeq(ranked, 1, n) \in Seq(DOMAIN Setup)
        /\ Len(SubSeq(ranked, 1, n)) = IF 1 <= n THEN n - 1 + 1 ELSE 0
        /\ \A i \in 1 .. n - 1 + 1 : SubSeq(ranked, 1, n)[i] = ranked[1 + i - 1]
    BY <1>5, <1>6, SubSeqProperties
  <1>8. head = SubSeq(ranked, 1, n)
    BY DEF ranked, head, Band, n
  <1>9. head \in Seq(DOMAIN Setup) /\ Len(head) = n
    BY <1>6, <1>7, <1>8
  <1>10. \A i \in 1 .. n : head[i] = ranked[i]
    <2> SUFFICES ASSUME NEW i \in 1 .. n PROVE head[i] = ranked[i]
      OBVIOUS
    <2>1. i \in 1 .. n - 1 + 1 /\ 1 + i - 1 = i
      BY <1>6
    <2> QED BY <1>7, <1>8, <2>1
  <1>11. DOMAIN head = 1 .. n
    BY <1>9
  <1> QED BY <1>2, <1>4, <1>9, <1>10, <1>11 DEF m, n, head

(* Where the lottery is held, the candidates within the band differ in their
   identifiers. *)
LEMMA BandDistinct ==
    ASSUME NEW cost, NEW l, Candidates(cost, l), affinity_applies(cost, l),
           NEW a \in 1 .. Len(l), NEW b \in 1 .. Len(l), a # b, Fits(cost, l, a), Fits(cost, l, b)
    PROVE  Id[l[a]] # Id[l[b]]
  <1>1. PICK p : BandFirst(p, cost, l)
    BY SortFacts
  <1> DEFINE n == BandSize(cost, l)
             head == Band(cost, l)
  <1>2. ~Collide(head)
    BY DEF affinity_applies, Band, BandSize
  <1>3. /\ n \in 1 .. Len(l) /\ DOMAIN head = 1 .. n
        /\ \A i \in 1 .. n : head[i] = l[p[i]]
    BY <1>1, BandFacts
  <1> HIDE DEF n, head
  <1>4. \A i \in 1 .. Len(l) : Fits(cost, l, p[i]) <=> i <= n
    BY <1>1 DEF BandFirst, n, BandSize
  <1>5. Len(l) \in Nat
    BY CandidateFacts
  <1>6. \A k \in 1 .. Len(l) : \E i \in 1 .. Len(l) : p[i] = k
    <2>1. StrictOrder(1 .. Len(l), Cheaper(cost, l))
      BY CheaperStrict
    <2>2. /\ p \in [1 .. Len(l) -> 1 .. Len(l)]
          /\ \A i, j \in 1 .. Len(l) : i < j => <<p[i], p[j]>> \in Cheaper(cost, l)
      BY <1>1 DEF BandFirst, Sorts
    <2> QED BY <1>5, <2>1, <2>2, OrderCovers
  <1>7. PICK i \in 1 .. Len(l), j \in 1 .. Len(l) : p[i] = a /\ p[j] = b
    BY <1>6
  <1>8. i \in 1 .. n /\ j \in 1 .. n /\ i # j
    BY <1>3, <1>4, <1>5, <1>7
  <1>9. i < j \/ j < i
    BY <1>3, <1>5, <1>8
  <1>10. Id[head[i]] # Id[head[j]]
    BY <1>2, <1>3, <1>8, <1>9 DEF Collide
  <1> QED BY <1>3, <1>7, <1>8, <1>10

-----------------------------------------------------------------------------
(* The upstream selector: the order of the candidates *)

(* What a candidate draws, when the least cost of the list is low. *)
Scored(cost, low, s, e) ==
    Draw[s][Id[e]] * (IF low = 0 THEN 1 ELSE Least(cost[e], 1000 * low))

Wins(cost, low, s, e, f) ==
    \/ Scored(cost, low, s, e) < Scored(cost, low, s, f)
    \/ Scored(cost, low, s, e) = Scored(cost, low, s, f) /\ Id[e] < Id[f]

(* The order of the places of a list that rank_with_affinity follows. *)
Ahead(cost, l, s) ==
    { q \in (1 .. Len(l)) \X (1 .. Len(l)) :
        IF ~affinity_applies(cost, l) THEN q \in Cheaper(cost, l)
        ELSE \/ Fits(cost, l, q[1]) /\ ~Fits(cost, l, q[2])
             \/ ~Fits(cost, l, q[1]) /\ ~Fits(cost, l, q[2]) /\ q \in Cheaper(cost, l)
             \/ Fits(cost, l, q[1]) /\ Fits(cost, l, q[2]) /\ Wins(cost, Lowest(cost, l), s, l[q[1]], l[q[2]]) }

LEMMA ScoredNat ==
    ASSUME NEW cost, NEW l, Candidates(cost, l), NEW s \in DOMAIN Draw, NEW a \in 1 .. Len(l)
    PROVE  Scored(cost, Lowest(cost, l), s, l[a]) \in Nat /\ Id[l[a]] \in Nat
  <1>1. l[a] \in DOMAIN Setup /\ cost[l[a]] \in Nat
    BY CandidateFacts
  <1>2. Lowest(cost, l) \in Nat
    BY LowestFacts
  <1>3. Draw[s][Id[l[a]]] \in Nat /\ Id[l[a]] \in Nat
    BY <1>1, UpstreamAssumption
  <1>4. (IF Lowest(cost, l) = 0 THEN 1 ELSE Least(cost[l[a]], 1000 * Lowest(cost, l))) \in Nat
    BY <1>1, <1>2 DEF Least
  <1> QED BY <1>3, <1>4, TimesNat DEF Scored

LEMMA AheadStrict ==
    ASSUME NEW cost, NEW l, Candidates(cost, l), NEW s \in DOMAIN Draw
    PROVE  StrictOrder(1 .. Len(l), Ahead(cost, l, s))
  <1> DEFINE D == 1 .. Len(l)
             A == Ahead(cost, l, s)
             C == Cheaper(cost, l)
             F == {a \in D : Fits(cost, l, a)}
             v == [a \in D |-> Scored(cost, Lowest(cost, l), s, l[a])]
             w == [a \in D |-> Id[l[a]]]
  <1>1. StrictOrder(D, C)
    BY CheaperStrict
  <1>2. CASE ~affinity_applies(cost, l)
    <2>1. \A x, y \in D : <<x, y>> \in A <=> <<x, y>> \in C
      BY <1>2 DEF Ahead
    <2> HIDE DEF D, A, C
    <2> QED BY <1>1, <2>1 DEF StrictOrder, D, A
  <1>3. CASE affinity_applies(cost, l)
    <2>1. v \in [D -> Nat] /\ w \in [D -> Nat]
      BY ScoredNat
    <2>2. \A x, y \in F : x # y => w[x] # w[y]
      BY <1>3, BandDistinct
    <2>3. \A x, y \in D : <<x, y>> \in A <=>
              \/ x \in F /\ y \notin F
              \/ x \notin F /\ y \notin F /\ <<x, y>> \in C
              \/ x \in F /\ y \in F /\ (v[x] < v[y] \/ (v[x] = v[y] /\ w[x] < w[y]))
      BY <1>3 DEF Ahead, Wins
    <2>4. F \subseteq D
      OBVIOUS
    <2> HIDE DEF D, A, C, F, v, w
    <2>5. ASSUME NEW x \in D, NEW y \in D, x # y PROVE <<x, y>> \in A \/ <<y, x>> \in A
      <3>1. <<x, y>> \in C \/ <<y, x>> \in C
        BY <1>1, <2>5 DEF StrictOrder
      <3>2. v[x] \in Nat /\ v[y] \in Nat /\ w[x] \in Nat /\ w[y] \in Nat
        BY <2>1
      <3> QED BY <2>2, <2>3, <2>5, <3>1, <3>2
    <2>6. ASSUME NEW x \in D, NEW y \in D, NEW z \in D, <<x, y>> \in A, <<y, z>> \in A PROVE <<x, z>> \in A
      <3>1. <<x, y>> \in C /\ <<y, z>> \in C => <<x, z>> \in C
        BY <1>1 DEF StrictOrder
      <3>2. v[x] \in Nat /\ v[y] \in Nat /\ v[z] \in Nat /\ w[x] \in Nat /\ w[y] \in Nat /\ w[z] \in Nat
        BY <2>1
      <3> QED BY <2>3, <2>6, <3>1, <3>2
    <2>7. ASSUME NEW x \in D PROVE <<x, x>> \notin A
      <3>1. <<x, x>> \notin C
        BY <1>1 DEF StrictOrder
      <3>2. ~(v[x] < v[x]) /\ ~(w[x] < w[x])
        BY <2>1
      <3> QED BY <2>3, <3>1, <3>2
    <2> QED BY <2>5, <2>6, <2>7 DEF StrictOrder, D, A
  <1> QED BY <1>2, <1>3

(* rank orders the candidates within the band by what they draw. *)
LEMMA DrawnFacts ==
    ASSUME NEW cost, NEW l, Candidates(cost, l), affinity_applies(cost, l), NEW s \in DOMAIN Draw,
           NEW p, BandFirst(p, cost, l)
    PROVE  \E q : /\ Sorts(q, rank(cost, s, Band(cost, l)), Band(cost, l), BandSize(cost, l),
                           Drawn(cost, s, Band(cost, l)))
                  /\ \A i, j \in 1 .. BandSize(cost, l) : <<i, j>> \in Drawn(cost, s, Band(cost, l))
                         <=> Wins(cost, Lowest(cost, l), s, l[p[i]], l[p[j]])
  <1> DEFINE low == Lowest(cost, l)
             n == BandSize(cost, l)
             head == Band(cost, l)
             R == Drawn(cost, s, head)
             v == [i \in 1 .. n |-> Scored(cost, low, s, l[p[i]])]
             w == [i \in 1 .. n |-> Id[l[p[i]]]]
  <1>1. n \in 1 .. Len(l) /\ DOMAIN head = 1 .. n
    BY BandFacts
  <1>2. \A i \in 1 .. n : p[i] \in 1 .. Len(l) /\ head[i] = l[p[i]]
    BY BandFacts
  <1>3. n \in Nat /\ 1 \in 1 .. n
    BY <1>1, CandidateFacts
  <1>4. cost[head[1]] = low
    BY <1>2, <1>3 DEF BandFirst
  <1>5. \A i \in 1 .. n : score(cost, s, head, i) = Scored(cost, low, s, l[p[i]])
    BY <1>2, <1>4 DEF score, Weighed, Scored
  <1>6. \A i, j \in 1 .. n : <<i, j>> \in R <=> Wins(cost, low, s, l[p[i]], l[p[j]])
    <2> SUFFICES ASSUME NEW i \in 1 .. n, NEW j \in 1 .. n
                 PROVE  <<i, j>> \in R <=> Wins(cost, low, s, l[p[i]], l[p[j]])
      OBVIOUS
    <2>1. <<i, j>> \in R <=> \/ score(cost, s, head, i) < score(cost, s, head, j)
                             \/ score(cost, s, head, i) = score(cost, s, head, j) /\ Id[head[i]] < Id[head[j]]
      BY <1>1 DEF Drawn
    <2> HIDE DEF R, low
    <2> QED BY <1>2, <1>5, <2>1 DEF Wins
  <1>7. v \in [1 .. n -> Nat] /\ w \in [1 .. n -> Nat]
    BY <1>2, ScoredNat
  <1>8. \A i, j \in 1 .. n : i # j => w[i] # w[j]
    <2> SUFFICES ASSUME NEW i \in 1 .. n, NEW j \in 1 .. n, i # j PROVE Id[l[p[i]]] # Id[l[p[j]]]
      OBVIOUS
    <2>1. ~Collide(head)
      BY DEF affinity_applies, Band, BandSize
    <2>2. i < j \/ j < i
      BY <1>3
    <2> QED BY <1>1, <1>2, <2>1, <2>2 DEF Collide
  <1>9. \A i, j \in 1 .. n : <<i, j>> \in R <=> (v[i] < v[j] \/ (v[i] = v[j] /\ w[i] < w[j]))
    <2> HIDE DEF R, low
    <2> QED BY <1>6 DEF Wins
  <1>10. StrictOrder(1 .. n, R)
    <2> DEFINE D == 1 .. n
    <2> HIDE DEF R, v, w, D
    <2>1. \A i, j \in D : <<i, j>> \in R <=> (v[i] < v[j] \/ (v[i] = v[j] /\ w[i] < w[j]))
      BY <1>9 DEF D
    <2>2. v \in [D -> Nat] /\ w \in [D -> Nat] /\ \A i, j \in D : i # j => w[i] # w[j]
      BY <1>7, <1>8 DEF D
    <2>3. \A x, y \in D : x # y => <<x, y>> \in R \/ <<y, x>> \in R
      BY <2>1, <2>2
    <2>4. \A x, y, z \in D : <<x, y>> \in R /\ <<y, z>> \in R => <<x, z>> \in R
      BY <2>1, <2>2
    <2>5. ASSUME NEW x \in D PROVE <<x, x>> \notin R
      <3>1. ~(v[x] < v[x]) /\ ~(w[x] < w[x])
        BY <2>2
      <3> QED BY <2>1, <3>1
    <2> QED BY <2>3, <2>4, <2>5 DEF StrictOrder, D
  <1>11. PICK q : Sorts(q, Arranged(head, R), head, n, R)
    <2> HIDE DEF R
    <2> QED BY <1>1, <1>3, <1>10, ArrangedFacts
  <1>12. Sorts(q, rank(cost, s, head), head, n, R)
    BY <1>11 DEF rank
  <1> QED BY <1>6, <1>12

(* Without a lottery the order is by cost. *)
LEMMA RankCases ==
    ASSUME NEW cost, NEW l, Candidates(cost, l), NEW s
    PROVE  rank_with_affinity(cost, l, s) =
               IF ~affinity_applies(cost, l) THEN sort_by_cost(cost, l)
               ELSE rank(cost, s, Band(cost, l))
                        \o SubSeq(sort_by_cost(cost, l), BandSize(cost, l) + 1, Len(l))
  <1> DEFINE m == Len(l)
             ranked == sort_by_cost(cost, l)
             n == BandSize(cost, l)
             head == Band(cost, l)
             out == rank_with_affinity(cost, l, s)
  <1>1. PICK p : BandFirst(p, cost, l)
    BY SortFacts
  <1>2. p \in [1 .. m -> 1 .. m] /\ ranked = [i \in 1 .. m |-> l[p[i]]]
    BY <1>1 DEF BandFirst, Sorts
  <1>3. m \in Nat \ {0}
    BY CandidateFacts
  <1>4. Len(ranked) = m
    <2> HIDE DEF m, ranked
    <2> QED BY <1>2, <1>3
  <1>5. affinity_applies(cost, l) <=> (m >= 2 /\ n >= 2 /\ ~Collide(head))
    BY DEF affinity_applies, Band, BandSize
  <1>6. n \in 1 .. m
    BY <1>1 DEF BandFirst, BandSize
  <1>7. out = IF Len(ranked) < 2 \/ n < 2 \/ Collide(head) THEN ranked
              ELSE rank(cost, s, head) \o SubSeq(ranked, n + 1, Len(ranked))
    BY DEF rank_with_affinity, Band, BandSize
  <1> HIDE DEF m, ranked, n, head, out
  <1>8. (m < 2 \/ n < 2) <=> ~(m >= 2 /\ n >= 2)
    BY <1>3, <1>6
  <1>9. out = IF ~affinity_applies(cost, l) THEN ranked
              ELSE rank(cost, s, head) \o SubSeq(ranked, n + 1, m)
    BY <1>4, <1>5, <1>7, <1>8
  <1> QED BY <1>9 DEF m, ranked, n, head, out

(* rank_with_affinity rearranges the list in the order Ahead. *)
LEMMA RankFacts ==
    ASSUME NEW cost, NEW l, Candidates(cost, l), NEW s \in DOMAIN Draw
    PROVE  \E p : Sorts(p, rank_with_affinity(cost, l, s), l, Len(l), Ahead(cost, l, s))
  <1> DEFINE m == Len(l)
             ranked == sort_by_cost(cost, l)
             n == BandSize(cost, l)
             head == Band(cost, l)
             tail == SubSeq(ranked, n + 1, m)
             out == rank_with_affinity(cost, l, s)
             A == Ahead(cost, l, s)
  <1>1. PICK p : BandFirst(p, cost, l)
    BY SortFacts
  <1>2. /\ p \in [1 .. m -> 1 .. m] /\ \A i, j \in 1 .. m : i < j => <<p[i], p[j]>> \in Cheaper(cost, l)
        /\ ranked = [i \in 1 .. m |-> l[p[i]]]
    BY <1>1 DEF BandFirst, Sorts
  <1>3. m \in Nat \ {0} /\ \A a \in 1 .. m : l[a] \in DOMAIN Setup
    BY CandidateFacts
  <1>4. ranked \in Seq(DOMAIN Setup) /\ Len(ranked) = m
    <2> HIDE DEF m, ranked
    <2>1. \A i \in 1 .. m : l[p[i]] \in DOMAIN Setup
      BY <1>2, <1>3
    <2> QED BY <1>2, <1>3, <2>1
  <1>5. out = IF ~affinity_applies(cost, l) THEN ranked ELSE rank(cost, s, head) \o tail
    BY RankCases
  <1>6. CASE ~affinity_applies(cost, l)
    <2>1. \A x, y \in 1 .. m : <<x, y>> \in A <=> <<x, y>> \in Cheaper(cost, l)
      BY <1>6 DEF Ahead
    <2> HIDE DEF m, ranked, out, A
    <2>2. Sorts(p, out, l, m, A)
      BY <1>2, <1>5, <1>6, <2>1 DEF Sorts
    <2> QED BY <2>2 DEF m, out, A
  <1>7. CASE affinity_applies(cost, l)
    <2>1. PICK q : /\ Sorts(q, rank(cost, s, head), head, n, Drawn(cost, s, head))
                   /\ \A i, j \in 1 .. n : <<i, j>> \in Drawn(cost, s, head)
                          <=> Wins(cost, Lowest(cost, l), s, l[p[i]], l[p[j]])
      BY <1>1, <1>7, DrawnFacts
    <2>2. \A i \in 1 .. n : p[i] \in 1 .. m /\ head[i] = l[p[i]]
      BY <1>1, BandFacts
    <2>3. n \in 1 .. m /\ \A i \in 1 .. m : Fits(cost, l, p[i]) <=> i <= n
      BY <1>1 DEF BandFirst, BandSize
    <2>4. \A x, y \in 1 .. m : <<x, y>> \in A <=>
              \/ Fits(cost, l, x) /\ ~Fits(cost, l, y)
              \/ ~Fits(cost, l, x) /\ ~Fits(cost, l, y) /\ <<x, y>> \in Cheaper(cost, l)
              \/ Fits(cost, l, x) /\ Fits(cost, l, y) /\ Wins(cost, Lowest(cost, l), s, l[x], l[y])
      BY <1>7 DEF Ahead
    <2> DEFINE first == rank(cost, s, head)
    <2>5. /\ q \in [1 .. n -> 1 .. n] /\ \A i, j \in 1 .. n : i < j => <<q[i], q[j]>> \in Drawn(cost, s, head)
          /\ first = [i \in 1 .. n |-> head[q[i]]]
      BY <2>1 DEF Sorts
    <2>6. out = first \o tail
      BY <1>5, <1>7
    <2> HIDE DEF m, ranked, n, head, out, A, first
    <2>7. m \in Nat /\ n \in Nat /\ n <= m
      BY <1>3, <2>3
    <2>8. \A i \in 1 .. n : q[i] \in 1 .. n /\ p[q[i]] \in 1 .. m /\ first[i] = l[p[q[i]]]
      BY <2>2, <2>5
    <2>9. first \in Seq(DOMAIN Setup) /\ Len(first) = n
      <3>1. \A i \in 1 .. n : head[q[i]] \in DOMAIN Setup
        BY <1>3, <2>2, <2>8
      <3> QED BY <2>5, <2>7, <3>1
    <2>10. tail \in Seq(DOMAIN Setup) /\ Len(tail) = m - n /\ \A i \in 1 .. m - n : tail[i] = ranked[n + i]
      <3>1. \A i \in n + 1 .. m : ranked[i] \in DOMAIN Setup
        BY <1>4, <2>7
      <3>2. n + 1 \in Int /\ m \in Int
        BY <2>7
      <3>3. /\ tail \in Seq(DOMAIN Setup) /\ Len(tail) = IF n + 1 <= m THEN m - (n + 1) + 1 ELSE 0
            /\ \A i \in 1 .. m - (n + 1) + 1 : tail[i] = ranked[(n + 1) + i - 1]
        BY <3>1, <3>2, SubSeqProperties
      <3> HIDE DEF tail
      <3>4. \A i \in 1 .. m - n : i \in 1 .. m - (n + 1) + 1 /\ (n + 1) + i - 1 = n + i
        BY <2>7
      <3> QED BY <2>7, <3>3, <3>4
    <2> HIDE DEF tail
    <2>11. /\ out \in Seq(DOMAIN Setup) /\ Len(out) = m
           /\ \A i \in 1 .. m : out[i] = IF i <= n THEN first[i] ELSE tail[i - n]
      <3>1. /\ first \o tail \in Seq(DOMAIN Setup) /\ Len(first \o tail) = Len(first) + Len(tail)
            /\ \A i \in 1 .. Len(first) + Len(tail) :
                   (first \o tail)[i] = IF i <= Len(first) THEN first[i] ELSE tail[i - Len(first)]
        BY <2>9, <2>10, ConcatProperties
      <3>2. Len(first) + Len(tail) = m
        BY <2>7, <2>9, <2>10
      <3> QED BY <2>6, <2>9, <3>1, <3>2
    <2> DEFINE r == [i \in 1 .. m |-> IF i <= n THEN p[q[i]] ELSE p[i]]
    <2>12. r \in [1 .. m -> 1 .. m]
      BY <1>2, <2>7, <2>8
    <2>13. \A i \in 1 .. m : i <= n => i \in 1 .. n /\ r[i] = p[q[i]] /\ Fits(cost, l, r[i])
      <3> SUFFICES ASSUME NEW i \in 1 .. m, i <= n PROVE i \in 1 .. n /\ r[i] = p[q[i]] /\ Fits(cost, l, r[i])
        OBVIOUS
      <3>1. i \in 1 .. n /\ r[i] = p[q[i]]
        BY <2>7
      <3>2. q[i] \in 1 .. m /\ q[i] <= n
        BY <2>7, <2>8, <3>1
      <3> QED BY <2>3, <3>1, <3>2
    <2>14. \A i \in 1 .. m : ~(i <= n) => r[i] = p[i] /\ ~Fits(cost, l, r[i])
      BY <2>3
    <2>15. ASSUME NEW i \in 1 .. m PROVE out[i] = l[r[i]]
      <3>1. CASE i <= n
        BY <2>8, <2>11, <2>13, <3>1
      <3>2. CASE ~(i <= n)
        <4>1. i - n \in 1 .. m - n /\ n + (i - n) = i
          BY <2>7, <3>2
        <4>2. out[i] = ranked[i]
          BY <2>10, <2>11, <3>2, <4>1
        <4> QED BY <1>2, <2>14, <3>2, <4>2
      <3> QED BY <3>1, <3>2
    <2> HIDE DEF r
    <2>16. ASSUME NEW i \in 1 .. m, NEW j \in 1 .. m, i < j PROVE <<r[i], r[j]>> \in A
      <3>1. r[i] \in 1 .. m /\ r[j] \in 1 .. m
        BY <2>12
      <3>2. CASE j <= n
        <4>1. i <= n
          BY <2>7, <2>16, <3>2
        <4>2. Wins(cost, Lowest(cost, l), s, l[r[i]], l[r[j]])
          <5>1. i \in 1 .. n /\ j \in 1 .. n /\ q[i] \in 1 .. n /\ q[j] \in 1 .. n
            BY <2>8, <2>13, <3>2, <4>1
          <5>2. <<q[i], q[j]>> \in Drawn(cost, s, head)
            BY <2>5, <2>16, <5>1
          <5> QED BY <2>1, <2>13, <3>2, <4>1, <5>1, <5>2
        <4> QED BY <2>4, <2>13, <3>1, <3>2, <4>1, <4>2
      <3>3. CASE i <= n /\ ~(j <= n)
        BY <2>4, <2>13, <2>14, <3>1, <3>3
      <3>4. CASE ~(i <= n) /\ ~(j <= n)
        <4>1. <<r[i], r[j]>> \in Cheaper(cost, l)
          BY <1>2, <2>14, <2>16, <3>4
        <4> QED BY <2>4, <2>14, <3>1, <3>4, <4>1
      <3>5. ~(i <= n) => ~(j <= n)
        BY <2>7, <2>16
      <3> QED BY <3>2, <3>3, <3>4, <3>5
    <2>17. out = [i \in 1 .. m |-> l[r[i]]]
      <3>1. out = [i \in 1 .. m |-> out[i]]
        BY <2>7, <2>11
      <3> QED BY <2>15, <3>1
    <2>18. Sorts(r, out, l, m, A)
      BY <2>12, <2>16, <2>17 DEF Sorts
    <2> QED BY <2>18 DEF m, out, A
  <1> QED BY <1>6, <1>7

(* Every place of the list is somewhere in its order. *)
LEMMA RankCovers ==
    ASSUME NEW cost, NEW l, Candidates(cost, l), NEW s \in DOMAIN Draw,
           NEW p, Sorts(p, rank_with_affinity(cost, l, s), l, Len(l), Ahead(cost, l, s))
    PROVE  \A k \in 1 .. Len(l) : \E i \in 1 .. Len(l) : p[i] = k
  <1>1. Len(l) \in Nat
    BY CandidateFacts
  <1>2. StrictOrder(1 .. Len(l), Ahead(cost, l, s))
    BY AheadStrict
  <1>3. /\ p \in [1 .. Len(l) -> 1 .. Len(l)]
        /\ \A i, j \in 1 .. Len(l) : i < j => <<p[i], p[j]>> \in Ahead(cost, l, s)
    BY DEF Sorts
  <1> QED BY <1>1, <1>2, <1>3, OrderCovers

(* What Ahead says of two places. *)
LEMMA AheadCosts ==
    ASSUME NEW cost, NEW l, Candidates(cost, l), NEW s \in DOMAIN Draw,
           NEW a \in 1 .. Len(l), NEW b \in 1 .. Len(l), <<a, b>> \in Ahead(cost, l, s)
    PROVE  /\ Fits(cost, l, b) => Fits(cost, l, a)
           /\ ~Fits(cost, l, a) => cost[l[a]] <= cost[l[b]]
  <1>1. cost[l[a]] \in Nat /\ cost[l[b]] \in Nat
    BY CandidateFacts
  <1>2. limit(Lowest(cost, l)) \in Nat
    BY LowestFacts, LimitFacts
  <1>3. <<a, b>> \in Cheaper(cost, l) => cost[l[a]] <= cost[l[b]]
    <2> SUFFICES ASSUME <<a, b>> \in Cheaper(cost, l) PROVE cost[l[a]] <= cost[l[b]]
      OBVIOUS
    <2>1. cost[l[a]] < cost[l[b]] \/ cost[l[a]] = cost[l[b]]
      BY DEF Cheaper
    <2> QED BY <1>1, <2>1
  <1>4. \/ <<a, b>> \in Cheaper(cost, l)
        \/ Fits(cost, l, a)
    BY DEF Ahead
  <1>5. cost[l[a]] <= cost[l[b]] => (Fits(cost, l, b) => Fits(cost, l, a))
    BY <1>1, <1>2 DEF Fits
  <1> QED BY <1>3, <1>4, <1>5

(* The first candidate tried costs no more than the band allows. *)
LEMMA FirstFits ==
    ASSUME NEW cost, NEW l, Candidates(cost, l), NEW s \in DOMAIN Draw,
           NEW p, Sorts(p, rank_with_affinity(cost, l, s), l, Len(l), Ahead(cost, l, s))
    PROVE  Fits(cost, l, p[1])
  <1>1. Len(l) \in Nat \ {0} /\ 1 \in 1 .. Len(l)
    BY CandidateFacts
  <1>2. PICK a \in 1 .. Len(l) : Lowest(cost, l) = cost[l[a]]
    BY LowestFacts
  <1>3. Fits(cost, l, a)
    <2>1. Lowest(cost, l) \in Nat
      BY LowestFacts
    <2>2. Lowest(cost, l) <= limit(Lowest(cost, l))
      BY <2>1, LimitFacts
    <2> QED BY <1>2, <2>2 DEF Fits
  <1>4. PICK i \in 1 .. Len(l) : p[i] = a
    BY <1>2, RankCovers
  <1>5. CASE i = 1
    BY <1>3, <1>4, <1>5
  <1>6. CASE i # 1
    <2>1. 1 < i
      BY <1>1, <1>4, <1>6
    <2>2. p[1] \in 1 .. Len(l) /\ <<p[1], a>> \in Ahead(cost, l, s)
      BY <1>1, <1>4, <2>1 DEF Sorts
    <2> QED BY <1>2, <1>3, <2>2, AheadCosts
  <1> QED BY <1>5, <1>6

LEMMA ListsAreCandidates ==
    ASSUME SelectorTypeOK, NEW l \in Lists
    PROVE  Candidates(Costs, l)
  <1>1. l \in Seq(DOMAIN Setup) /\ l # <<>>
    BY UpstreamAssumption
  <1> QED BY <1>1, CostsTyped DEF Candidates

(* Whatever outcomes were recorded and whichever servers collide: the ranking
   loses no candidate and tries none twice, the first one tried is within the
   band, a server beyond it is never tried before a cheaper one, and where
   affinity_applies denies a lottery the order is by cost. *)
THEOREM OnlyEqualsCompete ==
    SelectorSpec => []LotteryAmongEquals
  <1>1. SelectorTypeOK => LotteryAmongEquals
    <2> SUFFICES ASSUME SelectorTypeOK PROVE LotteryAmongEquals
      OBVIOUS
    <2> DEFINE cost == Costs
    <2> HIDE DEF cost
    <2>1. ASSUME NEW l \in Lists, NEW s \in DOMAIN Draw
          PROVE  LET out == rank_with_affinity(cost, l, s)
                     most == limit(Lowest(cost, l))
                 IN  /\ Len(out) = Len(l) /\ Range(out) = Range(l)
                     /\ cost[out[1]] <= most
                     /\ \A i, j \in DOMAIN out : i < j /\ cost[out[i]] > most => cost[out[i]] <= cost[out[j]]
                     /\ ~affinity_applies(cost, l) => out = sort_by_cost(cost, l)
      <3> DEFINE m == Len(l)
                 out == rank_with_affinity(cost, l, s)
                 most == limit(Lowest(cost, l))
      <3>1. Candidates(cost, l)
        BY ListsAreCandidates DEF cost
      <3>2. m \in Nat \ {0} /\ 1 \in 1 .. m /\ \A a \in 1 .. m : l[a] \in DOMAIN Setup /\ cost[l[a]] \in Nat
        BY <3>1, CandidateFacts
      <3>3. Range(l) = {l[a] : a \in 1 .. m}
        BY <3>1, CandidateFacts
      <3>4. PICK p : Sorts(p, out, l, m, Ahead(cost, l, s))
        BY <3>1, RankFacts
      <3>5. \A k \in 1 .. m : \E i \in 1 .. m : p[i] = k
        BY <3>1, <3>4, RankCovers
      <3>6. Fits(cost, l, p[1])
        BY <3>1, <3>4, FirstFits
      <3>7. ~affinity_applies(cost, l) => out = sort_by_cost(cost, l)
        BY <3>1, RankCases
      <3>8. most \in Nat
        BY <3>1, LowestFacts, LimitFacts
      <3>9. \A a \in 1 .. m : Fits(cost, l, a) <=> cost[l[a]] <= most
        BY DEF Fits
      <3>10. \A a, b \in 1 .. m : <<a, b>> \in Ahead(cost, l, s) /\ ~Fits(cost, l, a) => cost[l[a]] <= cost[l[b]]
        BY <3>1, AheadCosts
      <3>11. /\ p \in [1 .. m -> 1 .. m] /\ out = [i \in 1 .. m |-> l[p[i]]]
             /\ \A i, j \in 1 .. m : i < j => <<p[i], p[j]>> \in Ahead(cost, l, s)
        BY <3>4 DEF Sorts
      <3> HIDE DEF m, out, most
      <3>12. DOMAIN out = 1 .. m /\ \A i \in 1 .. m : p[i] \in 1 .. m /\ out[i] = l[p[i]]
        BY <3>11
      <3>13. Len(out) = m
        <4>1. out \in Seq(DOMAIN Setup)
          BY <3>2, <3>11, <3>12
        <4> QED BY <3>2, <3>12, <4>1
      <3>14. Range(out) = Range(l)
        <4>1. Range(out) = {out[i] : i \in 1 .. m}
          BY <3>12 DEF Range
        <4>2. \A i \in 1 .. m : out[i] \in {l[a] : a \in 1 .. m}
          BY <3>12
        <4>3. ASSUME NEW a \in 1 .. m PROVE l[a] \in {out[i] : i \in 1 .. m}
          <5>1. PICK i \in 1 .. m : p[i] = a
            BY <3>5
          <5>2. out[i] = l[a]
            BY <3>12, <5>1
          <5> QED BY <5>2
        <4>4. {out[i] : i \in 1 .. m} = {l[a] : a \in 1 .. m}
          BY <4>2, <4>3
        <4> QED BY <3>3, <4>1, <4>4
      <3>15. cost[out[1]] <= most
        BY <3>2, <3>6, <3>9, <3>12
      <3>16. ASSUME NEW i \in 1 .. m, NEW j \in 1 .. m, i < j, cost[out[i]] > most
             PROVE  cost[out[i]] <= cost[out[j]]
        <4>1. p[i] \in 1 .. m /\ p[j] \in 1 .. m /\ cost[l[p[i]]] \in Nat /\ cost[l[p[i]]] > most
          BY <3>2, <3>12, <3>16
        <4>2. ~Fits(cost, l, p[i])
          BY <3>8, <3>9, <4>1
        <4> QED BY <3>10, <3>11, <3>12, <3>16, <4>1, <4>2
      <3> QED BY <3>7, <3>12, <3>13, <3>14, <3>15, <3>16 DEF m, out, most
    <2>2. cost \in [DOMAIN Setup -> Nat]
      BY CostsTyped DEF cost
    <2> QED BY <2>1, <2>2 DEF LotteryAmongEquals, Subjects, cost
  <1> QED BY <1>1, SelectorTyped, PTL

-----------------------------------------------------------------------------
(* The upstream selector: stability *)

(* Candidates that differ in their identifiers are different candidates. *)
LEMMA DistinctFacts ==
    ASSUME NEW cost, NEW l, Candidates(cost, l), ~Collide(l),
           NEW a \in 1 .. Len(l), NEW b \in 1 .. Len(l), a # b
    PROVE  Id[l[a]] # Id[l[b]] /\ l[a] # l[b]
  <1>1. Len(l) \in Nat /\ DOMAIN l = 1 .. Len(l)
    BY CandidateFacts
  <1>2. a < b \/ b < a
    BY <1>1
  <1>3. Id[l[a]] # Id[l[b]]
    BY <1>1, <1>2 DEF Collide
  <1> QED BY <1>3

(* Who precedes whom is what Ahead says of their places. *)
LEMMA PrecedesIff ==
    ASSUME NEW cost, NEW l, Candidates(cost, l), ~Collide(l), NEW s \in DOMAIN Draw,
           NEW a \in 1 .. Len(l), NEW b \in 1 .. Len(l)
    PROVE  Precedes(rank_with_affinity(cost, l, s), l[a], l[b]) <=> <<a, b>> \in Ahead(cost, l, s)
  <1> DEFINE m == Len(l)
             out == rank_with_affinity(cost, l, s)
             A == Ahead(cost, l, s)
  <1>1. PICK p : Sorts(p, out, l, m, A)
    BY RankFacts
  <1>2. \A k \in 1 .. m : \E i \in 1 .. m : p[i] = k
    BY <1>1, RankCovers
  <1>3. StrictOrder(1 .. m, A)
    BY AheadStrict
  <1>4. m \in Nat
    BY CandidateFacts
  <1>5. \A x, y \in 1 .. m : l[x] = l[y] => x = y
    BY DistinctFacts
  <1>6. /\ p \in [1 .. m -> 1 .. m] /\ out = [i \in 1 .. m |-> l[p[i]]]
        /\ \A i, j \in 1 .. m : i < j => <<p[i], p[j]>> \in A
    BY <1>1 DEF Sorts
  <1> HIDE DEF m, out, A
  <1>7. DOMAIN out = 1 .. m /\ \A i \in 1 .. m : p[i] \in 1 .. m /\ out[i] = l[p[i]]
    BY <1>6
  <1>8. a \in 1 .. m /\ b \in 1 .. m
    BY DEF m
  <1>9. ASSUME Precedes(out, l[a], l[b]) PROVE <<a, b>> \in A
    <2>1. PICK i \in 1 .. m, j \in 1 .. m : i < j /\ out[i] = l[a] /\ out[j] = l[b]
      BY <1>7, <1>9 DEF Precedes
    <2>2. p[i] = a /\ p[j] = b
      BY <1>5, <1>7, <1>8, <2>1
    <2> QED BY <1>6, <2>1, <2>2
  <1>10. ASSUME <<a, b>> \in A PROVE Precedes(out, l[a], l[b])
    <2>1. PICK i \in 1 .. m, j \in 1 .. m : p[i] = a /\ p[j] = b
      BY <1>2, <1>8
    <2>2. ~(j < i)
      <3> SUFFICES ASSUME j < i PROVE FALSE
        OBVIOUS
      <3>1. <<b, a>> \in A
        BY <1>6, <2>1
      <3>2. <<a, a>> \in A
        BY <1>3, <1>8, <1>10, <3>1 DEF StrictOrder
      <3> QED BY <1>3, <1>8, <3>2 DEF StrictOrder
    <2>3. i # j
      <3> SUFFICES ASSUME i = j PROVE FALSE
        OBVIOUS
      <3>1. <<a, a>> \in A
        BY <1>10, <2>1
      <3> QED BY <1>3, <1>8, <3>1 DEF StrictOrder
    <2>4. i < j
      BY <1>4, <2>2, <2>3
    <2> QED BY <1>7, <2>1, <2>4 DEF Precedes
  <1> QED BY <1>9, <1>10 DEF out, A

(* Where no identifiers collide, a lottery is held as soon as two candidates
   are within the band. *)
LEMMA AppliesIff ==
    ASSUME NEW cost, NEW l, Candidates(cost, l), ~Collide(l)
    PROVE  affinity_applies(cost, l) <=>
               \E a, b \in 1 .. Len(l) : a # b /\ Fits(cost, l, a) /\ Fits(cost, l, b)
  <1> DEFINE m == Len(l)
             n == BandSize(cost, l)
             head == Band(cost, l)
  <1>1. PICK p : BandFirst(p, cost, l)
    BY SortFacts
  <1>2. /\ n \in 1 .. m /\ DOMAIN head = 1 .. n
        /\ \A i \in 1 .. n : p[i] \in 1 .. m /\ head[i] = l[p[i]]
    BY <1>1, BandFacts
  <1>3. \A i \in 1 .. m : Fits(cost, l, p[i]) <=> i <= n
    BY <1>1 DEF BandFirst, BandSize
  <1>4. m \in Nat
    BY CandidateFacts
  <1>5. /\ \A i, j \in 1 .. m : p[i] = p[j] => i = j
        /\ \A k \in 1 .. m : \E i \in 1 .. m : p[i] = k
    <2>1. StrictOrder(1 .. m, Cheaper(cost, l))
      BY CheaperStrict
    <2>2. /\ p \in [1 .. m -> 1 .. m]
          /\ \A i, j \in 1 .. m : i < j => <<p[i], p[j]>> \in Cheaper(cost, l)
      BY <1>1 DEF BandFirst, Sorts
    <2> HIDE DEF m
    <2> QED BY <1>4, <2>1, <2>2, OrderCovers
  <1>6. affinity_applies(cost, l) <=> (m >= 2 /\ n >= 2 /\ ~Collide(head))
    BY DEF affinity_applies, Band, BandSize
  <1>7. \A x, y \in 1 .. m : x # y => Id[l[x]] # Id[l[y]]
    BY DistinctFacts
  <1> HIDE DEF m, n, head
  <1>8. ~Collide(head)
    <2> SUFFICES ASSUME NEW i \in 1 .. n, NEW j \in 1 .. n, i < j PROVE Id[head[i]] # Id[head[j]]
      BY <1>2 DEF Collide
    <2>1. i \in 1 .. m /\ j \in 1 .. m /\ i # j
      BY <1>2, <1>4
    <2>2. p[i] # p[j]
      BY <1>5, <2>1
    <2> QED BY <1>2, <1>7, <2>2
  <1>9. ASSUME n >= 2 PROVE m >= 2 /\ \E a, b \in 1 .. m : a # b /\ Fits(cost, l, a) /\ Fits(cost, l, b)
    <2>1. m >= 2 /\ 1 \in 1 .. m /\ 2 \in 1 .. m /\ 1 \in 1 .. n /\ 2 \in 1 .. n /\ 1 <= n /\ 2 <= n
      BY <1>2, <1>4, <1>9
    <2>2. p[1] # p[2]
      <3>1. p[1] = p[2] => 1 = 2
        BY <1>5, <2>1
      <3> QED BY <3>1
    <2>3. p[1] \in 1 .. m /\ p[2] \in 1 .. m /\ Fits(cost, l, p[1]) /\ Fits(cost, l, p[2])
      BY <1>2, <1>3, <2>1
    <2> QED BY <2>1, <2>2, <2>3
  <1>10. ASSUME NEW a \in 1 .. m, NEW b \in 1 .. m, a # b, Fits(cost, l, a), Fits(cost, l, b) PROVE n >= 2
    <2>1. PICK i \in 1 .. m, j \in 1 .. m : p[i] = a /\ p[j] = b
      BY <1>5
    <2>2. i <= n /\ j <= n /\ i # j
      BY <1>3, <1>10, <2>1
    <2> QED BY <1>2, <1>4, <2>1, <2>2
  <1> QED BY <1>6, <1>8, <1>9, <1>10 DEF m

(* Where the others stand once the x-th candidate is withdrawn. *)
Skip(x, k) == IF k < x THEN k ELSE k + 1

LEMMA WithoutFacts ==
    ASSUME NEW cost, NEW l, Candidates(cost, l), Len(l) > 1, NEW x \in 1 .. Len(l)
    PROVE  /\ Candidates(cost, Without(l, x)) /\ Len(Without(l, x)) = Len(l) - 1
           /\ \A k \in 1 .. Len(l) - 1 : Skip(x, k) \in 1 .. Len(l) /\ Without(l, x)[k] = l[Skip(x, k)]
  <1> DEFINE m == Len(l)
             S == DOMAIN Setup
             u == SubSeq(l, 1, x - 1)
             v == SubSeq(l, x + 1, m)
             w == u \o v
  <1>1. m \in Nat /\ \A a \in 1 .. m : l[a] \in S
    BY CandidateFacts
  <1>2. x \in Nat /\ 1 <= x /\ x <= m /\ m > 1
    BY <1>1
  <1> HIDE DEF m, S
  <1>3. u \in Seq(S) /\ Len(u) = x - 1 /\ \A i \in 1 .. x - 1 : u[i] = l[i]
    <2>1. \A i \in 1 .. x - 1 : l[i] \in S
      BY <1>1, <1>2
    <2>2. 1 \in Int /\ x - 1 \in Int
      BY <1>2
    <2>3. /\ u \in Seq(S) /\ Len(u) = IF 1 <= x - 1 THEN (x - 1) - 1 + 1 ELSE 0
          /\ \A i \in 1 .. (x - 1) - 1 + 1 : u[i] = l[1 + i - 1]
      BY <2>1, <2>2, SubSeqProperties
    <2> HIDE DEF u
    <2>4. \A i \in 1 .. x - 1 : i \in 1 .. (x - 1) - 1 + 1 /\ 1 + i - 1 = i
      BY <1>2
    <2> QED BY <1>2, <2>3, <2>4
  <1>4. v \in Seq(S) /\ Len(v) = m - x /\ \A i \in 1 .. m - x : v[i] = l[x + i]
    <2>1. \A i \in x + 1 .. m : l[i] \in S
      BY <1>1, <1>2
    <2>2. x + 1 \in Int /\ m \in Int
      BY <1>1, <1>2
    <2>3. /\ v \in Seq(S) /\ Len(v) = IF x + 1 <= m THEN m - (x + 1) + 1 ELSE 0
          /\ \A i \in 1 .. m - (x + 1) + 1 : v[i] = l[(x + 1) + i - 1]
      BY <2>1, <2>2, SubSeqProperties
    <2> HIDE DEF v
    <2>4. \A i \in 1 .. m - x : i \in 1 .. m - (x + 1) + 1 /\ (x + 1) + i - 1 = x + i
      BY <1>1, <1>2
    <2> QED BY <1>1, <1>2, <2>3, <2>4
  <1> HIDE DEF u, v
  <1>5. /\ w \in Seq(S) /\ Len(w) = Len(u) + Len(v)
        /\ \A i \in 1 .. Len(u) + Len(v) : w[i] = IF i <= Len(u) THEN u[i] ELSE v[i - Len(u)]
    BY <1>3, <1>4, ConcatProperties
  <1> HIDE DEF w
  <1>6. Len(u) + Len(v) = m - 1 /\ m - 1 \in Nat \ {0}
    BY <1>1, <1>2, <1>3, <1>4
  <1>7. ASSUME NEW k \in 1 .. m - 1 PROVE Skip(x, k) \in 1 .. m /\ w[k] = l[Skip(x, k)]
    <2>1. CASE k < x
      <3>1. k \in 1 .. m /\ k \in 1 .. x - 1 /\ k <= x - 1
        BY <1>1, <1>2, <2>1
      <3>2. w[k] = u[k]
        BY <1>3, <1>5, <1>6, <3>1
      <3> QED BY <1>3, <2>1, <3>1, <3>2 DEF Skip
    <2>2. CASE ~(k < x)
      <3>1. k + 1 \in 1 .. m /\ k - (x - 1) \in 1 .. m - x /\ x + (k - (x - 1)) = k + 1 /\ ~(k <= x - 1)
        BY <1>1, <1>2, <2>2
      <3>2. w[k] = v[k - (x - 1)]
        BY <1>3, <1>5, <1>6, <3>1
      <3>3. w[k] = l[k + 1]
        BY <1>4, <3>1, <3>2
      <3> QED BY <2>2, <3>1, <3>3 DEF Skip
    <2> QED BY <2>1, <2>2
  <1>8. Without(l, x) = w
    BY DEF Without, w, u, v, m
  <1>9. w # <<>>
    BY <1>5, <1>6
  <1>10. Candidates(cost, w)
    BY <1>5, <1>9 DEF Candidates, S
  <1> QED BY <1>5, <1>6, <1>7, <1>8, <1>10 DEF m

(* The others keep their places with respect to each other. *)
LEMMA SkipFacts ==
    ASSUME NEW x \in Nat, NEW a \in Nat, NEW b \in Nat
    PROVE  (Skip(x, a) < Skip(x, b) <=> a < b) /\ (Skip(x, a) = Skip(x, b) <=> a = b)
  BY DEF Skip

(* A withdrawn candidate other than the cheapest leaves the order of the
   others as it was. *)
LEMMA AheadSame ==
    ASSUME NEW cost, NEW l, Candidates(cost, l), ~Collide(l), Len(l) > 1, NEW x \in 1 .. Len(l),
           Lowest(cost, Without(l, x)) = Lowest(cost, l), NEW s \in DOMAIN Draw,
           NEW a \in 1 .. Len(l) - 1, NEW b \in 1 .. Len(l) - 1
    PROVE  /\ ~Collide(Without(l, x))
           /\ <<a, b>> \in Ahead(cost, Without(l, x), s) <=> <<Skip(x, a), Skip(x, b)>> \in Ahead(cost, l, s)
  <1> DEFINE m == Len(l)
             r == Without(l, x)
             low == Lowest(cost, l)
             lim == limit(low)
             D == 1 .. m - 1
             c == Skip(x, a)
             d == Skip(x, b)
  <1>1. Candidates(cost, r) /\ Len(r) = m - 1
    BY WithoutFacts
  <1>2. \A k \in D : Skip(x, k) \in 1 .. m /\ r[k] = l[Skip(x, k)]
    BY WithoutFacts
  <1>3. m \in Nat /\ DOMAIN l = 1 .. m /\ \A k \in 1 .. m : cost[l[k]] \in Nat
    BY CandidateFacts
  <1>4. DOMAIN r = D
    BY <1>1, CandidateFacts
  <1>5. \A i, j \in D : (Skip(x, i) < Skip(x, j) <=> i < j) /\ (Skip(x, i) = Skip(x, j) <=> i = j)
    <2>1. x \in Nat /\ \A i \in D : i \in Nat
      BY <1>3
    <2> HIDE DEF D
    <2> QED BY <2>1, SkipFacts
  <1>6. \A i, j \in 1 .. m : i # j => Id[l[i]] # Id[l[j]]
    BY DistinctFacts
  <1>7. \A k \in 1 .. m : Fits(cost, l, k) <=> cost[l[k]] <= lim
    BY DEF Fits
  <1>8. \A k \in D : Fits(cost, r, k) <=> Fits(cost, l, Skip(x, k))
    <2>1. Lowest(cost, r) = low
      OBVIOUS
    <2>2. \A k \in D : Fits(cost, r, k) <=> cost[r[k]] <= lim
      <3> HIDE DEF r, low
      <3> QED BY <2>1 DEF Fits
    <2> HIDE DEF r, low, D, lim, m
    <2> QED BY <1>2, <1>7, <2>2
  <1>9. lim \in Nat
    BY LowestFacts, LimitFacts
  <1>10. a \in D /\ b \in D /\ c \in 1 .. m /\ d \in 1 .. m /\ r[a] = l[c] /\ r[b] = l[d]
    BY <1>2
  <1>11. <<a, b>> \in Cheaper(cost, r) <=> <<c, d>> \in Cheaper(cost, l)
    <2>1. <<a, b>> \in Cheaper(cost, r) <=>
              (cost[r[a]] < cost[r[b]] \/ (cost[r[a]] = cost[r[b]] /\ a < b))
      <3> HIDE DEF r
      <3> QED BY <1>4, <1>10 DEF Cheaper
    <2>2. <<c, d>> \in Cheaper(cost, l) <=>
              (cost[l[c]] < cost[l[d]] \/ (cost[l[c]] = cost[l[d]] /\ c < d))
      <3> HIDE DEF c, d
      <3> QED BY <1>3, <1>10 DEF Cheaper
    <2>3. c < d <=> a < b
      BY <1>5
    <2> HIDE DEF r, c, d
    <2> QED BY <1>10, <2>1, <2>2, <2>3
  <1>12. ~Collide(r)
    <2> SUFFICES ASSUME NEW i \in D, NEW j \in D, i < j PROVE Id[r[i]] # Id[r[j]]
      BY <1>4 DEF Collide
    <2>1. i # j
      BY <1>3
    <2>2. Skip(x, i) # Skip(x, j)
      BY <1>5, <2>1
    <2> HIDE DEF r, D
    <2> QED BY <1>2, <1>6, <2>2
  <1>13. affinity_applies(cost, r) <=> \E i, j \in D : i # j /\ Fits(cost, r, i) /\ Fits(cost, r, j)
    <2>1. affinity_applies(cost, r) <=>
              \E i, j \in 1 .. Len(r) : i # j /\ Fits(cost, r, i) /\ Fits(cost, r, j)
      <3> HIDE DEF r
      <3> QED BY <1>1, <1>12, AppliesIff
    <2>2. 1 .. Len(r) = D
      BY <1>1
    <2> HIDE DEF r, D
    <2> QED BY <2>1, <2>2
  <1>14. affinity_applies(cost, l) <=> \E i, j \in 1 .. m : i # j /\ Fits(cost, l, i) /\ Fits(cost, l, j)
    BY AppliesIff
  <1>15. <<a, b>> \in Ahead(cost, r, s) <=>
             IF ~affinity_applies(cost, r) THEN <<a, b>> \in Cheaper(cost, r)
             ELSE \/ Fits(cost, r, a) /\ ~Fits(cost, r, b)
                  \/ ~Fits(cost, r, a) /\ ~Fits(cost, r, b) /\ <<a, b>> \in Cheaper(cost, r)
                  \/ Fits(cost, r, a) /\ Fits(cost, r, b) /\ Wins(cost, low, s, r[a], r[b])
    <2>1. a \in 1 .. Len(r) /\ b \in 1 .. Len(r)
      BY <1>1
    <2>2. low = Lowest(cost, r)
      OBVIOUS
    <2> HIDE DEF r, low
    <2> QED BY <2>1, <2>2 DEF Ahead
  <1>16. <<c, d>> \in Ahead(cost, l, s) <=>
             IF ~affinity_applies(cost, l) THEN <<c, d>> \in Cheaper(cost, l)
             ELSE \/ Fits(cost, l, c) /\ ~Fits(cost, l, d)
                  \/ ~Fits(cost, l, c) /\ ~Fits(cost, l, d) /\ <<c, d>> \in Cheaper(cost, l)
                  \/ Fits(cost, l, c) /\ Fits(cost, l, d) /\ Wins(cost, low, s, l[c], l[d])
    <2> HIDE DEF c, d
    <2> QED BY <1>10 DEF Ahead
  <1>17. affinity_applies(cost, r) => affinity_applies(cost, l)
    <2> HIDE DEF r, D, m
    <2> QED BY <1>2, <1>5, <1>8, <1>13, <1>14
  <1>18. Fits(cost, r, a) <=> Fits(cost, l, c)
    BY <1>8
  <1>19. Fits(cost, r, b) <=> Fits(cost, l, d)
    BY <1>8
  <1>20. CASE affinity_applies(cost, r) \/ ~affinity_applies(cost, l)
    <2> HIDE DEF r, c, d, low
    <2>1. <<a, b>> \in Ahead(cost, r, s) <=> <<c, d>> \in Ahead(cost, l, s)
      BY <1>10, <1>11, <1>15, <1>16, <1>17, <1>18, <1>19, <1>20
    <2> QED BY <1>12, <2>1 DEF r, c, d
  <1>21. CASE ~affinity_applies(cost, r) /\ affinity_applies(cost, l)
    <2>1. a # b => ~(Fits(cost, l, c) /\ Fits(cost, l, d))
      <3> HIDE DEF r, c, d, D
      <3> QED BY <1>10, <1>13, <1>18, <1>19, <1>21
    <2>2. Fits(cost, l, c) /\ ~Fits(cost, l, d) => <<c, d>> \in Cheaper(cost, l)
      <3> SUFFICES ASSUME Fits(cost, l, c), ~Fits(cost, l, d) PROVE <<c, d>> \in Cheaper(cost, l)
        OBVIOUS
      <3> HIDE DEF c, d, lim, m, r
      <3>1. cost[l[c]] \in Nat /\ cost[l[d]] \in Nat /\ cost[l[c]] <= lim /\ ~(cost[l[d]] <= lim)
        BY <1>3, <1>7, <1>10
      <3>2. cost[l[c]] < cost[l[d]]
        BY <1>9, <3>1
      <3> QED BY <1>3, <1>10, <3>2 DEF Cheaper
    <2>3. Fits(cost, l, d) /\ ~Fits(cost, l, c) => <<c, d>> \notin Cheaper(cost, l)
      <3> SUFFICES ASSUME Fits(cost, l, d), ~Fits(cost, l, c), <<c, d>> \in Cheaper(cost, l) PROVE FALSE
        OBVIOUS
      <3> HIDE DEF c, d, lim, m, r
      <3>1. cost[l[c]] \in Nat /\ cost[l[d]] \in Nat /\ cost[l[d]] <= lim /\ ~(cost[l[c]] <= lim)
        BY <1>3, <1>7, <1>10
      <3>2. cost[l[c]] < cost[l[d]] \/ cost[l[c]] = cost[l[d]]
        BY DEF Cheaper
      <3> QED BY <1>9, <3>1, <3>2
    <2>4. a = b => (<<c, d>> \notin Cheaper(cost, l) /\ <<c, d>> \notin Ahead(cost, l, s))
      <3> SUFFICES ASSUME a = b PROVE <<c, c>> \notin Cheaper(cost, l) /\ <<c, c>> \notin Ahead(cost, l, s)
        OBVIOUS
      <3>1. StrictOrder(1 .. m, Cheaper(cost, l)) /\ StrictOrder(1 .. m, Ahead(cost, l, s))
        BY CheaperStrict, AheadStrict
      <3> HIDE DEF c, d, r, m
      <3> QED BY <1>10, <3>1 DEF StrictOrder
    <2> HIDE DEF r, c, d, low
    <2>5. <<a, b>> \in Ahead(cost, r, s) <=> <<c, d>> \in Ahead(cost, l, s)
      BY <1>11, <1>15, <1>16, <1>21, <2>1, <2>2, <2>3, <2>4
    <2> QED BY <1>12, <2>5 DEF r, c, d
  <1> QED BY <1>20, <1>21

(* The first one tried in a lottery is within the band and wins it. *)
LEMMA FirstWins ==
    ASSUME NEW cost, NEW l, Candidates(cost, l), NEW s \in DOMAIN Draw, affinity_applies(cost, l)
    PROVE  \E a \in 1 .. Len(l) :
               /\ rank_with_affinity(cost, l, s)[1] = l[a] /\ Fits(cost, l, a)
               /\ \A b \in 1 .. Len(l) : b # a /\ Fits(cost, l, b)
                      => Wins(cost, Lowest(cost, l), s, l[a], l[b])
  <1> DEFINE m == Len(l)
             out == rank_with_affinity(cost, l, s)
             A == Ahead(cost, l, s)
  <1>1. PICK p : Sorts(p, out, l, m, A)
    BY RankFacts
  <1>2. Fits(cost, l, p[1])
    BY <1>1, FirstFits
  <1>3. \A k \in 1 .. m : \E i \in 1 .. m : p[i] = k
    BY <1>1, RankCovers
  <1>4. m \in Nat \ {0} /\ 1 \in 1 .. m
    BY CandidateFacts
  <1>5. /\ p[1] \in 1 .. m /\ out[1] = l[p[1]]
        /\ \A i, j \in 1 .. m : i < j => <<p[i], p[j]>> \in A
    BY <1>1, <1>4 DEF Sorts
  <1>6. ASSUME NEW b \in 1 .. m, b # p[1], Fits(cost, l, b)
        PROVE  Wins(cost, Lowest(cost, l), s, l[p[1]], l[b])
    <2>1. PICK i \in 1 .. m : p[i] = b
      BY <1>3
    <2>2. 1 < i
      BY <1>4, <1>6, <2>1
    <2>3. <<p[1], b>> \in A
      BY <1>4, <1>5, <2>1, <2>2
    <2> QED BY <1>2, <1>5, <1>6, <2>3 DEF Ahead
  <1> HIDE DEF m, out
  <1> QED BY <1>2, <1>5, <1>6 DEF m, out

(* A list back to front has the same candidates and the same band. *)
LEMMA BackwardsFacts ==
    ASSUME NEW cost, NEW l, Candidates(cost, l), ~Collide(l)
    PROVE  /\ Candidates(cost, Backwards(l)) /\ ~Collide(Backwards(l)) /\ Len(Backwards(l)) = Len(l)
           /\ \A k \in 1 .. Len(l) : Len(l) + 1 - k \in 1 .. Len(l) /\ Backwards(l)[k] = l[Len(l) + 1 - k]
           /\ Lowest(cost, Backwards(l)) = Lowest(cost, l)
  <1> DEFINE m == Len(l)
             r == Backwards(l)
  <1>1. m \in Nat \ {0} /\ DOMAIN l = 1 .. m /\ \A k \in 1 .. m : l[k] \in DOMAIN Setup /\ cost[l[k]] \in Nat
    BY CandidateFacts
  <1>2. r = [k \in 1 .. m |-> l[m + 1 - k]]
    BY <1>1 DEF Backwards
  <1>3. \A i, j \in 1 .. m : i # j => Id[l[i]] # Id[l[j]]
    BY DistinctFacts
  <1> HIDE DEF m, r
  <1>4. \A k \in 1 .. m : m + 1 - k \in 1 .. m /\ m + 1 - (m + 1 - k) = k
    BY <1>1
  <1>5. DOMAIN r = 1 .. m /\ \A k \in 1 .. m : r[k] = l[m + 1 - k]
    BY <1>2
  <1>6. r \in Seq(DOMAIN Setup) /\ Len(r) = m
    <2>1. \A k \in 1 .. m : l[m + 1 - k] \in DOMAIN Setup
      BY <1>1, <1>4
    <2> QED BY <1>1, <1>2, <2>1
  <1>7. r # <<>>
    BY <1>1, <1>6
  <1>8. Candidates(cost, r)
    BY <1>6, <1>7 DEF Candidates
  <1>9. ~Collide(r)
    <2> SUFFICES ASSUME NEW i \in 1 .. m, NEW j \in 1 .. m, i < j PROVE Id[r[i]] # Id[r[j]]
      BY <1>5 DEF Collide
    <2>1. m + 1 - i # m + 1 - j
      BY <1>1
    <2> QED BY <1>3, <1>4, <1>5, <2>1
  <1>10. Lowest(cost, r) = Lowest(cost, l)
    <2>1. PICK a \in 1 .. m : Lowest(cost, l) = cost[l[a]]
      BY LowestFacts DEF m
    <2>2. PICK b \in 1 .. m : Lowest(cost, r) = cost[r[b]]
      BY <1>6, <1>8, LowestFacts
    <2>3. Lowest(cost, l) \in Nat /\ Lowest(cost, r) \in Nat
      BY <1>8, LowestFacts
    <2>4. Lowest(cost, l) <= cost[l[m + 1 - b]]
      BY <1>4, LowestFacts DEF m
    <2>5. Lowest(cost, r) <= cost[r[m + 1 - a]]
      BY <1>4, <1>6, <1>8, LowestFacts
    <2>6. r[b] = l[m + 1 - b] /\ r[m + 1 - a] = l[a]
      BY <1>4, <1>5
    <2> QED BY <2>1, <2>2, <2>3, <2>4, <2>5, <2>6
  <1> QED BY <1>4, <1>5, <1>6, <1>8, <1>9, <1>10 DEF m, r

(* The winner of a lottery does not depend on the order of the list. *)
LEMMA SameWinner ==
    ASSUME NEW cost, NEW l, Candidates(cost, l), ~Collide(l), NEW s \in DOMAIN Draw, affinity_applies(cost, l)
    PROVE  rank_with_affinity(cost, l, s)[1] = rank_with_affinity(cost, Backwards(l), s)[1]
  <1> DEFINE m == Len(l)
             r == Backwards(l)
             low == Lowest(cost, l)
  <1>1. Candidates(cost, r) /\ ~Collide(r) /\ Len(r) = m /\ Lowest(cost, r) = low
    BY BackwardsFacts
  <1>2. \A k \in 1 .. m : m + 1 - k \in 1 .. m /\ r[k] = l[m + 1 - k]
    BY BackwardsFacts
  <1>3. m \in Nat
    BY CandidateFacts
  <1>4. \A k \in 1 .. m : Fits(cost, r, k) <=> Fits(cost, l, m + 1 - k)
    <2> HIDE DEF r, m
    <2> QED BY <1>1, <1>2 DEF Fits
  <1>5. \A k \in 1 .. m : m + 1 - (m + 1 - k) = k
    BY <1>3
  <1>6. affinity_applies(cost, r)
    <2>1. PICK a \in 1 .. m, b \in 1 .. m : a # b /\ Fits(cost, l, a) /\ Fits(cost, l, b)
      BY AppliesIff
    <2>2. m + 1 - a \in 1 .. m /\ m + 1 - b \in 1 .. m /\ m + 1 - a # m + 1 - b
      <3>1. m + 1 - a \in 1 .. m /\ m + 1 - b \in 1 .. m
        BY <1>2, <2>1
      <3>2. a \in Int /\ b \in Int /\ a # b
        BY <2>1
      <3> HIDE DEF m
      <3>3. m + 1 - a # m + 1 - b
        BY <1>3, <3>2
      <3> QED BY <3>1, <3>3
    <2>3. Fits(cost, r, m + 1 - a) /\ Fits(cost, r, m + 1 - b)
      BY <1>4, <1>5, <2>1, <2>2
    <2> HIDE DEF r, m
    <2> QED BY <1>1, <2>2, <2>3, AppliesIff
  <1>7. PICK a \in 1 .. m : /\ rank_with_affinity(cost, l, s)[1] = l[a] /\ Fits(cost, l, a)
                            /\ \A b \in 1 .. m : b # a /\ Fits(cost, l, b) => Wins(cost, low, s, l[a], l[b])
    BY FirstWins
  <1>8. PICK d \in 1 .. m : /\ rank_with_affinity(cost, r, s)[1] = r[d] /\ Fits(cost, r, d)
                            /\ \A b \in 1 .. m : b # d /\ Fits(cost, r, b) => Wins(cost, low, s, r[d], r[b])
    <2> HIDE DEF r, m, low
    <2> QED BY <1>1, <1>6, FirstWins
  <1> DEFINE e == m + 1 - d
  <1>9. e \in 1 .. m /\ r[d] = l[e] /\ Fits(cost, l, e)
    BY <1>2, <1>4, <1>8
  <1>10. CASE e = a
    BY <1>7, <1>8, <1>9, <1>10
  <1>11. CASE e # a
    <2>1. Wins(cost, low, s, l[a], l[e])
      BY <1>7, <1>9, <1>11
    <2>2. m + 1 - a \in 1 .. m /\ m + 1 - a # d /\ r[m + 1 - a] = l[a] /\ Fits(cost, r, m + 1 - a)
      <3>1. m + 1 - a \in 1 .. m /\ m + 1 - (m + 1 - a) = a
        BY <1>2, <1>5, <1>7
      <3>2. m + 1 - a # d
        BY <1>3, <1>11
      <3> QED BY <1>2, <1>4, <1>7, <3>1, <3>2
    <2>3. Wins(cost, low, s, l[e], l[a])
      BY <1>8, <1>9, <2>2
    <2>4. /\ Scored(cost, low, s, l[a]) \in Nat /\ Scored(cost, low, s, l[e]) \in Nat
          /\ Id[l[a]] \in Nat /\ Id[l[e]] \in Nat
      BY <1>7, <1>9, ScoredNat
    <2> HIDE DEF low, e
    <2> QED BY <2>1, <2>3, <2>4 DEF Wins
  <1> QED BY <1>10, <1>11

(* Withdrawing a candidate other than the cheapest keeps the order of the
   others, and the winner of a lottery is the same whatever the order of the
   list, for any servers, draws, bands and recorded outcomes. *)
THEOREM ChosenForWhatTheyAre ==
    SelectorSpec => []ChoiceIsStable
  <1>1. SelectorTypeOK => ChoiceIsStable
    <2> SUFFICES ASSUME SelectorTypeOK PROVE ChoiceIsStable
      OBVIOUS
    <2> DEFINE cost == Costs
    <2> HIDE DEF cost
    <2>1. ASSUME NEW l \in Lists, NEW s \in DOMAIN Draw, ~Collide(l)
          PROVE  LET out == rank_with_affinity(cost, l, s)
                 IN  /\ \A i \in DOMAIN l : Len(l) > 1 /\ Lowest(cost, Without(l, i)) = Lowest(cost, l)
                            => \A e, f \in Range(Without(l, i)) :
                                   Precedes(rank_with_affinity(cost, Without(l, i), s), e, f) <=> Precedes(out, e, f)
                     /\ affinity_applies(cost, l) => out[1] = rank_with_affinity(cost, Backwards(l), s)[1]
      <3> DEFINE m == Len(l)
                 out == rank_with_affinity(cost, l, s)
      <3>1. Candidates(cost, l)
        BY ListsAreCandidates DEF cost
      <3>2. DOMAIN l = 1 .. m
        BY <3>1, CandidateFacts
      <3>3. affinity_applies(cost, l) => out[1] = rank_with_affinity(cost, Backwards(l), s)[1]
        BY <2>1, <3>1, SameWinner
      <3>4. ASSUME NEW x \in 1 .. m, m > 1, Lowest(cost, Without(l, x)) = Lowest(cost, l),
                   NEW e \in Range(Without(l, x)), NEW f \in Range(Without(l, x))
            PROVE  Precedes(rank_with_affinity(cost, Without(l, x), s), e, f) <=> Precedes(out, e, f)
        <4> DEFINE r == Without(l, x)
                   D == 1 .. m - 1
        <4>1. Candidates(cost, r) /\ Len(r) = m - 1
          BY <3>1, <3>4, WithoutFacts
        <4>2. \A k \in D : Skip(x, k) \in 1 .. m /\ r[k] = l[Skip(x, k)]
          BY <3>1, <3>4, WithoutFacts
        <4>3. Range(r) = {r[k] : k \in 1 .. Len(r)}
          BY <4>1, CandidateFacts
        <4>4. PICK a \in D, b \in D : e = r[a] /\ f = r[b]
          BY <3>4, <4>1, <4>3
        <4>5. /\ ~Collide(r)
              /\ <<a, b>> \in Ahead(cost, r, s) <=> <<Skip(x, a), Skip(x, b)>> \in Ahead(cost, l, s)
          BY <2>1, <3>1, <3>4, <4>4, AheadSame
        <4>6. Precedes(rank_with_affinity(cost, r, s), r[a], r[b]) <=> <<a, b>> \in Ahead(cost, r, s)
          <5>1. a \in 1 .. Len(r) /\ b \in 1 .. Len(r)
            BY <4>1, <4>4
          <5> HIDE DEF r
          <5> QED BY <4>1, <4>5, <5>1, PrecedesIff
        <4>7. Precedes(out, l[Skip(x, a)], l[Skip(x, b)]) <=> <<Skip(x, a), Skip(x, b)>> \in Ahead(cost, l, s)
          BY <2>1, <3>1, <4>2, <4>4, PrecedesIff
        <4> HIDE DEF r, out, D
        <4>8. Precedes(rank_with_affinity(cost, r, s), e, f) <=> Precedes(out, e, f)
          BY <4>2, <4>4, <4>5, <4>6, <4>7
        <4> QED BY <4>8 DEF r
      <3> HIDE DEF out
      <3>5. \A i \in DOMAIN l : m > 1 /\ Lowest(cost, Without(l, i)) = Lowest(cost, l)
                => \A e, f \in Range(Without(l, i)) :
                       Precedes(rank_with_affinity(cost, Without(l, i), s), e, f) <=> Precedes(out, e, f)
        BY <3>2, <3>4
      <3> QED BY <3>3, <3>5 DEF m, out
    <2>2. cost \in [DOMAIN Setup -> Nat]
      BY CostsTyped DEF cost
    <2> QED BY <2>1, <2>2 DEF ChoiceIsStable, Subjects, cost
  <1> QED BY <1>1, SelectorTyped, PTL

-----------------------------------------------------------------------------
(* The server *)

(* An element more, or one less. *)
LEMMA OneMoreOrLess ==
    ASSUME NEW S, IsFiniteSet(S), NEW x
    PROVE  /\ Cardinality(S) \in Nat
           /\ IsFiniteSet(S \cup {x}) /\ IsFiniteSet(S \ {x})
           /\ x \notin S => Cardinality(S \cup {x}) = Cardinality(S) + 1 /\ S \ {x} = S
           /\ x \in S => /\ Cardinality(S \ {x}) = Cardinality(S) - 1 /\ Cardinality(S) >= 1
                         /\ S \cup {x} = S
  <1>1. Cardinality(S) \in Nat
    BY FS_CardinalityType
  <1>2. x \in S => S # {} /\ S \cup {x} = S
    OBVIOUS
  <1>3. x \in S => Cardinality(S) >= 1
    BY <1>1, <1>2, FS_EmptySet
  <1>4. x \notin S => S \ {x} = S
    OBVIOUS
  <1>5. IsFiniteSet(S \cup {x}) /\ (x \notin S => Cardinality(S \cup {x}) = Cardinality(S) + 1)
    BY FS_AddElement
  <1>6. IsFiniteSet(S \ {x}) /\ (x \in S => Cardinality(S \ {x}) = Cardinality(S) - 1)
    BY FS_RemoveElement
  <1> QED BY <1>1, <1>2, <1>3, <1>4, <1>5, <1>6

-----------------------------------------------------------------------------
(* Connections *)

\* Listeners past the limit that have yet to count their connection.
Adding == {l \in Listeners : listener[l] = "add"}

(* Every thread that runs or is about to is counted; the ones a listener has
   yet to count are not, and there the limit may be passed. *)
ConnInv ==
    /\ listener \in [Listeners -> {"unbound", "accept", "load", "add", "spawn", "done"}]
    /\ conn \in [Conns -> BOOLEAN] /\ count \in Nat
    /\ Cardinality(Running) + Cardinality(Starting) <= count
    /\ MaxTcp > 0 => Cardinality(Running) + Cardinality(Starting) + Cardinality(Adding)
                         < MaxTcp + Cardinality(Listeners)

LEMMA ConnsFinite ==
    /\ IsFiniteSet(Running) /\ Cardinality(Running) \in Nat
    /\ IsFiniteSet(Starting) /\ Cardinality(Starting) \in Nat
    /\ IsFiniteSet(Adding) /\ Cardinality(Adding) \in Nat
    /\ Cardinality(Listeners) \in Nat /\ MaxTcp \in Nat
  <1>1. Running \subseteq Conns /\ Starting \subseteq Listeners /\ Adding \subseteq Listeners
    BY DEF Running, Starting, Adding
  <1> QED BY <1>1, ServerAssumption, FS_Subset, FS_CardinalityType

(* Listeners in "spawn" and in "add" together are listeners. *)
LEMMA OnTheWay ==
    Cardinality(Starting) + Cardinality(Adding) <= Cardinality(Listeners)
  <1>1. Starting \cap Adding = {} /\ Starting \cup Adding \subseteq Listeners
    BY DEF Starting, Adding
  <1>2. Cardinality(Starting \cup Adding) = Cardinality(Starting) + Cardinality(Adding) - Cardinality(Starting \cap Adding)
    BY ConnsFinite, FS_Union
  <1>3. Cardinality(Starting \cup Adding) <= Cardinality(Listeners)
    BY <1>1, ServerAssumption, FS_Subset
  <1>4. Cardinality(Starting \cap Adding) = 0
    BY <1>1, FS_EmptySet
  <1> QED BY <1>2, <1>3, <1>4, ConnsFinite

(* What the move of a listener does to the two sets. *)
LEMMA ListenerMoves ==
    ASSUME ConnInv, NEW l \in Listeners, NEW to \in {"accept", "load", "add", "spawn", "done"},
           listener' = [listener EXCEPT ![l] = to]
    PROVE  /\ listener' \in [Listeners -> {"unbound", "accept", "load", "add", "spawn", "done"}]
           /\ Starting' = IF to = "spawn" THEN Starting \cup {l} ELSE Starting \ {l}
           /\ Adding' = IF to = "add" THEN Adding \cup {l} ELSE Adding \ {l}
           /\ l \in Starting <=> listener[l] = "spawn"
           /\ l \in Adding <=> listener[l] = "add"
  BY DEF ConnInv, Starting, Adding

(* Which of the steps touch connections. *)
ConnStep ==
    \/ \E l \in Listeners : ListenerStep(l) \/ AcceptFails(l) \/ Bind(l)
    \/ \E c \in Conns : ConnEnds(c) \/ ConnPanics(c)
    \/ UNCHANGED <<listener, count, conn>>

LEMMA ConnKeeps == ConnInv /\ ConnStep => ConnInv'
  <1> SUFFICES ASSUME ConnInv, ConnStep PROVE ConnInv'
    OBVIOUS
  <1>0. /\ count \in Nat /\ Cardinality(Running) + Cardinality(Starting) <= count
        /\ MaxTcp > 0 => Cardinality(Running) + Cardinality(Starting) + Cardinality(Adding)
                             < MaxTcp + Cardinality(Listeners)
    BY DEF ConnInv
  <1>1. ASSUME NEW l \in Listeners, listener' = [listener EXCEPT ![l] = "accept"] \/ listener' = [listener EXCEPT ![l] = "load"] \/ listener' = [listener EXCEPT ![l] = "done"],
               UNCHANGED <<count, conn>>
        PROVE  ConnInv'
    <2>1. /\ listener' \in [Listeners -> {"unbound", "accept", "load", "add", "spawn", "done"}]
          /\ Starting' = Starting \ {l} /\ Adding' = Adding \ {l}
      BY <1>1, ListenerMoves
    <2>2. Cardinality(Starting') <= Cardinality(Starting) /\ Cardinality(Starting') \in Nat
      BY <2>1, ConnsFinite, FS_Subset, FS_CardinalityType
    <2>3. Cardinality(Adding') <= Cardinality(Adding) /\ Cardinality(Adding') \in Nat
      BY <2>1, ConnsFinite, FS_Subset, FS_CardinalityType
    <2>4. Running' = Running /\ conn' \in [Conns -> BOOLEAN] /\ count' = count
      BY <1>1 DEF Running, ConnInv
    <2>5. Cardinality(Running)' + Cardinality(Starting)' <= count'
      BY <1>0, <2>2, <2>4, ConnsFinite
    <2>6. MaxTcp > 0 => Cardinality(Running)' + Cardinality(Starting)' + Cardinality(Adding)'
                             < MaxTcp + Cardinality(Listeners)
      BY <1>0, <2>2, <2>3, <2>4, ConnsFinite
    <2> QED BY <1>0, <2>1, <2>4, <2>5, <2>6 DEF ConnInv
  <1>2. ASSUME NEW l \in Listeners, LoadCount(l) PROVE ConnInv'
    <2>1. CASE MaxTcp > 0 /\ count >= MaxTcp
      BY <1>1, <1>2, <2>1 DEF LoadCount
    <2>2. CASE ~(MaxTcp > 0 /\ count >= MaxTcp)
      <3>1. /\ listener[l] = "load" /\ listener' = [listener EXCEPT ![l] = "add"]
            /\ count' = count /\ conn' = conn
        BY <1>2, <2>2 DEF LoadCount
      <3>2. /\ listener' \in [Listeners -> {"unbound", "accept", "load", "add", "spawn", "done"}]
            /\ Starting' = Starting \ {l} /\ l \notin Starting
        BY <3>1, ListenerMoves
      <3>3. Starting' = Starting
        BY <3>2
      <3>4. Running' = Running /\ conn' \in [Conns -> BOOLEAN]
        BY <3>1 DEF Running, ConnInv
      <3>5. /\ (Cardinality(Starting) + Cardinality(Adding) <= Cardinality(Listeners))'
            /\ (Cardinality(Adding) \in Nat)'
        <4>1. (Cardinality(Starting) + Cardinality(Adding) <= Cardinality(Listeners))'
          BY OnTheWay, PTL
        <4>2. Adding' \subseteq Listeners
          BY DEF Adding
        <4> QED BY <4>1, <4>2, ServerAssumption, FS_Subset, FS_CardinalityType
      <3>6. MaxTcp > 0 => count < MaxTcp
        BY <1>0, <2>2, ConnsFinite
      <3>7. MaxTcp > 0 => Cardinality(Running)' + Cardinality(Starting)' + Cardinality(Adding)'
                             < MaxTcp + Cardinality(Listeners)
        BY <1>0, <3>3, <3>4, <3>5, <3>6, ConnsFinite
      <3> QED BY <1>0, <3>1, <3>2, <3>3, <3>4, <3>7 DEF ConnInv
    <2> QED BY <2>1, <2>2
  <1>3. ASSUME NEW l \in Listeners, AddCount(l) PROVE ConnInv'
    <2>1. /\ listener[l] = "add" /\ listener' = [listener EXCEPT ![l] = "spawn"]
          /\ count' = count + 1 /\ conn' = conn
      BY <1>3 DEF AddCount
    <2>2. /\ listener' \in [Listeners -> {"unbound", "accept", "load", "add", "spawn", "done"}]
          /\ Starting' = Starting \cup {l} /\ Adding' = Adding \ {l}
          /\ l \notin Starting /\ l \in Adding
      BY <2>1, ListenerMoves
    <2>3. Cardinality(Starting)' = Cardinality(Starting) + 1
      BY <2>2, ConnsFinite, OneMoreOrLess
    <2>4. Cardinality(Adding)' = Cardinality(Adding) - 1
      BY <2>2, ConnsFinite, OneMoreOrLess
    <2>5. Running' = Running /\ conn' \in [Conns -> BOOLEAN]
      BY <2>1 DEF Running, ConnInv
    <2>6. /\ count' \in Nat /\ Cardinality(Running)' + Cardinality(Starting)' <= count'
          /\ MaxTcp > 0 => Cardinality(Running)' + Cardinality(Starting)' + Cardinality(Adding)'
                             < MaxTcp + Cardinality(Listeners)
      BY <1>0, <2>1, <2>3, <2>4, <2>5, ConnsFinite
    <2> QED BY <2>2, <2>5, <2>6 DEF ConnInv
  <1>4. ASSUME NEW l \in Listeners, SpawnConn(l) PROVE ConnInv'
    <2>1. PICK c \in Conns : ~conn[c] /\ conn' = [conn EXCEPT ![c] = TRUE]
      BY <1>4 DEF SpawnConn
    <2>2. /\ listener[l] = "spawn" /\ listener' = [listener EXCEPT ![l] = "accept"] /\ count' = count
      BY <1>4 DEF SpawnConn
    <2>3. /\ listener' \in [Listeners -> {"unbound", "accept", "load", "add", "spawn", "done"}]
          /\ Starting' = Starting \ {l} /\ Adding' = Adding \ {l}
          /\ l \in Starting /\ l \notin Adding
      BY <2>2, ListenerMoves
    <2>4. Cardinality(Starting)' = Cardinality(Starting) - 1
      BY <2>3, ConnsFinite, OneMoreOrLess
    <2>5. Adding' = Adding
      BY <2>3
    <2>6. Running' = Running \cup {c} /\ c \notin Running /\ conn' \in [Conns -> BOOLEAN]
      BY <2>1 DEF Running, ConnInv
    <2>7. Cardinality(Running)' = Cardinality(Running) + 1
      BY <2>6, ConnsFinite, OneMoreOrLess
    <2>8. /\ count' \in Nat /\ Cardinality(Running)' + Cardinality(Starting)' <= count'
          /\ MaxTcp > 0 => Cardinality(Running)' + Cardinality(Starting)' + Cardinality(Adding)'
                             < MaxTcp + Cardinality(Listeners)
      BY <1>0, <2>2, <2>4, <2>5, <2>7, ConnsFinite
    <2> QED BY <2>3, <2>6, <2>8 DEF ConnInv
  <1>5. ASSUME NEW c \in Conns, ConnEnds(c) PROVE ConnInv'
    <2>1. conn[c] /\ conn' = [conn EXCEPT ![c] = FALSE] /\ count' = count - 1 /\ listener' = listener
      BY <1>5 DEF ConnEnds
    <2>2. Running' = Running \ {c} /\ c \in Running /\ conn' \in [Conns -> BOOLEAN]
      BY <2>1 DEF Running, ConnInv
    <2>3. Cardinality(Running)' = Cardinality(Running) - 1 /\ Cardinality(Running) >= 1
      BY <2>2, ConnsFinite, OneMoreOrLess
    <2>4. Starting' = Starting /\ Adding' = Adding
      BY <2>1 DEF Starting, Adding
    <2>5. /\ count' \in Nat /\ Cardinality(Running)' + Cardinality(Starting)' <= count'
          /\ MaxTcp > 0 => Cardinality(Running)' + Cardinality(Starting)' + Cardinality(Adding)'
                             < MaxTcp + Cardinality(Listeners)
      BY <1>0, <2>1, <2>3, <2>4, ConnsFinite
    <2> QED BY <2>1, <2>2, <2>5 DEF ConnInv
  <1>6. CASE UNCHANGED <<listener, count, conn>>
    BY <1>6 DEF ConnInv, Running, Starting, Adding
  <1>7. ASSUME NEW l \in Listeners, Accept(l) \/ AcceptFails(l) \/ SpawnRefused(l) \/ Bind(l) PROVE ConnInv'
    BY <1>1, <1>7 DEF Accept, AcceptFails, SpawnRefused, Bind
  <1>8. ASSUME NEW c \in Conns, ConnPanics(c) PROVE ConnInv'
    <2>1. conn[c] /\ conn' = [conn EXCEPT ![c] = FALSE] /\ count' = count /\ listener' = listener
      BY <1>8 DEF ConnPanics
    <2>2. Running' = Running \ {c} /\ c \in Running /\ conn' \in [Conns -> BOOLEAN]
      BY <2>1 DEF Running, ConnInv
    <2>3. Cardinality(Running)' = Cardinality(Running) - 1 /\ Cardinality(Running) >= 1
      BY <2>2, ConnsFinite, OneMoreOrLess
    <2>4. Starting' = Starting /\ Adding' = Adding
      BY <2>1 DEF Starting, Adding
    <2>5. /\ count' \in Nat /\ Cardinality(Running)' + Cardinality(Starting)' <= count'
          /\ MaxTcp > 0 => Cardinality(Running)' + Cardinality(Starting)' + Cardinality(Adding)'
                             < MaxTcp + Cardinality(Listeners)
      BY <1>0, <2>1, <2>3, <2>4, ConnsFinite
    <2> QED BY <2>1, <2>2, <2>5 DEF ConnInv
  <1> QED BY <1>2, <1>3, <1>4, <1>5, <1>6, <1>7, <1>8 DEF ConnStep, ListenerStep

-----------------------------------------------------------------------------
(* Datagrams *)

UdpTypeOK ==
    /\ flag \in BOOLEAN /\ queue \in Seq(Nat) /\ arrived \in Nat /\ shed \in Nat
    /\ receiver \in [Receivers -> [pc : {"check", "recv", "push", "done"}, job : Nat]]
    /\ handler \in [Handlers -> [pc : {"pop", "answer", "done", "crashed"}, job : Nat]]
    /\ answered \subseteq 1 .. arrived

\* A datagram is in one place only: in one receiver's hands,
OneReader ==
    \A r \in Reading :
        /\ receiver[r].job \in 1 .. arrived /\ receiver[r].job \notin answered
        /\ \A i \in 1 .. Len(queue) : queue[i] # receiver[r].job
        /\ \A h \in Answering : handler[h].job # receiver[r].job
        /\ \A s \in Reading : receiver[s].job = receiver[r].job => s = r

\* in one place of the queue,
OnePlace ==
    \A i \in 1 .. Len(queue) :
        /\ queue[i] \in 1 .. arrived /\ queue[i] \notin answered
        /\ \A h \in Answering : handler[h].job # queue[i]
        /\ \A j \in 1 .. Len(queue) : queue[j] = queue[i] => j = i

\* in one handler's hands, or answered.
OneHandler ==
    \A h \in Answering :
        /\ handler[h].job \in 1 .. arrived /\ handler[h].job \notin answered
        /\ \A g \in Answering : handler[g].job = handler[h].job => g = h

Counted ==
    arrived = Cardinality(Reading) + Len(queue) + Cardinality(Answering)
                + Cardinality(answered) + shed

(* A handler leaves only an empty queue behind, and with the flag up nothing
   comes in any more. *)
UdpInv ==
    /\ UdpTypeOK /\ OneReader /\ OnePlace /\ OneHandler /\ Counted
    /\ Len(queue) <= QueueCap
    /\ \A h \in Handlers : handler[h].pc = "done" => flag /\ queue = <<>>

LEMMA HandsFinite ==
    ASSUME UdpTypeOK
    PROVE  /\ IsFiniteSet(Reading) /\ Cardinality(Reading) \in Nat
           /\ IsFiniteSet(Answering) /\ Cardinality(Answering) \in Nat
           /\ IsFiniteSet(answered) /\ Cardinality(answered) \in Nat
           /\ Len(queue) \in Nat /\ QueueCap \in Nat /\ arrived \in Nat /\ shed \in Nat
  <1>1. Reading \subseteq Receivers /\ Answering \subseteq Handlers
    BY DEF Reading, Answering
  <1>2. IsFiniteSet(1 .. arrived) /\ answered \subseteq 1 .. arrived
    BY FS_Interval DEF UdpTypeOK
  <1>3. Len(queue) \in Nat /\ arrived \in Nat /\ shed \in Nat
    BY DEF UdpTypeOK
  <1> QED BY <1>1, <1>2, <1>3, ServerAssumption, FS_Subset, FS_CardinalityType

(* What the move of a receiver, and of a handler, does. *)
LEMMA ReceiverMoves ==
    ASSUME UdpTypeOK, NEW r \in Receivers,
           NEW to \in [pc : {"check", "recv", "push", "done"}, job : Nat],
           receiver' = [receiver EXCEPT ![r] = to]
    PROVE  /\ receiver' \in [Receivers -> [pc : {"check", "recv", "push", "done"}, job : Nat]]
           /\ Reading' = IF to.pc = "push" THEN Reading \cup {r} ELSE Reading \ {r}
           /\ receiver'[r] = to /\ \A s \in Receivers \ {r} : receiver'[s] = receiver[s]
           /\ Reading \subseteq Receivers /\ (r \in Reading <=> receiver[r].pc = "push")
  BY DEF UdpTypeOK, Reading

LEMMA HandlerMoves ==
    ASSUME UdpTypeOK, NEW h \in Handlers,
           NEW to \in [pc : {"pop", "answer", "done", "crashed"}, job : Nat],
           handler' = [handler EXCEPT ![h] = to]
    PROVE  /\ handler' \in [Handlers -> [pc : {"pop", "answer", "done", "crashed"}, job : Nat]]
           /\ Answering' = IF to.pc \in {"answer", "crashed"} THEN Answering \cup {h} ELSE Answering \ {h}
           /\ handler'[h] = to /\ \A g \in Handlers \ {h} : handler'[g] = handler[g]
           /\ Answering \subseteq Handlers /\ (h \in Answering <=> handler[h].pc \in {"answer", "crashed"})
  BY DEF UdpTypeOK, Answering

LEMMA ReceiverKeeps ==
    ASSUME UdpInv, NEW r \in Receivers, ReceiverStep(r)
    PROVE  UdpInv'
  <1>0. /\ flag' = flag /\ handler' = handler /\ answered' = answered /\ Answering' = Answering
        /\ UdpTypeOK /\ OneReader /\ OnePlace /\ OneHandler /\ Counted /\ Len(queue) <= QueueCap
        /\ \A h \in Handlers : handler[h].pc = "done" => flag /\ queue = <<>>
    BY DEF ReceiverStep, Check, Receive, ReceiveTimeout, Push, admin, Answering, UdpInv
  <1>1. ASSUME NEW pc \in {"check", "recv", "done"}, receiver[r].pc \in {"check", "recv"},
               receiver' = [receiver EXCEPT ![r].pc = pc], UNCHANGED <<queue, arrived, shed>>
        PROVE  UdpInv'
    <2>1. receiver' = [receiver EXCEPT ![r] = [pc |-> pc, job |-> receiver[r].job]]
      <3>1. receiver[r] \in [pc : {"check", "recv", "push", "done"}, job : Nat]
        BY <1>0 DEF UdpTypeOK
      <3>2. [receiver[r] EXCEPT !.pc = pc] = [pc |-> pc, job |-> receiver[r].job]
        BY <3>1
      <3> QED BY <1>1, <3>2
    <2>2. /\ receiver' \in [Receivers -> [pc : {"check", "recv", "push", "done"}, job : Nat]]
          /\ Reading' = Reading \ {r} /\ r \notin Reading /\ Reading \subseteq Receivers
          /\ \A s \in Receivers \ {r} : receiver'[s] = receiver[s]
      <3>1. [pc |-> pc, job |-> receiver[r].job] \in [pc : {"check", "recv", "push", "done"}, job : Nat]
        BY <1>0 DEF UdpTypeOK
      <3>2. [pc |-> pc, job |-> receiver[r].job].pc # "push"
        OBVIOUS
      <3> QED BY <1>0, <1>1, <2>1, <3>1, <3>2, ReceiverMoves
    <2>3. Reading' = Reading /\ \A s \in Reading : receiver'[s] = receiver[s]
      BY <2>2
    <2>4. UdpTypeOK'
      BY <1>0, <1>1, <2>2 DEF UdpTypeOK
    <2>5. OneReader'
      BY <1>0, <1>1, <2>3 DEF OneReader
    <2>6. OnePlace' /\ OneHandler' /\ Counted'
      BY <1>0, <1>1, <2>3 DEF OnePlace, OneHandler, Counted
    <2> QED BY <1>0, <1>1, <2>4, <2>5, <2>6 DEF UdpInv
  <1>2. CASE Check(r) \/ ReceiveTimeout(r)
    BY <1>1, <1>2 DEF Check, ReceiveTimeout
  <1>3. CASE Receive(r)
    <2> DEFINE to == [pc |-> "push", job |-> arrived + 1]
    <2>1. /\ receiver[r].pc = "recv" /\ arrived' = arrived + 1 /\ queue' = queue /\ shed' = shed
          /\ receiver' = [receiver EXCEPT ![r] = to]
      BY <1>3 DEF Receive
    <2>2. to \in [pc : {"check", "recv", "push", "done"}, job : Nat] /\ to.pc = "push"
          /\ to.job = arrived + 1 /\ arrived \in Nat
      BY <1>0 DEF UdpTypeOK
    <2> HIDE DEF to
    <2>3. /\ receiver' \in [Receivers -> [pc : {"check", "recv", "push", "done"}, job : Nat]]
          /\ Reading' = Reading \cup {r} /\ r \notin Reading /\ Reading \subseteq Receivers
          /\ receiver'[r].job = arrived + 1
          /\ \A s \in Receivers \ {r} : receiver'[s] = receiver[s]
      BY <1>0, <2>1, <2>2, ReceiverMoves
    <2>4. Cardinality(Reading') = Cardinality(Reading) + 1
      BY <1>0, <2>3, HandsFinite, OneMoreOrLess
    <2>5. UdpTypeOK'
      BY <1>0, <2>1, <2>2, <2>3 DEF UdpTypeOK
    <2>6. /\ \A s \in Reading : receiver'[s] = receiver[s] /\ receiver[s].job \in 1 .. arrived
          /\ \A d \in 1 .. arrived : d \in 1 .. arrived + 1 /\ d # arrived + 1
          /\ arrived + 1 \in 1 .. arrived + 1
          /\ arrived + 1 \notin answered
          /\ \A i \in 1 .. Len(queue) : queue[i] \in 1 .. arrived
          /\ \A h \in Answering : handler[h].job \in 1 .. arrived
      BY <1>0, <2>2, <2>3 DEF UdpTypeOK, OneReader, OnePlace, OneHandler
    <2>7. OneReader'
      <3> SUFFICES ASSUME NEW s \in Reading \cup {r}
                   PROVE  /\ receiver'[s].job \in 1 .. arrived + 1 /\ receiver'[s].job \notin answered
                          /\ \A i \in 1 .. Len(queue) : queue[i] # receiver'[s].job
                          /\ \A h \in Answering : handler[h].job # receiver'[s].job
                          /\ \A t \in Reading \cup {r} : receiver'[t].job = receiver'[s].job => t = s
        BY <1>0, <2>1, <2>3 DEF OneReader
      <3>1. CASE s = r
        BY <2>3, <2>6, <3>1
      <3>2. CASE s \in Reading
        BY <1>0, <2>3, <2>6, <3>2 DEF OneReader
      <3> QED BY <3>1, <3>2
    <2>8. OnePlace' /\ OneHandler'
      BY <1>0, <2>1, <2>6 DEF OnePlace, OneHandler
    <2>9. Counted'
      BY <1>0, <2>1, <2>4, HandsFinite, SMTT(30) DEF Counted
    <2> QED BY <1>0, <2>1, <2>5, <2>7, <2>8, <2>9 DEF UdpInv
  <1>4. CASE Push(r)
    <2> DEFINE to == [pc |-> "check", job |-> 0]
    <2>1. /\ receiver[r].pc = "push" /\ arrived' = arrived
          /\ receiver' = [receiver EXCEPT ![r] = to]
      BY <1>4 DEF Push
    <2>2. to \in [pc : {"check", "recv", "push", "done"}, job : Nat] /\ to.pc # "push"
      OBVIOUS
    <2> HIDE DEF to
    <2>3. /\ receiver' \in [Receivers -> [pc : {"check", "recv", "push", "done"}, job : Nat]]
          /\ Reading' = Reading \ {r} /\ r \in Reading /\ Reading \subseteq Receivers
          /\ \A s \in Receivers \ {r} : receiver'[s] = receiver[s]
      BY <1>0, <2>1, <2>2, ReceiverMoves
    <2>4. Cardinality(Reading') = Cardinality(Reading) - 1 /\ Cardinality(Reading) >= 1
      BY <1>0, <2>3, HandsFinite, OneMoreOrLess
    <2>5. \A s \in Reading' : s \in Reading /\ s # r /\ receiver'[s] = receiver[s]
      BY <2>3
    <2>6. CASE Refuses
      <3>1. queue' = queue /\ shed' = shed + 1
        BY <1>4, <2>6 DEF Push
      <3>2. UdpTypeOK'
        BY <1>0, <2>1, <2>3, <3>1 DEF UdpTypeOK
      <3>3. OneReader'
        BY <1>0, <2>1, <2>5, <3>1 DEF OneReader
      <3>4. OnePlace' /\ OneHandler'
        BY <1>0, <2>1, <3>1 DEF OnePlace, OneHandler
      <3>5. Counted'
        <4>1. Len(queue') = Len(queue) /\ Cardinality(answered') = Cardinality(answered)
          BY <1>0, <3>1
        <4>2. /\ Len(queue) \in Nat /\ shed \in Nat /\ Cardinality(Answering) \in Nat
              /\ Cardinality(answered) \in Nat /\ Cardinality(Reading) \in Nat
          BY <1>0, HandsFinite
        <4> QED BY <1>0, <2>1, <2>4, <3>1, <4>1, <4>2, SMTT(30) DEF Counted
      <3> QED BY <1>0, <3>1, <3>2, <3>3, <3>4, <3>5 DEF UdpInv
    <2>7. CASE ~Refuses
      <3> DEFINE d == receiver[r].job
      <3>1. queue' = Append(queue, d) /\ shed' = shed /\ ~flag /\ Len(queue) < QueueCap
        BY <1>0, <1>4, <2>7, HandsFinite DEF Push, Refuses
      <3>2. /\ d \in Nat /\ queue \in Seq(Nat)
            /\ d \in 1 .. arrived /\ d \notin answered
            /\ \A i \in 1 .. Len(queue) : queue[i] # d
            /\ \A h \in Answering : handler[h].job # d
            /\ \A s \in Reading : receiver[s].job = d => s = r
        BY <1>0, <2>3 DEF UdpTypeOK, OneReader
      <3> HIDE DEF d
      <3>3. /\ queue' \in Seq(Nat) /\ Len(queue') = Len(queue) + 1 /\ Len(queue) \in Nat
            /\ \A i \in 1 .. Len(queue) : queue'[i] = queue[i]
            /\ queue'[Len(queue) + 1] = d
        BY <3>1, <3>2
      <3>4. UdpTypeOK'
        BY <1>0, <2>1, <2>3, <3>1, <3>3 DEF UdpTypeOK
      <3>5. \A i \in 1 .. Len(queue') : i \in 1 .. Len(queue) \/ i = Len(queue) + 1
        BY <3>3
      <3>6. OneReader'
        <4> SUFFICES ASSUME NEW s \in Reading'
                     PROVE  /\ receiver'[s].job \in 1 .. arrived /\ receiver'[s].job \notin answered
                            /\ \A i \in 1 .. Len(queue') : queue'[i] # receiver'[s].job
                            /\ \A h \in Answering : handler[h].job # receiver'[s].job
                            /\ \A t \in Reading' : receiver'[t].job = receiver'[s].job => t = s
          BY <1>0, <2>1 DEF OneReader
        <4>1. s \in Reading /\ receiver'[s] = receiver[s] /\ receiver[s].job # d
          BY <2>5, <3>2
        <4>2. \A i \in 1 .. Len(queue) : queue[i] # receiver[s].job
          BY <1>0, <4>1 DEF OneReader
        <4>3. \A i \in 1 .. Len(queue') : queue'[i] # receiver[s].job
          BY <3>3, <3>5, <4>1, <4>2
        <4> QED BY <1>0, <2>5, <4>1, <4>3 DEF OneReader
      <3>7. OnePlace'
        <4> SUFFICES ASSUME NEW i \in 1 .. Len(queue')
                     PROVE  /\ queue'[i] \in 1 .. arrived /\ queue'[i] \notin answered
                            /\ \A h \in Answering : handler[h].job # queue'[i]
                            /\ \A j \in 1 .. Len(queue') : queue'[j] = queue'[i] => j = i
          BY <1>0, <2>1 DEF OnePlace
        <4>1. CASE i \in 1 .. Len(queue)
          BY <1>0, <3>2, <3>3, <3>5, <4>1, ZenonT(60) DEF OnePlace
        <4>2. CASE i = Len(queue) + 1
          BY <3>2, <3>3, <3>5, <4>2
        <4> QED BY <3>5, <4>1, <4>2
      <3>8. OneHandler'
        BY <1>0, <2>1 DEF OneHandler
      <3>9. Counted'
        BY <1>0, <2>1, <2>4, <3>1, <3>3, HandsFinite DEF Counted
      <3>10. Len(queue') <= QueueCap /\ \A h \in Handlers : handler'[h].pc # "done"
        BY <1>0, <3>1, <3>3, HandsFinite
      <3> QED BY <1>0, <3>4, <3>6, <3>7, <3>8, <3>9, <3>10 DEF UdpInv
    <2> QED BY <2>6, <2>7
  <1> QED BY <1>2, <1>3, <1>4 DEF ReceiverStep

LEMMA HandlerKeeps ==
    ASSUME UdpInv, NEW h \in Handlers, HandlerStep(h) \/ HandlerPanics(h)
    PROVE  UdpInv'
  <1>0. /\ flag' = flag /\ receiver' = receiver /\ arrived' = arrived /\ shed' = shed
        /\ Reading' = Reading
        /\ UdpTypeOK /\ OneReader /\ OnePlace /\ OneHandler /\ Counted /\ Len(queue) <= QueueCap
        /\ \A g \in Handlers : handler[g].pc = "done" => flag /\ queue = <<>>
    BY DEF HandlerStep, HandlerPanics, Pop, PopNone, Answer, admin, Reading, UdpInv
  <1>1. CASE Pop(h)
    <2> DEFINE to == [pc |-> "answer", job |-> Head(queue)]
    <2>1. /\ handler[h].pc = "pop" /\ queue # <<>> /\ queue' = Tail(queue)
          /\ handler' = [handler EXCEPT ![h] = to] /\ answered' = answered
      BY <1>1 DEF Pop
    <2>2. /\ queue \in Seq(Nat) /\ queue' \in Seq(Nat) /\ Len(queue) \in Nat /\ Len(queue) >= 1
          /\ Len(queue') = Len(queue) - 1 /\ Head(queue) = queue[1] /\ queue[1] \in Nat
          /\ \A i \in 1 .. Len(queue') : queue'[i] = queue[i + 1] /\ i + 1 \in 1 .. Len(queue) /\ i + 1 # 1
          /\ 1 \in 1 .. Len(queue)
      BY <1>0, <2>1 DEF UdpTypeOK
    <2>3. to \in [pc : {"pop", "answer", "done", "crashed"}, job : Nat] /\ to.pc = "answer" /\ to.job = queue[1]
      BY <2>2
    <2> HIDE DEF to
    <2>4. /\ handler' \in [Handlers -> [pc : {"pop", "answer", "done", "crashed"}, job : Nat]]
          /\ Answering' = Answering \cup {h} /\ h \notin Answering /\ Answering \subseteq Handlers
          /\ handler'[h] = to /\ \A g \in Handlers \ {h} : handler'[g] = handler[g]
      BY <1>0, <2>1, <2>3, HandlerMoves
    <2>5. Cardinality(Answering') = Cardinality(Answering) + 1
      BY <1>0, <2>4, HandsFinite, OneMoreOrLess
    <2>6. \A g \in Answering' : g = h \/ (g \in Answering /\ handler'[g] = handler[g])
      BY <2>4
    <2>7. /\ queue[1] \in 1 .. arrived /\ queue[1] \notin answered
          /\ \A g \in Answering : handler[g].job # queue[1]
          /\ \A j \in 1 .. Len(queue) : queue[j] = queue[1] => j = 1
      BY <1>0, <2>2 DEF OnePlace
    <2>8. UdpTypeOK'
      BY <1>0, <2>1, <2>2, <2>4 DEF UdpTypeOK
    <2>9. OneReader'
      <3> SUFFICES ASSUME NEW r \in Reading
                   PROVE  /\ receiver[r].job \in 1 .. arrived /\ receiver[r].job \notin answered
                          /\ \A i \in 1 .. Len(queue') : queue'[i] # receiver[r].job
                          /\ \A g \in Answering' : handler'[g].job # receiver[r].job
                          /\ \A s \in Reading : receiver[s].job = receiver[r].job => s = r
        BY <1>0, <2>1 DEF OneReader
      <3>1. \A i \in 1 .. Len(queue) : queue[i] # receiver[r].job
        BY <1>0 DEF OneReader
      <3>2. \A i \in 1 .. Len(queue') : queue'[i] # receiver[r].job
        BY <2>2, <3>1
      <3>3. \A g \in Answering' : handler'[g].job # receiver[r].job
        <4>1. handler'[h].job # receiver[r].job
          BY <2>2, <2>3, <2>4, <3>1
        <4>2. \A g \in Answering : handler[g].job # receiver[r].job
          BY <1>0 DEF OneReader
        <4> QED BY <2>6, <4>1, <4>2
      <3> QED BY <1>0, <3>2, <3>3 DEF OneReader
    <2>10. OnePlace'
      <3> SUFFICES ASSUME NEW i \in 1 .. Len(queue')
                   PROVE  /\ queue'[i] \in 1 .. arrived /\ queue'[i] \notin answered
                          /\ \A g \in Answering' : handler'[g].job # queue'[i]
                          /\ \A j \in 1 .. Len(queue') : queue'[j] = queue'[i] => j = i
        BY <1>0, <2>1 DEF OnePlace
      <3>1. queue'[i] = queue[i + 1] /\ i + 1 \in 1 .. Len(queue) /\ i + 1 # 1
        BY <2>2
      <3>2. /\ queue[i + 1] \in 1 .. arrived /\ queue[i + 1] \notin answered
            /\ \A g \in Answering : handler[g].job # queue[i + 1]
            /\ \A j \in 1 .. Len(queue) : queue[j] = queue[i + 1] => j = i + 1
        BY <1>0, <3>1 DEF OnePlace
      <3>3. \A g \in Answering' : handler'[g].job # queue[i + 1]
        BY <2>3, <2>4, <2>6, <2>7, <3>1, <3>2
      <3>4. \A j \in 1 .. Len(queue') : queue'[j] = queue'[i] => j = i
        <4> TAKE j \in 1 .. Len(queue')
        <4>1. queue'[j] = queue[j + 1] /\ j + 1 \in 1 .. Len(queue)
          BY <2>2
        <4>2. queue[j + 1] = queue[i + 1] => j + 1 = i + 1
          BY <3>2, <4>1
        <4>3. j \in Nat /\ i \in Nat
          BY <2>2
        <4> QED BY <3>1, <4>1, <4>2, <4>3
      <3> QED BY <3>1, <3>2, <3>3, <3>4
    <2>11. OneHandler'
      <3> SUFFICES ASSUME NEW g \in Answering'
                   PROVE  /\ handler'[g].job \in 1 .. arrived /\ handler'[g].job \notin answered
                          /\ \A f \in Answering' : handler'[f].job = handler'[g].job => f = g
        BY <1>0, <2>1 DEF OneHandler
      <3>1. CASE g = h
        BY <2>3, <2>4, <2>6, <2>7, <3>1
      <3>2. CASE g \in Answering /\ handler'[g] = handler[g]
        BY <1>0, <2>3, <2>4, <2>6, <2>7, <3>2 DEF OneHandler
      <3> QED BY <2>6, <3>1, <3>2
    <2>12. Counted'
      BY <1>0, <2>1, <2>2, <2>5, HandsFinite DEF Counted
    <2>13. Len(queue') <= QueueCap /\ \A g \in Handlers : handler'[g].pc # "done"
      BY <1>0, <2>1, <2>2, <2>3, <2>4, HandsFinite
    <2> QED BY <1>0, <2>8, <2>9, <2>10, <2>11, <2>12, <2>13 DEF UdpInv
  <1>2. CASE PopNone(h)
    <2>1. /\ handler[h].pc = "pop" /\ queue = <<>> /\ flag /\ queue' = queue /\ answered' = answered
          /\ handler' = [handler EXCEPT ![h] = [pc |-> "done", job |-> handler[h].job]]
      <3>1. handler[h] \in [pc : {"pop", "answer", "done", "crashed"}, job : Nat]
        BY <1>0 DEF UdpTypeOK
      <3>2. [handler[h] EXCEPT !.pc = "done"] = [pc |-> "done", job |-> handler[h].job]
        BY <3>1
      <3> QED BY <1>2, <3>2 DEF PopNone
    <2>2. /\ [pc |-> "done", job |-> handler[h].job] \in [pc : {"pop", "answer", "done", "crashed"}, job : Nat]
          /\ [pc |-> "done", job |-> handler[h].job].pc \notin {"answer", "crashed"}
      BY <1>0 DEF UdpTypeOK
    <2>3. /\ handler' \in [Handlers -> [pc : {"pop", "answer", "done", "crashed"}, job : Nat]]
          /\ Answering' = Answering \ {h} /\ h \notin Answering /\ Answering \subseteq Handlers
          /\ \A g \in Handlers \ {h} : handler'[g] = handler[g]
      BY <1>0, <2>1, <2>2, HandlerMoves
    <2>4. Answering' = Answering /\ \A g \in Answering : handler'[g] = handler[g]
      BY <2>3
    <2>5. UdpTypeOK'
      BY <1>0, <2>1, <2>3 DEF UdpTypeOK
    <2>6. OneReader' /\ OnePlace'
      BY <1>0, <2>1, <2>4 DEF OneReader, OnePlace
    <2>7. OneHandler' /\ Counted'
      BY <1>0, <2>1, <2>4 DEF OneHandler, Counted
    <2> QED BY <1>0, <2>1, <2>5, <2>6, <2>7 DEF UdpInv
  <1>3. CASE Answer(h)
    <2> DEFINE to == [pc |-> "pop", job |-> 0]
               d == handler[h].job
    <2>1. /\ handler[h].pc = "answer" /\ answered' = answered \cup {d} /\ queue' = queue
          /\ handler' = [handler EXCEPT ![h] = to]
      BY <1>3 DEF Answer
    <2>2. to \in [pc : {"pop", "answer", "done", "crashed"}, job : Nat] /\ to.pc = "pop"
      OBVIOUS
    <2> HIDE DEF to
    <2>3. /\ handler' \in [Handlers -> [pc : {"pop", "answer", "done", "crashed"}, job : Nat]]
          /\ Answering' = Answering \ {h} /\ h \in Answering /\ Answering \subseteq Handlers
          /\ handler'[h] = to /\ \A g \in Handlers \ {h} : handler'[g] = handler[g]
      BY <1>0, <2>1, <2>2, HandlerMoves
    <2>4. /\ d \in 1 .. arrived /\ d \notin answered
          /\ \A g \in Answering : handler[g].job = d => g = h
      BY <1>0, <2>3 DEF OneHandler
    <2>5. /\ \A r \in Reading : receiver[r].job # d
          /\ \A i \in 1 .. Len(queue) : queue[i] # d
      BY <1>0, <2>3 DEF OneReader, OnePlace
    <2> HIDE DEF d
    <2>6. Cardinality(Answering') = Cardinality(Answering) - 1 /\ Cardinality(Answering) >= 1
      BY <1>0, <2>3, HandsFinite, OneMoreOrLess
    <2>7. Cardinality(answered') = Cardinality(answered) + 1
      BY <1>0, <2>1, <2>4, HandsFinite, OneMoreOrLess
    <2>8. \A g \in Answering' : g \in Answering /\ handler'[g] = handler[g] /\ handler[g].job # d
      BY <2>3, <2>4
    <2>9. UdpTypeOK'
      BY <1>0, <2>1, <2>3, <2>4 DEF UdpTypeOK
    <2>10. OneReader' /\ OnePlace'
      BY <1>0, <2>1, <2>5, <2>8 DEF OneReader, OnePlace
    <2>11. OneHandler'
      BY <1>0, <2>1, <2>8 DEF OneHandler
    <2>12. Counted'
      BY <1>0, <2>1, <2>6, <2>7, HandsFinite DEF Counted
    <2>13. \A g \in Handlers : handler'[g].pc = "done" => flag /\ queue = <<>>
      BY <1>0, <2>2, <2>3
    <2> QED BY <1>0, <2>1, <2>9, <2>10, <2>11, <2>12, <2>13 DEF UdpInv
  <1>4. CASE HandlerPanics(h)
    <2> DEFINE to == [pc |-> "crashed", job |-> handler[h].job]
    <2>1. /\ handler[h].pc = "answer" /\ queue' = queue /\ answered' = answered
          /\ handler' = [handler EXCEPT ![h] = to]
      <3>1. handler[h] \in [pc : {"pop", "answer", "done", "crashed"}, job : Nat]
        BY <1>0 DEF UdpTypeOK
      <3>2. [handler[h] EXCEPT !.pc = "crashed"] = to
        BY <3>1
      <3> QED BY <1>4, <3>2 DEF HandlerPanics
    <2>2. /\ to \in [pc : {"pop", "answer", "done", "crashed"}, job : Nat]
          /\ to.pc = "crashed" /\ to.job = handler[h].job
      BY <1>0 DEF UdpTypeOK
    <2> HIDE DEF to
    <2>3. /\ handler' \in [Handlers -> [pc : {"pop", "answer", "done", "crashed"}, job : Nat]]
          /\ Answering' = Answering \cup {h} /\ h \in Answering /\ Answering \subseteq Handlers
          /\ handler'[h] = to /\ \A g \in Handlers \ {h} : handler'[g] = handler[g]
      BY <1>0, <2>1, <2>2, HandlerMoves
    <2>4. Answering' = Answering /\ \A g \in Answering : handler'[g].job = handler[g].job
      BY <2>2, <2>3
    <2>5. UdpTypeOK'
      BY <1>0, <2>1, <2>3 DEF UdpTypeOK
    <2>6. OneReader' /\ OnePlace'
      BY <1>0, <2>1, <2>4 DEF OneReader, OnePlace
    <2>7. OneHandler' /\ Counted'
      BY <1>0, <2>1, <2>4 DEF OneHandler, Counted
    <2>8. \A g \in Handlers : handler'[g].pc = "done" => flag /\ queue = <<>>
      BY <1>0, <2>2, <2>3
    <2> QED BY <1>0, <2>1, <2>5, <2>6, <2>7, <2>8 DEF UdpInv
  <1> QED BY <1>1, <1>2, <1>3, <1>4 DEF HandlerStep

(* Steps of the others: the flag may go up. *)
LEMMA UdpUntouched ==
    ASSUME UdpInv, UNCHANGED udp, flag' \in {flag, TRUE}
    PROVE  UdpInv'
  BY DEF udp, UdpInv, UdpTypeOK, OneReader, OnePlace, OneHandler, Counted, Reading, Answering

-----------------------------------------------------------------------------
(* join, and the whole server *)

AdminTypeOK ==
    /\ backlog \in [Listeners -> Nat] /\ connects \in Nat
    /\ handles \subseteq Receivers \cup Handlers \cup Listeners /\ addrs \subseteq Listeners
    /\ stopper \in {"idle", "wake", "done"}
    /\ joiner \in [pc : {"idle", "wait", "joined"}, taken : SUBSET (Receivers \cup Handlers \cup Listeners)]

(* join waits for every receiver and every handler, and they stay ended. *)
JoinInv ==
    /\ joiner.pc = "idle" => Receivers \cup Handlers \subseteq handles
    /\ joiner.pc = "wait" => Receivers \cup Handlers \subseteq joiner.taken
    /\ joiner.pc = "joined" => /\ \A r \in Receivers : receiver[r].pc = "done"
                               /\ \A h \in Handlers : handler[h].pc \in {"done", "crashed"}

ServerInv == UdpInv /\ ConnInv /\ AdminTypeOK /\ JoinInv

LEMMA ServerStart == Init => ServerInv
  <1> SUFFICES ASSUME Init PROVE ServerInv
    OBVIOUS
  <1>1. Reading = {} /\ Answering = {} /\ Starting = {} /\ Running = {} /\ Adding = {}
    BY DEF Init, Reading, Answering, Starting, Running, Adding
  <1>2. Cardinality({}) = 0 /\ Len(<<>>) = 0 /\ QueueCap \in Nat /\ MaxTcp \in Nat
    BY FS_EmptySet, ServerAssumption
  <1>3. Cardinality(Listeners) \in Nat
    BY ConnsFinite
  <1>4. UdpTypeOK
    <2>1. <<>> \in Seq(Nat) /\ {} \subseteq 1 .. 0 /\ FALSE \in BOOLEAN
      OBVIOUS
    <2>2. /\ [r \in Receivers |-> [pc |-> "check", job |-> 0]]
               \in [Receivers -> [pc : {"check", "recv", "push", "done"}, job : Nat]]
          /\ [h \in Handlers |-> [pc |-> "pop", job |-> 0]]
               \in [Handlers -> [pc : {"pop", "answer", "done", "crashed"}, job : Nat]]
      OBVIOUS
    <2> QED BY <2>1, <2>2 DEF Init, UdpTypeOK
  <1>5. OneReader /\ OnePlace /\ OneHandler /\ Counted
    BY <1>1, <1>2 DEF Init, OneReader, OnePlace, OneHandler, Counted
  <1>6. UdpInv
    BY <1>2, <1>4, <1>5 DEF Init, UdpInv
  <1>7. ConnInv
    BY <1>1, <1>2, <1>3 DEF Init, ConnInv
  <1>8. AdminTypeOK /\ JoinInv
    BY DEF Init, AdminTypeOK, JoinInv
  <1> QED BY <1>6, <1>7, <1>8 DEF ServerInv

(* A thread that has ended takes no step, and join counts threads that have. *)
LEMMA JoinKeeps == ServerInv /\ [Next]_vars => AdminTypeOK' /\ JoinInv'
  <1> SUFFICES ASSUME ServerInv, [Next]_vars PROVE AdminTypeOK' /\ JoinInv'
    OBVIOUS
  <1>0. /\ UdpTypeOK /\ AdminTypeOK /\ JoinInv
    BY DEF ServerInv, UdpInv
  <1>1. ASSUME NEW r \in Receivers, ReceiverStep(r) PROVE AdminTypeOK' /\ JoinInv'
    <2>1. receiver[r].pc # "done" /\ UNCHANGED <<handler, backlog, connects, handles, addrs, stopper, joiner>>
      BY <1>1 DEF ReceiverStep, Check, Receive, ReceiveTimeout, Push, tcp, admin
    <2> QED BY <1>0, <2>1 DEF AdminTypeOK, JoinInv
  <1>2. ASSUME NEW h \in Handlers, HandlerStep(h) \/ HandlerPanics(h) PROVE AdminTypeOK' /\ JoinInv'
    <2>1. handler[h].pc \notin {"done", "crashed"} /\ UNCHANGED <<receiver, backlog, connects, handles, addrs, stopper, joiner>>
      BY <1>2 DEF HandlerStep, HandlerPanics, Pop, PopNone, Answer, tcp, admin
    <2> QED BY <1>0, <2>1 DEF AdminTypeOK, JoinInv
  <1>3. ASSUME NEW l \in Listeners, ClientConnects(l) \/ ListenerStep(l) \/ AcceptFails(l) \/ Bind(l)
        PROVE AdminTypeOK' /\ JoinInv'
    <2>1. /\ UNCHANGED <<receiver, handler, addrs, stopper, joiner>>
          /\ handles' \in {handles, handles \cup {l}}
      BY <1>3 DEF ClientConnects, ListenerStep, Accept, AcceptFails, LoadCount, AddCount, SpawnConn, SpawnRefused, Bind, udp, admin
    <2>2. backlog' \in [Listeners -> Nat] /\ connects' \in Nat
      BY <1>0, <1>3 DEF AdminTypeOK, ClientConnects, ListenerStep, Accept, AcceptFails, LoadCount, AddCount,
                        SpawnConn, SpawnRefused, Bind
    <2> QED BY <1>0, <2>1, <2>2 DEF AdminTypeOK, JoinInv
  <1>4. ASSUME NEW c \in Conns, ConnEnds(c) \/ ConnPanics(c) PROVE AdminTypeOK' /\ JoinInv'
    BY <1>0, <1>4 DEF ConnEnds, ConnPanics, udp, admin, AdminTypeOK, JoinInv
  <1>5. CASE Shutdown \/ (\E l \in Listeners : Register(l)) \/ Wake
    <2>1. UNCHANGED <<receiver, handler, handles, joiner, connects>>
      BY <1>5 DEF Shutdown, Register, Wake, udp, tcp
    <2>2. backlog' \in [Listeners -> Nat] /\ addrs' \subseteq Listeners /\ stopper' \in {"idle", "wake", "done"}
      BY <1>0, <1>5 DEF Shutdown, Register, Wake, udp, tcp, AdminTypeOK
    <2> QED BY <1>0, <2>1, <2>2 DEF AdminTypeOK, JoinInv
  <1>6. CASE Join
    <2>1. /\ joiner.pc = "idle" /\ joiner' = [pc |-> "wait", taken |-> handles] /\ handles' = {}
          /\ UNCHANGED <<receiver, handler, backlog, connects, addrs, stopper>>
      BY <1>6 DEF Join, udp, tcp
    <2> QED BY <1>0, <2>1 DEF AdminTypeOK, JoinInv
  <1>7. CASE Joined
    <2>1. /\ joiner.pc = "wait" /\ joiner' = [joiner EXCEPT !.pc = "joined"]
          /\ UNCHANGED <<receiver, handler, backlog, connects, handles, addrs, stopper>>
          /\ \A t \in joiner.taken : ThreadEnded(t)
      BY <1>7 DEF Joined, udp, tcp
    <2>2. /\ \A r \in Receivers : receiver[r].pc = "done"
          /\ \A h \in Handlers : handler[h].pc \in {"done", "crashed"}
      BY <1>0, <2>1 DEF JoinInv, ThreadEnded
    <2> QED BY <1>0, <2>1, <2>2 DEF AdminTypeOK, JoinInv
  <1>8. CASE UNCHANGED vars
    BY <1>0, <1>8 DEF vars, udp, tcp, admin, AdminTypeOK, JoinInv
  <1> QED BY <1>1, <1>2, <1>3, <1>4, <1>5, <1>6, <1>7, <1>8 DEF Next, AdminStep

LEMMA ServerStep == ServerInv /\ [Next]_vars => ServerInv'
  <1> SUFFICES ASSUME ServerInv, [Next]_vars PROVE ServerInv'
    OBVIOUS
  <1>1. AdminTypeOK' /\ JoinInv'
    BY JoinKeeps
  <1>2. UdpInv /\ ConnInv
    BY DEF ServerInv
  <1>3. ASSUME NEW r \in Receivers, ReceiverStep(r) PROVE UdpInv' /\ ConnStep
    <2>1. UNCHANGED tcp
      BY <1>3 DEF ReceiverStep, Check, Receive, ReceiveTimeout, Push
    <2> QED BY <1>2, <1>3, <2>1, ReceiverKeeps DEF ConnStep, tcp
  <1>4. ASSUME NEW h \in Handlers, HandlerStep(h) \/ HandlerPanics(h) PROVE UdpInv' /\ ConnStep
    <2>1. UNCHANGED tcp
      BY <1>4 DEF HandlerStep, HandlerPanics, Pop, PopNone, Answer
    <2> QED BY <1>2, <1>4, <2>1, HandlerKeeps DEF ConnStep, tcp
  <1>5. ASSUME NEW l \in Listeners, ListenerStep(l) \/ AcceptFails(l) \/ Bind(l) PROVE UdpInv' /\ ConnStep
    <2>1. UNCHANGED udp /\ flag' = flag
      BY <1>5 DEF ListenerStep, Accept, AcceptFails, LoadCount, AddCount, SpawnConn, SpawnRefused, Bind, admin
    <2>2. UdpInv'
      BY <1>2, <2>1, UdpUntouched
    <2> QED BY <1>5, <2>2 DEF ConnStep
  <1>6. ASSUME NEW l \in Listeners, ClientConnects(l) PROVE UdpInv' /\ ConnStep
    <2>1. UNCHANGED udp /\ flag' = flag /\ UNCHANGED <<listener, count, conn>>
      BY <1>6 DEF ClientConnects, admin
    <2> QED BY <1>2, <2>1, UdpUntouched DEF ConnStep
  <1>7. ASSUME NEW c \in Conns, ConnEnds(c) \/ ConnPanics(c) PROVE UdpInv' /\ ConnStep
    <2>1. UNCHANGED udp /\ flag' = flag
      BY <1>7 DEF ConnEnds, ConnPanics, admin
    <2>2. UdpInv'
      BY <1>2, <2>1, UdpUntouched
    <2> QED BY <1>7, <2>2 DEF ConnStep
  <1>8. ASSUME AdminStep \/ Shutdown \/ Join PROVE UdpInv' /\ ConnStep
    <2>1. UNCHANGED udp /\ (flag' = flag \/ flag' = TRUE) /\ UNCHANGED <<listener, count, conn>>
      BY <1>8 DEF AdminStep, Register, Wake, Joined, Shutdown, Join, tcp
    <2>2. UdpInv'
      BY <1>2, <2>1, UdpUntouched
    <2> QED BY <2>1, <2>2 DEF ConnStep
  <1>9. ASSUME UNCHANGED vars PROVE UdpInv' /\ ConnStep
    <2>1. UNCHANGED udp /\ flag' = flag /\ UNCHANGED <<listener, count, conn>>
      BY <1>9 DEF vars, tcp, admin
    <2>2. UdpInv'
      BY <1>2, <2>1, UdpUntouched
    <2> QED BY <2>1, <2>2 DEF ConnStep
  <1>10. UdpInv' /\ ConnStep
    <2>1. \/ \E r \in Receivers : ReceiverStep(r)
          \/ \E h \in Handlers : HandlerStep(h) \/ HandlerPanics(h)
          \/ \E l \in Listeners : ClientConnects(l) \/ ListenerStep(l) \/ AcceptFails(l) \/ Bind(l)
          \/ \E c \in Conns : ConnEnds(c) \/ ConnPanics(c)
          \/ AdminStep \/ Shutdown \/ Join \/ UNCHANGED vars
      BY DEF Next
    <2> QED BY <1>3, <1>4, <1>5, <1>6, <1>7, <1>8, <1>9, <2>1
  <1> QED BY <1>1, <1>2, <1>10, ConnKeeps DEF ServerInv

(* The invariant says what the server promises: after join every receiver and
   every handler has ended, with nothing in hand, and a handler ends only when
   the queue is empty, or panics. *)
LEMMA ServerKeeps == ServerInv => Accounted
  <1> SUFFICES ASSUME ServerInv PROVE Accounted
    OBVIOUS
  <1>1. UdpInv /\ ConnInv /\ AdminTypeOK /\ JoinInv /\ UdpTypeOK
    BY DEF ServerInv, UdpInv
  <1>2. ServerTypeOK
    BY <1>1 DEF UdpTypeOK, ConnInv, AdminTypeOK, ServerTypeOK
  <1>3. Len(queue) <= QueueCap /\ Counted
    BY <1>1 DEF UdpInv
  <1>4. joiner.pc = "joined" =>
          /\ arrived = Len(queue) + Cardinality(Crashed) + Cardinality(answered) + shed
          /\ queue # <<>> => Crashed = Handlers
    <2> SUFFICES ASSUME joiner.pc = "joined"
                 PROVE  /\ arrived = Len(queue) + Cardinality(Crashed) + Cardinality(answered) + shed
                        /\ queue # <<>> => Crashed = Handlers
      OBVIOUS
    <2>1. Reading = {} /\ Answering = Crashed
      BY <1>1 DEF JoinInv, Reading, Answering, Crashed
    <2>2. queue # <<>> => Crashed = Handlers
      BY <1>1 DEF JoinInv, UdpInv, Crashed
    <2>3. Cardinality(Reading) = 0
      BY <2>1, FS_EmptySet
    <2> QED BY <1>1, <1>3, <2>1, <2>2, <2>3, HandsFinite DEF Counted
  <1>5. ConnsBounded
    BY <1>1, ConnsFinite DEF ConnInv, ConnsBounded
  <1> QED BY <1>2, <1>3, <1>4, <1>5 DEF Accounted, DatagramsAccounted, Counted

(* For any numbers of threads, listeners and connections, any queue and any
   limit, panics, and a shutdown at any moment: no datagram is lost or answered
   twice but the ones that make a handler panic, none is left when join returns
   unless all handlers had panicked, and connections keep to their limit but for
   the race of several accept loops. *)
THEOREM NothingUnaccounted == Spec => []Accounted
  <1>1. Init => ServerInv
    BY ServerStart
  <1>2. ServerInv /\ [Next]_vars => ServerInv'
    BY ServerStep
  <1>3. ServerInv => Accounted
    BY ServerKeeps
  <1> QED BY <1>1, <1>2, <1>3, PTL DEF Spec
=============================================================================
