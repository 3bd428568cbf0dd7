------------------------------- MODULE FakeIp -------------------------------
(***************************************************************************)
(* One address space of the fake-IP pool (src/fakeip.rs: Space), as the    *)
(* resolver's local answers and the maintenance thread use it under the    *)
(* pool's mutex (src/resolver.rs: local_answer).  The IPv4 and the IPv6    *)
(* space run the same code and share no state.                             *)
(***************************************************************************)
EXTENDS Bounded, WallClock

CONSTANTS
    Names,        \* names that hosts does not pin and the filter lets through
    First, Last,  \* the allocatable keys; First - 1 is the network address
    MaxEntries,   \* max_entries, after .max(1)
    Ttl,          \* ttl_nanos, in ticks
    FakeStride,   \* EVICT_STRIDE
    Snapshot,     \* <<name, key>> pairs an embedding program may restore
    FakeTime      \* bound on the clock

ASSUME FakeIpAssumption ==
    /\ First \in Nat \ {0} /\ Last \in Nat /\ First <= Last
    /\ MaxEntries \in Nat \ {0} /\ Ttl \in Nat /\ FakeStride \in Nat /\ FakeTime \in Nat
    /\ \A s \in Snapshot : s = <<s[1], s[2]>> /\ s[1] \in Names /\ s[2] \in Nat

VARIABLES
    byKey,    \* by_key: address key to mapping
    byName,   \* by_name: name to address key
    next      \* the cursor

fakeVars == <<now, byKey, byName, next>>

KeyRange == First .. Last
Size == Last - First + 1
Cap == IF MaxEntries < Size THEN MaxEntries ELSE Size

FakeInit == now = 0 /\ byKey = <<>> /\ byName = <<>> /\ next = First

-----------------------------------------------------------------------------
\* rebuild_name_index.
Index(f) == [n \in { f[k].name : k \in DOMAIN f } |-> CHOOSE k \in DOMAIN f : f[k].name = n]

KeepKeys(S) == [k \in S |-> byKey[k]]

Cutoff == IF now < Ttl THEN 0 ELSE now - Ttl

\* reclaim: the keys that stay when one more mapping is to be made.
Room ==
    IF Cardinality(DOMAIN byKey) < Cap THEN DOMAIN byKey
    ELSE DOMAIN byKey \ EvictForCapacity(DOMAIN byKey, [k \in DOMAIN byKey |-> byKey[k].last], Cutoff, FakeStride)

\* The i-th key advance returns, counted from 0.
Probe(i) == First + (((IF next \in KeyRange THEN next - First ELSE 0) + i) % Size)

\* Fault: one candidate too few.
FreeProbesShort(occupied) == { i \in 0 .. Cardinality(occupied) - 1 : Probe(i) \notin occupied }

\* take_key: the tries that meet a free key, among len + 1 of them.
FreeProbes(occupied) == { i \in 0 .. Cardinality(occupied) : Probe(i) \notin occupied }

FirstFree(occupied) == CHOOSE i \in FreeProbes(occupied) : \A j \in FreeProbes(occupied) : i <= j

\* Fault: a known name is given a new address on every query.
AgainMoves(n) ==
    LET k == Probe(FirstFree(DOMAIN byKey))
    IN  /\ n \in DOMAIN byName
        /\ FreeProbes(DOMAIN byKey) # {}
        /\ byKey' = [q \in (DOMAIN byKey \ {byName[n]}) \cup {k} |->
                       IF q = k THEN [name |-> n, last |-> now] ELSE byKey[q]]
        /\ byName' = [byName EXCEPT ![n] = k]
        /\ UNCHANGED <<now, next>>

\* allocate for a name that has its mapping.
Again(n) ==
    /\ n \in DOMAIN byName
    /\ byKey' = [byKey EXCEPT ![byName[n]].last = now]
    /\ UNCHANGED <<now, byName, next>>

\* allocate for a new name.  Its error, no free key, is never met: see
\* AllocationSucceeds.
Allocate(n) ==
    LET i   == FirstFree(Room)
        k   == Probe(i)
        idx == IF Room = DOMAIN byKey THEN byName ELSE Index(KeepKeys(Room))
    IN  /\ n \notin DOMAIN byName
        /\ FreeProbes(Room) # {}
        /\ byKey' = [q \in Room \cup {k} |-> IF q = k THEN [name |-> n, last |-> now] ELSE byKey[q]]
        /\ byName' = [m \in DOMAIN idx \cup {n} |-> IF m = n THEN k ELSE idx[m]]
        /\ next' = Probe(i + 1)
        /\ UNCHANGED now

\* lookup: a PTR query for an address of the pool.
Reverse(k) ==
    /\ k \in DOMAIN byKey
    /\ byKey' = [byKey EXCEPT ![k].last = now]
    /\ UNCHANGED <<now, byName, next>>

\* Fault: a mapping is dropped as soon as it has the age of its lifetime.
CleanupEager ==
    LET kept == { k \in DOMAIN byKey : byKey[k].last > Cutoff }
    IN  /\ kept # DOMAIN byKey
        /\ byKey' = KeepKeys(kept)
        /\ byName' = Index(byKey')
        /\ UNCHANGED <<now, next>>

\* cleanup_expired, on every maintenance tick.
Cleanup ==
    LET kept == { k \in DOMAIN byKey : byKey[k].last >= Cutoff }
    IN  /\ kept # DOMAIN byKey
        /\ byKey' = KeepKeys(kept)
        /\ byName' = Index(byKey')
        /\ UNCHANGED <<now, next>>

\* Fault: the key's present owner is not looked at.
RestoreOver(n, k) ==
    /\ k \in KeyRange
    /\ n \in DOMAIN byName => byName[n] = k
    /\ byName' = [m \in DOMAIN byName \cup {n} |-> IF m = n THEN k ELSE byName[m]]
    /\ byKey' = [q \in DOMAIN byKey \cup {k} |-> IF q = k THEN [name |-> n, last |-> now] ELSE byKey[q]]
    /\ UNCHANGED <<now, next>>

\* restore: a mapping of a snapshot, if it agrees with range and pool.
Restore(n, k) ==
    /\ k \in KeyRange
    /\ k \in DOMAIN byKey => byKey[k].name = n
    /\ n \in DOMAIN byName => byName[n] = k
    /\ byName' = [m \in DOMAIN byName \cup {n} |-> IF m = n THEN k ELSE byName[m]]
    /\ byKey' = [q \in DOMAIN byKey \cup {k} |-> IF q = k THEN [name |-> n, last |-> now] ELSE byKey[q]]
    /\ UNCHANGED <<now, next>>

Release(n) ==
    /\ n \in DOMAIN byName
    /\ byName' = [m \in DOMAIN byName \ {n} |-> byName[m]]
    /\ byKey' = KeepKeys(DOMAIN byKey \ {byName[n]})
    /\ UNCHANGED <<now, next>>

Clear ==
    /\ byKey # <<>>
    /\ byKey' = <<>>
    /\ byName' = <<>>
    /\ UNCHANGED <<now, next>>

\* Wall-clock time passes, or the clock is set back.
FakeClock ==
    /\ SetClock(FakeTime)
    /\ UNCHANGED <<byKey, byName, next>>

FakeNext ==
    \/ \E n \in Names : Again(n) \/ Allocate(n) \/ Release(n)
    \/ \E k \in KeyRange : Reverse(k)
    \/ \E s \in Snapshot : Restore(s[1], s[2])
    \/ Cleanup \/ Clear \/ FakeClock

FakeSpec == FakeInit /\ [][FakeNext]_fakeVars

-----------------------------------------------------------------------------
(* Every variable has its type; no mapping is at the network address or past
   the end of the range. *)
FakeTypeOK ==
    /\ now \in Nat
    /\ DOMAIN byKey \subseteq KeyRange
    /\ \A k \in DOMAIN byKey : byKey[k] \in [name : Names, last : Nat]
    /\ DOMAIN byName \subseteq Names
    /\ \A n \in DOMAIN byName : byName[n] \in KeyRange
    /\ next \in KeyRange

(* The two maps are each other's inverse: a reverse lookup of an address that
   was handed out gives the name it was handed out for ("a drifted index means
   a name mapped to an address nobody owns"). *)
Reversible ==
    /\ FakeTypeOK
    /\ \A n \in DOMAIN byName : byName[n] \in DOMAIN byKey /\ byKey[byName[n]].name = n
    /\ \A k \in DOMAIN byKey : byKey[k].name \in DOMAIN byName /\ byName[byKey[k].name] = k

(* take_key's pigeonhole argument: once there is room a free key is always
   found within len + 1 tries, so no query falls through to a real answer. *)
AllocationSucceeds == FreeProbes(Room) # {}

\* The keys whose mapping a step drops.
Dropped == { k \in DOMAIN byKey : k \notin DOMAIN byKey' \/ byKey'[k].name # byKey[k].name }

(* "Stale entries are always chosen first": apart from release and clear, a
   mapping used within its lifetime is dropped only from a pool at its cap in
   which every mapping is as fresh. *)
FreshGoesLast ==
    [][ ((\E n \in Names : Release(n)) \/ Clear)
        \/ \A k \in Dropped : byKey[k].last >= Cutoff =>
             Cardinality(DOMAIN byKey) >= Cap /\ \A j \in DOMAIN byKey : byKey[j].last >= Cutoff ]_fakeVars

\* The space as an address book: see AddressBook.
Book == INSTANCE AddressBook WITH book <- byName, Addresses <- KeyRange

(* The space keeps the contract of the address book: stable and reversible
   mappings through allocation, recycling, clean-up and restore. *)
KeepsContract == Book!Spec
=============================================================================
