---------------------------- MODULE SemanticCache ----------------------------
(***************************************************************************)
(* The semantic multi-tier cache (src/cache/mod.rs) and its persistent     *)
(* tier (src/cache/persist.rs).                                            *)
(*                                                                         *)
(* Three capacity-bounded tiers, each a map with a score index, hold one   *)
(* entry per (name, type, ECS partition); NXDOMAIN lives in a table of its *)
(* own.  Every operation runs under the cache mutex.  A lookup visits      *)
(* several partitions and tiers and moves what it visits, so it is modelled*)
(* visit by visit; nothing else runs while one is under way.               *)
(*                                                                         *)
(* The admission score is a real-valued function of popularity, locality,  *)
(* cost and size (src/cache/score.rs); here any score may come out of it.  *)
(***************************************************************************)
EXTENDS Bounded, Integers, Sequences

CONSTANTS
    Names,        \* domain names, numbered in canonical order
    Asked,        \* the keys the workload looks up and inserts
    NxNames,      \* the names some authority says do not exist
    Types,        \* record types: "CNAME" and others
    Partitions,   \* ECS networks as bit sequences; <<>> is the global partition
    Data,         \* RRset contents
    Verdicts,     \* DNSSEC verdicts an insert can carry
    Negative,     \* the content of a NODATA entry
    Scores,       \* ranks an admission score can have
    MinAdmit, WarmAdmit, HotAdmit,  \* CacheConfig admission thresholds
    Capacity,     \* Capacity[t]: hot_capacity, warm_capacity, cold_capacity
    NxCapacity,   \* nx_capacity
    EvictStride,  \* EVICT_STRIDE
    Ttls,         \* TTLs authorities hand out, in seconds
    MaxTtlCap, NegativeTtlCap, StaleWindow,
    Second,       \* clock ticks in a second
    MaxTime,      \* bound on the clock
    Persist,      \* whether a persistent tier is configured
    NoEntry

Tiers == {"hot", "warm", "cold"}

ASSUME CacheAssumption ==
    /\ Names \subseteq Nat /\ IsFiniteSet(Names) /\ NxNames \subseteq Names
    /\ "CNAME" \in Types /\ IsFiniteSet(Types) /\ IsFiniteSet(Partitions)
    /\ Partitions \subseteq Seq({0, 1})
    /\ \A p \in Partitions : \A i \in 0 .. Len(p) : SubSeq(p, 1, i) \in Partitions
    /\ Negative \notin Data /\ Verdicts \subseteq BOOLEAN
    /\ Asked \subseteq Names \X Types \X Partitions
    /\ NoEntry \notin [key : Names \X Types \X Partitions, data : Data \cup {Negative},
                       expires : Nat, validated : BOOLEAN, score : Scores]
    /\ Scores \subseteq Nat /\ {MinAdmit, WarmAdmit, HotAdmit} \subseteq Nat
    /\ Capacity \in [Tiers -> Nat] /\ NxCapacity \in Nat /\ EvictStride \in Nat
    /\ Ttls \subseteq Nat /\ {MaxTtlCap, NegativeTtlCap, StaleWindow} \subseteq Nat
    /\ Second \in Nat \ {0} /\ MaxTime \in Nat
    /\ Persist \in BOOLEAN

Keys == Names \X Types \X Partitions

Entry == [key : Keys, data : Data \cup {Negative}, expires : Nat,
          validated : BOOLEAN, score : Scores]

\* TierMap: the entries and the index from score to key.
TierMap == [map : [Keys -> Entry \cup {NoEntry}], rank : SUBSET (Scores \X Keys)]

VARIABLES
    tiers,    \* tiers[t]: the TierMap of tier t
    nx,       \* the NXDOMAIN store: expiry by name
    now,      \* the clock
    walk,     \* the lookup under way
    answer,   \* what the last lookup returned
    disk,     \* the snapshot file: entries and NXDOMAINs, times in seconds
    loading   \* what a restart still has to restore

vars == <<tiers, nx, now, walk, answer, disk, loading>>

EmptyTier == [map |-> [k \in Keys |-> NoEntry], rank |-> {}]

NoWalk == [phase |-> "idle", key |-> <<>>, todo |-> <<>>]

NoAnswer == [kind |-> "none", key |-> <<>>, hit |-> <<>>]

Nothing == [entries |-> {}, nx |-> <<>>]

Init ==
    /\ tiers = [t \in Tiers |-> EmptyTier]
    /\ nx = <<>>
    /\ now = 1
    /\ walk = NoWalk
    /\ answer = NoAnswer
    /\ disk = Nothing
    /\ loading = {}

-----------------------------------------------------------------------------
(* TierMap *)

Present(tm) == { k \in Keys : tm.map[k] # NoEntry }

\* Fault: an entry leaves the map and stays in the index.
TmRemoveMapOnly(tm, k) == [tm EXCEPT !.map[k] = NoEntry]

TmRemove(tm, k) ==
    IF tm.map[k] = NoEntry THEN tm
    ELSE [map |-> [tm.map EXCEPT ![k] = NoEntry],
          rank |-> tm.rank \ {<<tm.map[k].score, k>>}]

\* Index entries that still lead to a live entry, and the lowest of them; ties
\* are broken by the key order, which no property depends on.
LiveRanks(tm) == { r \in tm.rank : tm.map[r[2]] # NoEntry }

LowestRank(tm) == CHOOSE r \in LiveRanks(tm) : \A q \in LiveRanks(tm) : r[1] <= q[1]

\* pop_lowest drains dead index entries on its way to a live one.
PopLowest(tm) ==
    IF LiveRanks(tm) = {} THEN [tm |-> [tm EXCEPT !.rank = {}], victim |-> NoEntry]
    ELSE LET low == LowestRank(tm)
         IN  [tm     |-> [map  |-> [tm.map EXCEPT ![low[2]] = NoEntry],
                          rank |-> { r \in tm.rank : r[1] >= low[1] } \ {low}],
              victim |-> tm.map[low[2]]]

\* Fault: the tier evicts once it is over its capacity, not when it is full.
TmInsertLate(tm, capacity, e) ==
    LET over   == capacity > 0 /\ Cardinality(Present(tm)) > capacity
        popped == IF over THEN PopLowest(tm) ELSE [tm |-> tm, victim |-> NoEntry]
        base   == TmRemove(popped.tm, e.key)
    IN  [tm     |-> [map  |-> [base.map EXCEPT ![e.key] = e],
                     rank |-> base.rank \cup {<<e.score, e.key>>}],
         victim |-> popped.victim]

\* insert: evict the lowest entry if the tier is full and the key is new, then
\* replace whatever is filed under the key, in the map and in the index.
TmInsert(tm, capacity, e) ==
    LET full   == /\ capacity > 0
                  /\ tm.map[e.key] = NoEntry
                  /\ Cardinality(Present(tm)) >= capacity
        popped == IF full THEN PopLowest(tm) ELSE [tm |-> tm, victim |-> NoEntry]
        base   == TmRemove(popped.tm, e.key)
    IN  [tm     |-> [map  |-> [base.map EXCEPT ![e.key] = e],
                     rank |-> base.rank \cup {<<e.score, e.key>>}],
         victim |-> popped.victim]

-----------------------------------------------------------------------------
(* Placement *)

Below == [t \in Tiers |-> IF t = "hot" THEN "warm" ELSE IF t = "warm" THEN "cold" ELSE "none"]

EarnedTier(score) ==
    IF score >= HotAdmit THEN "hot"
    ELSE IF score >= WarmAdmit THEN "warm"
    ELSE IF score >= MinAdmit THEN "cold" ELSE "none"

\* A tier of capacity 0 is disabled: one step down, or nowhere.
TierFor(score) ==
    LET t == EarnedTier(score)
    IN  IF t = "none" \/ Capacity[t] > 0 THEN t
        ELSE IF Below[t] # "none" /\ Capacity[Below[t]] > 0 THEN Below[t]
        ELSE "none"

\* One demotion step: what the lower tier evicts in turn is dropped.
Spill(ts, victim, from) ==
    LET next == Below[from]
    IN  IF next = "none" \/ Capacity[next] = 0 THEN ts
        ELSE [ts EXCEPT ![next] = TmInsert(@, Capacity[next], victim).tm]

Place(ts, e) ==
    LET t == TierFor(e.score)
        r == TmInsert(ts[t], Capacity[t], e)
        s == [ts EXCEPT ![t] = r.tm]
    IN  IF t = "none" THEN ts
        ELSE IF r.victim = NoEntry THEN s ELSE Spill(s, r.victim, t)

Park(ts, e) == [ts EXCEPT !["cold"] = TmInsert(@, Capacity["cold"], e).tm]

Take(ts, t, k) == [ts EXCEPT ![t] = TmRemove(@, k)]

\* The first tier that holds k, and its entry (take_entry_any, get_mut chains).
FirstTier(ts, k) ==
    IF ts["hot"].map[k] # NoEntry THEN "hot"
    ELSE IF ts["warm"].map[k] # NoEntry THEN "warm"
    ELSE IF ts["cold"].map[k] # NoEntry THEN "cold" ELSE "none"

Found(ts, k) == IF FirstTier(ts, k) = "none" THEN NoEntry ELSE ts[FirstTier(ts, k)].map[k]

\* Fault: a parked copy in the cold tier is overlooked.
TakeAnyAboveCold(ts, k) ==
    IF FirstTier(ts, k) \in {"none", "cold"} THEN ts ELSE Take(ts, FirstTier(ts, k), k)

TakeAny(ts, k) == IF FirstTier(ts, k) = "none" THEN ts ELSE Take(ts, FirstTier(ts, k), k)

-----------------------------------------------------------------------------
(* Freshness and ECS partitions *)

Fresh(e) == now < e.expires

StaleServable(e) == now >= e.expires /\ now < e.expires + StaleWindow * Second

Live(e) == Fresh(e) \/ StaleServable(e)

\* EcsKey::with_scope: the network truncated to its first bits.
WithScope(k, scope) == <<k[1], k[2], SubSeq(k[3], 1, scope)>>

WithType(k, type) == <<k[1], type, k[3]>>

TierOrder == <<"hot", "warm", "cold">>

\* Fault: the walk starts at the global partition.
VisitsBroadFirst(k) ==
    [i \in 1 .. 3 * (Len(k[3]) + 1) |->
        <<WithScope(k, (i - 1) \div 3), TierOrder[((i - 1) % 3) + 1]>>]

\* walk_partitions over the tiers: own partition, broader scopes, global.
Visits(k) ==
    [i \in 1 .. 3 * (Len(k[3]) + 1) |->
        <<WithScope(k, Len(k[3]) - ((i - 1) \div 3)), TierOrder[((i - 1) % 3) + 1]>>]

\* The visits that find an entry; the ones before the first are no-ops.
Hits(todo) == { i \in 1 .. Len(todo) : tiers[todo[i][2]].map[todo[i][1]] # NoEntry }

FirstHit(todo) == CHOOSE i \in Hits(todo) : \A j \in Hits(todo) : i <= j

Rest(todo) == SubSeq(todo, FirstHit(todo) + 1, Len(todo))

-----------------------------------------------------------------------------
(* lookup *)

Idle == walk.phase = "idle" /\ loading = {}

Lookup(k) ==
    /\ Idle
    /\ walk' = [phase |-> "exact", key |-> k, todo |-> Visits(k)]
    /\ answer' = NoAnswer
    /\ UNCHANGED <<tiers, nx, now, disk, loading>>

Return(kind, hit) ==
    /\ answer' = [kind |-> kind, key |-> walk.key, hit |-> hit]
    /\ walk' = NoWalk

Continue ==
    /\ walk' = [walk EXCEPT !.todo = Rest(@)]
    /\ UNCHANGED answer

\* lookup_exact on the next visit that finds an entry.
ExactVisit ==
    /\ walk.phase = "exact"
    /\ Hits(walk.todo) # {}
    /\ LET k == walk.todo[FirstHit(walk.todo)][1]
           t == walk.todo[FirstHit(walk.todo)][2]
           e == tiers[t].map[k]
       IN  \/ /\ Fresh(e)
              /\ \E sc \in Scores : tiers' = Place(Take(tiers, t, k), [e EXCEPT !.score = sc])
              /\ Return("fresh", k)
           \/ /\ StaleServable(e)
              /\ tiers' = Park(Take(tiers, t, k), e)
              /\ Return("stale", k)
           \/ /\ ~Live(e)
              /\ tiers' = Take(tiers, t, k)
              /\ Continue
    /\ UNCHANGED <<nx, now, disk, loading>>

\* No entry of the exact type: try a CNAME for the same name.
TryCname ==
    /\ walk.phase = "exact"
    /\ Hits(walk.todo) = {}
    /\ walk' = IF walk.key[2] \in {"CNAME", "ANY"}
               THEN [walk EXCEPT !.phase = "nx", !.todo = <<>>]
               ELSE [walk EXCEPT !.phase = "cname",
                                 !.todo = Visits(WithType(walk.key, "CNAME"))]
    /\ UNCHANGED <<tiers, nx, now, answer, disk, loading>>

\* lookup_cname on the next visit that finds an entry: a NODATA is put back by
\* its score, an expired CNAME is parked or dropped, a fresh one redirects.
CnameVisit ==
    /\ walk.phase = "cname"
    /\ Hits(walk.todo) # {}
    /\ LET k == walk.todo[FirstHit(walk.todo)][1]
           t == walk.todo[FirstHit(walk.todo)][2]
           e == tiers[t].map[k]
       IN  \/ /\ e.data = Negative
              /\ tiers' = Place(Take(tiers, t, k), e)
              /\ Continue
           \/ /\ e.data # Negative /\ ~Fresh(e)
              /\ tiers' = IF StaleServable(e) THEN Park(Take(tiers, t, k), e)
                          ELSE Take(tiers, t, k)
              /\ Continue
           \/ /\ e.data # Negative /\ Fresh(e)
              /\ \E sc \in Scores : tiers' = Place(Take(tiers, t, k), [e EXCEPT !.score = sc])
              /\ Return("cname", k)
    /\ UNCHANGED <<nx, now, disk, loading>>

NxFresh(n) == n \in DOMAIN nx /\ now < nx[n]

\* The name's NXDOMAIN, or a miss.
TryNx ==
    /\ \/ walk.phase = "nx"
       \/ walk.phase = "cname" /\ Hits(walk.todo) = {}
    /\ Return(IF NxFresh(walk.key[1]) THEN "nx" ELSE "miss", walk.key)
    /\ UNCHANGED <<tiers, nx, now, disk, loading>>

-----------------------------------------------------------------------------
(* insert, rescore, sweep *)

Least(a, b) == IF a < b THEN a ELSE b
Greatest(a, b) == IF a < b THEN b ELSE a

\* Every other operation runs between lookups and forgets the last answer.
Between == Idle /\ answer' = NoAnswer /\ UNCHANGED <<walk, loading>>

InsertPositive(k, d, ttl, validated, sc) ==
    LET old == Found(tiers, k)
        same == old # NoEntry /\ old.data = d
    IN  /\ Between
        /\ tiers' = Place(TakeAny(tiers, k),
               [key |-> k, data |-> d,
                expires |-> now + Least(ttl, MaxTtlCap) * Second,
                validated |-> validated \/ (same /\ old.validated),
                score |-> sc])
        /\ UNCHANGED <<nx, now, disk>>

\* A NODATA that replaces an entry leaves the entry's validated flag alone.
InsertNegative(k, ttl, sc) ==
    LET old == Found(tiers, k)
    IN  /\ Between
        /\ tiers' = Place(TakeAny(tiers, k),
               [key |-> k, data |-> Negative,
                expires |-> now + Least(ttl, NegativeTtlCap) * Second,
                validated |-> old # NoEntry /\ old.validated,
                score |-> sc])
        /\ UNCHANGED <<nx, now, disk>>

\* The NXDOMAIN store after making room for one more name.
NxRoom ==
    IF Cardinality(DOMAIN nx) < NxCapacity THEN nx
    ELSE LET kept == DOMAIN nx \ EvictForCapacity(DOMAIN nx, nx, now, EvictStride)
         IN  [n \in kept |-> nx[n]]

InsertNxdomain(n, ttl) ==
    LET expires == now + Least(ttl, NegativeTtlCap) * Second
    IN  /\ Between
        /\ nx' = IF n \in DOMAIN nx THEN [nx EXCEPT ![n] = Greatest(@, expires)]
                 ELSE [m \in DOMAIN NxRoom \cup {n} |-> IF m = n THEN expires ELSE NxRoom[m]]
        /\ UNCHANGED <<tiers, now, disk>>

Rescore(k, sc) ==
    /\ Between
    /\ Found(tiers, k) # NoEntry
    /\ tiers' = Place(TakeAny(tiers, k), [Found(tiers, k) EXCEPT !.score = sc])
    /\ UNCHANGED <<nx, now, disk>>

\* Tiers are swept at the end of the stale window, NXDOMAIN at expiry.
Sweep ==
    LET dead(t) == { k \in Present(tiers[t]) :
                       tiers[t].map[k].expires + StaleWindow * Second < now }
        alive == { n \in DOMAIN nx : nx[n] > now }
    IN  /\ Between
        /\ tiers' = [t \in Tiers |->
               [map  |-> [k \in Keys |-> IF k \in dead(t) THEN NoEntry ELSE tiers[t].map[k]],
                rank |-> tiers[t].rank \ { <<tiers[t].map[k].score, k>> : k \in dead(t) }]]
        /\ nx' = [n \in alive |-> nx[n]]
        /\ UNCHANGED <<now, disk>>

Tick ==
    /\ Between
    /\ now < MaxTime
    /\ now' = now + 1
    /\ UNCHANGED <<tiers, nx, disk>>

-----------------------------------------------------------------------------
(* The persistent tier *)

\* Fault: the expiry is rounded up.
ToUnixUp(t) == (t + Second - 1) \div Second

\* ts_to_unix and unix_to_ts: times are stored in whole seconds.
ToUnix(t) == t \div Second
FromUnix(u) == u * Second

ToDto(e) == [e EXCEPT !.expires = ToUnix(@)]
FromDto(d) == [d EXCEPT !.expires = FromUnix(@)]

\* save_to: the snapshot is renamed into place whole, or the old one stays.
SaveCache ==
    /\ Persist
    /\ Between
    /\ disk' = [entries |-> UNION { { ToDto(tiers[t].map[k]) : k \in Present(tiers[t]) } :
                                      t \in Tiers },
                nx |-> [n \in DOMAIN nx |-> ToUnix(nx[n])]]
    /\ UNCHANGED <<tiers, nx, now>>

Servable(expires) == now < expires + StaleWindow * Second

\* The process stops and Resolver::new loads the snapshot into an empty cache:
\* NXDOMAINs here, the entries one by one before the first query.
Restart ==
    LET kept == { n \in DOMAIN disk.nx : Servable(FromUnix(disk.nx[n])) }
    IN  /\ Persist
        /\ tiers' = [t \in Tiers |-> EmptyTier]
        /\ nx' = [n \in kept |-> FromUnix(disk.nx[n])]
        /\ walk' = NoWalk
        /\ answer' = NoAnswer
        /\ loading' = { FromDto(d) : d \in disk.entries }
        /\ UNCHANGED <<now, disk>>

\* restore_entry: dead entries are skipped, expired ones parked.
RestoreEntry ==
    \E e \in loading :
        /\ loading' = loading \ {e}
        /\ tiers' = IF ~Servable(e.expires) THEN tiers
                    ELSE IF e.expires <= now THEN Park(tiers, e) ELSE Place(tiers, e)
        /\ UNCHANGED <<nx, now, walk, answer, disk>>

-----------------------------------------------------------------------------
Next ==
    \/ \E k \in Asked : Lookup(k)
    \/ ExactVisit \/ TryCname \/ CnameVisit \/ TryNx
    \/ \E k \in Asked, ttl \in Ttls, sc \in Scores :
         \/ \E d \in Data, v \in Verdicts : InsertPositive(k, d, ttl, v, sc)
         \/ InsertNegative(k, ttl, sc)
    \/ \E n \in NxNames, ttl \in Ttls : InsertNxdomain(n, ttl)
    \/ \E k \in Asked, sc \in Scores : Rescore(k, sc)
    \/ Sweep \/ Tick \/ SaveCache \/ Restart \/ RestoreEntry

Spec == Init /\ [][Next]_vars

-----------------------------------------------------------------------------
\* The lookup under way: where it may still go, and never a CNAME of a CNAME.
WalkOK ==
    /\ walk.phase \in {"idle", "exact", "cname", "nx"}
    /\ \A i \in 1 .. Len(walk.todo) : walk.todo[i] \in Keys \X Tiers
    /\ walk.phase = "cname" => walk.key[2] \notin {"CNAME", "ANY"}

(* Every variable has its type, and a lookup of a CNAME or of ANY is never
   redirected. *)
TypeOK ==
    /\ tiers \in [Tiers -> TierMap]
    /\ DOMAIN nx \subseteq Names /\ \A n \in DOMAIN nx : nx[n] \in Nat
    /\ now \in Nat
    /\ WalkOK
    /\ disk.entries \subseteq Entry
    /\ loading \subseteq Entry

(* "Every mutation goes through this type, so map and rank cannot drift apart"
   (TierMap): the score index of a tier lists exactly its entries, each under
   its current score, and an entry is filed under its own key. *)
RankExact ==
    \A t \in Tiers :
        /\ tiers[t].rank = { <<tiers[t].map[k].score, k>> : k \in Present(tiers[t]) }
        /\ \A k \in Present(tiers[t]) : tiers[t].map[k].key = k

(* No tier outgrows its capacity, through placement, demotion, parking and
   restart.  Capacity 0 is left out: placement takes it for a disabled tier,
   parking for one without a bound. *)
CapacityBound ==
    \A t \in Tiers : Capacity[t] > 0 => Cardinality(Present(tiers[t])) <= Capacity[t]

(* A tier is in order: eviction finds the entry of lowest score, and finds it
   in time. *)
TiersSound == RankExact /\ CapacityBound

(* A key is cached in one tier only, so no older copy can shadow or outlive
   the answer last inserted for it; while a restart is loading, nothing it has
   yet to restore is there already. *)
OneTierPerKey ==
    /\ \A k \in Keys, t, u \in Tiers :
         tiers[t].map[k] # NoEntry /\ tiers[u].map[k] # NoEntry => t = u
    /\ \A e, f \in loading : e.key = f.key => e = f
    /\ \A e \in loading, t \in Tiers : tiers[t].map[e.key] = NoEntry

(* The NXDOMAIN store holds nx_capacity names (one when that is 0). *)
NxBounded == Cardinality(DOMAIN nx) <= Greatest(NxCapacity, 1)

(* max_ttl_cap and negative_ttl_cap bound the life an entry has left at every
   moment, across moves, merges and restarts. *)
LifetimeCapped ==
    /\ \A t \in Tiers : \A k \in Present(tiers[t]) :
         LET e == tiers[t].map[k]
         IN  e.expires <= now + Second * (IF e.data = Negative THEN NegativeTtlCap
                                                               ELSE MaxTtlCap)
    /\ \A n \in DOMAIN nx : nx[n] <= now + Second * NegativeTtlCap

Covering(k, type) == { WithScope(WithType(k, type), i) : i \in 0 .. Len(k[3]) }

LiveKeys == { k \in Keys : \E t \in Tiers : tiers[t].map[k] # NoEntry /\ Live(tiers[t].map[k]) }

RedirectKeys ==
    { k \in Keys : /\ k[2] = "CNAME"
                   /\ \E t \in Tiers : LET e == tiers[t].map[k]
                                       IN  e # NoEntry /\ e.data # Negative /\ Fresh(e) }

\* The members of S at a partition narrower than that of k.
Narrower(S, k) == { j \in S : Len(j[3]) > Len(k[3]) }

(* What lookup promises (its table of partitions): the answer comes from the
   narrowest network that contains the requester and has one, an exact answer
   beats a CNAME, a CNAME beats NXDOMAIN, and a miss means there was nothing; a
   question for ANY is never redirected. *)
MostSpecificAnswer ==
    LET exact == LiveKeys \cap Covering(answer.key, answer.key[2])
        alias == IF answer.key[2] = "ANY" THEN {} ELSE RedirectKeys \cap Covering(answer.key, "CNAME")
    IN  CASE answer.kind \in {"fresh", "stale"} ->
               /\ answer.hit \in Covering(answer.key, answer.key[2])
               /\ Narrower(exact, answer.hit) = {}
          [] answer.kind = "cname" ->
               /\ answer.hit \in Covering(answer.key, "CNAME")
               /\ exact = {} /\ Narrower(alias, answer.hit) = {}
          [] answer.kind \in {"nx", "miss"} ->
               /\ exact = {} /\ alias = {}
               /\ NxFresh(answer.key[1]) <=> answer.kind = "nx"
          [] answer.kind = "none" -> TRUE

=============================================================================
