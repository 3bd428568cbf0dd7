------------------------------ MODULE Upstream ------------------------------
(* The statistics of the upstream servers and the order in which a query     *)
(* tries them (upstream.rs, rendezvous.rs).  Times are in tenths of a        *)
(* millisecond and rates in thousandths, rounded down at each step; the      *)
(* keyed hash is a constant draw per subject and server identifier.          *)
EXTENDS Bounded, WallClock, Sequences, Functions

CONSTANTS
    Setup,        \* setup_rtts of each endpoint's transport; endpoints are numbered
                  \* in the order of the table's keys
    Endpoints,    \* bound: the ones whose exchanges are recorded
    Id,           \* affinity_id of each endpoint; two may collide
    Draw,         \* Draw[subject][id]: -ln of the uniform draw
    Lists,        \* candidate lists a query may come with
    Rtts,         \* round-trip times an exchange may take
    Assumed,      \* ASSUMED_RTT_MS
    MinRto,       \* the floor of rto_ms
    Percent, Absolute,   \* affinity_band
    MaxPaths, Retention, Stride,
    MaxTime, MaxRecords  \* bounds: the clock, the outcomes recorded

ASSUME UpstreamAssumption ==
    /\ DOMAIN Setup \subseteq Nat /\ \A e \in DOMAIN Setup : Setup[e] \in Nat /\ Id[e] \in Nat
    /\ Endpoints \subseteq DOMAIN Setup /\ Lists \subseteq Seq(DOMAIN Setup) \ {<<>>}
    /\ \A s \in DOMAIN Draw, e \in DOMAIN Setup : Draw[s][Id[e]] \in Nat
    /\ Rtts \subseteq Nat /\ Assumed \in Nat /\ MinRto \in Nat /\ Percent \in Nat /\ Absolute \in Nat
    /\ MaxTime \in Nat

VARIABLES
    paths,        \* the model of each tracked endpoint
    records       \* outcomes recorded

upstreamVars == <<now, paths, records>>

SelectorInit == now = 0 /\ paths = <<>> /\ records = 0

Least(a, b) == IF a < b THEN a ELSE b
Most(a, b) == IF a > b THEN a ELSE b
Gap(a, b) == IF a < b THEN b - a ELSE a - b

-----------------------------------------------------------------------------
NewPath(ep, rtt) ==
    [successes |-> 0, servfails |-> 0, rtt |-> rtt, var |-> 0, loss |-> 0,
     seen |-> 0, conn |-> Setup[ep] * rtt]

\* path_mut: the model of ep, new ones with the given round-trip time.
Path(ep, rtt) == IF ep \in DOMAIN paths THEN paths[ep] ELSE NewPath(ep, rtt)

\* The endpoints that keep their model when one more is to be tracked.
Kept(ep) ==
    IF ep \in DOMAIN paths \/ Cardinality(DOMAIN paths) < MaxPaths THEN DOMAIN paths
    ELSE DOMAIN paths \ EvictForCapacity(DOMAIN paths, [e \in DOMAIN paths |-> paths[e].seen],
                                         IF now < Retention THEN 0 ELSE now - Retention, Stride)

Recorded(ep, p) ==
    /\ records < MaxRecords
    /\ paths' = [e \in Kept(ep) \union {ep} |-> IF e = ep THEN [p EXCEPT !.seen = now] ELSE paths[e]]
    /\ records' = records + 1
    /\ UNCHANGED now

record_success(ep, rtt) ==
    LET p == Path(ep, rtt)
        ewma == (4 * p.rtt + rtt) \div 5
    IN  Recorded(ep, [successes |-> p.successes + 1, servfails |-> p.servfails, rtt |-> ewma,
                      var |-> (4 * p.var + Gap(rtt, p.rtt)) \div 5, loss |-> (p.loss * 95) \div 100,
                      seen |-> p.seen, conn |-> Setup[ep] * ewma])

record_timeout(ep) ==
    Recorded(ep, [Path(ep, Assumed) EXCEPT !.loss = Least((4 * @ + 1000) \div 5, 1000)])

record_servfail(ep) ==
    Recorded(ep, [Path(ep, Assumed) EXCEPT !.servfails = @ + 1])

\* Wall-clock time passes, or the clock is set back.
PathClock ==
    /\ SetClock(MaxTime)
    /\ UNCHANGED <<paths, records>>

SelectorNext ==
    \/ \E ep \in Endpoints, rtt \in Rtts : record_success(ep, rtt)
    \/ \E ep \in Endpoints : record_timeout(ep)
    \/ \E ep \in Endpoints : record_servfail(ep)
    \/ PathClock

SelectorSpec == SelectorInit /\ [][SelectorNext]_upstreamVars

-----------------------------------------------------------------------------
rto(p) == Most(p.rtt + 4 * p.var, MinRto)
servfail_rate(p) ==
    IF p.successes + p.servfails = 0 THEN 0 ELSE (1000 * p.servfails) \div (p.successes + p.servfails)

expected_cost(p) ==
    LET lost == Least(p.loss, 950)
    IN  p.rtt + p.conn + (lost * rto(p)) \div (1000 - lost)
            + (Least(servfail_rate(p), 900) * rto(p) * 3) \div 2000

Prior(ep) == Assumed + Setup[ep] * Assumed
Cost(ep) == IF ep \in DOMAIN paths THEN expected_cost(paths[ep]) ELSE Prior(ep)
Costs == [ep \in DOMAIN Setup |-> Cost(ep)]

\* A list rearranged by a strict total order of its places.
Arranged(list, before) ==
    LET order == CHOOSE p \in [DOMAIN list -> DOMAIN list] :
                    \A i, j \in DOMAIN list : i < j => <<p[i], p[j]>> \in before
    IN  [i \in DOMAIN list |-> list[order[i]]]

\* Cheaper ones first, and those of equal cost as they stand.
Cheaper(cost, list) ==
    { p \in (DOMAIN list) \X (DOMAIN list) :
        \/ cost[list[p[1]]] < cost[list[p[2]]]
        \/ cost[list[p[1]]] = cost[list[p[2]]] /\ p[1] < p[2] }

\* A stable sort; `cost` is the table of costs the selector holds.
sort_by_cost(cost, list) == Arranged(list, Cheaper(cost, list))

\* CostBand::limit.
limit(cheapest) == cheapest + Most((cheapest * Percent) \div 100, Absolute)

\* Fault: every candidate enters the lottery.
FaultBand(cost, ranked) == Len(ranked)

\* How many of the ranked candidates are within the band.
InBand(cost, ranked) ==
    Cardinality({i \in DOMAIN ranked : cost[ranked[i]] <= limit(cost[ranked[1]])})

Collide(head) == \E i, j \in DOMAIN head : i < j /\ Id[head[i]] = Id[head[j]]

affinity_applies(cost, list) ==
    LET ranked == sort_by_cost(cost, list)
        n == InBand(cost, ranked)
    IN  Len(list) >= 2 /\ n >= 2 /\ ~Collide(SubSeq(ranked, 1, n))

\* The inverse of a candidate's weight, up to the factor all of them share:
\* its cost, at most a thousand times the least; no cost, no preference.
Weighed(cost, head, i) ==
    IF cost[head[1]] = 0 THEN 1 ELSE Least(cost[head[i]], 1000 * cost[head[1]])

\* Fault: the draw goes by the place in the list.
FaultScore(cost, subject, head, i) == Draw[subject][Id[i]] * Weighed(cost, head, i)

\* RendezvousKey::score.
score(cost, subject, head, i) == Draw[subject][Id[head[i]]] * Weighed(cost, head, i)

\* Lower scores first, equal ones by identifier.
Drawn(cost, subject, head) ==
    LET s(i) == score(cost, subject, head, i)
    IN  { p \in (DOMAIN head) \X (DOMAIN head) :
            s(p[1]) < s(p[2]) \/ (s(p[1]) = s(p[2]) /\ Id[head[p[1]]] < Id[head[p[2]]]) }

rank(cost, subject, head) == Arranged(head, Drawn(cost, subject, head))

rank_with_affinity(cost, list, subject) ==
    LET ranked == sort_by_cost(cost, list)
        n == InBand(cost, ranked)
        head == SubSeq(ranked, 1, n)
    IN  IF Len(ranked) < 2 \/ n < 2 \/ Collide(head) THEN ranked
        ELSE rank(cost, subject, head) \o SubSeq(ranked, n + 1, Len(ranked))

-----------------------------------------------------------------------------
Subjects == DOMAIN Draw
Lowest(cost, list) == CHOOSE c \in {cost[e] : e \in Range(list)} : \A e \in Range(list) : c <= cost[e]

PathModel ==
    [successes : Nat, servfails : Nat, rtt : Nat, var : Nat, loss : 0 .. 1000, seen : Nat, conn : Nat]

(* Every variable has its type. *)
SelectorTypeOK ==
    /\ now \in Nat /\ DOMAIN paths \subseteq DOMAIN Setup
    /\ \A e \in DOMAIN paths : paths[e] \in PathModel

(* The lottery chooses among equals only: every server has a cost, none is   *)
(* lost or tried twice, the first one tried costs no more than the band      *)
(* allows over the cheapest, a server beyond the band is never tried before  *)
(* a cheaper one, and where affinity_applies denies a lottery the order is   *)
(* by cost.                                                                  *)
LotteryAmongEquals ==
    LET cost == Costs
    IN  /\ cost \in [DOMAIN Setup -> Nat]
        /\ \A l \in Lists, s \in Subjects :
            LET out == rank_with_affinity(cost, l, s)
                most == limit(Lowest(cost, l))
            IN  /\ Len(out) = Len(l) /\ Range(out) = Range(l)
                /\ cost[out[1]] <= most
                /\ \A i, j \in DOMAIN out : i < j /\ cost[out[i]] > most => cost[out[i]] <= cost[out[j]]
                /\ ~affinity_applies(cost, l) => out = sort_by_cost(cost, l)

\* l without its i-th candidate, and back to front.
Without(l, i) == SubSeq(l, 1, i - 1) \o SubSeq(l, i + 1, Len(l))
Backwards(l) == [i \in DOMAIN l |-> l[Len(l) + 1 - i]]

Precedes(list, e, f) == \E i, j \in DOMAIN list : i < j /\ list[i] = e /\ list[j] = f

(* A server is chosen for a name by what it is (its cost and its draw), not  *)
(* by where it stands: when a server other than the cheapest is withdrawn    *)
(* the others keep their order, and when the delegation lists the servers    *)
(* back to front the first one tried is the same.                            *)
ChoiceIsStable ==
    LET cost == Costs
    IN  /\ cost \in [DOMAIN Setup -> Nat]
        /\ \A l \in Lists, s \in Subjects : ~Collide(l) =>
            LET out == rank_with_affinity(cost, l, s)
            IN  /\ \A i \in DOMAIN l : Len(l) > 1 /\ Lowest(cost, Without(l, i)) = Lowest(cost, l)
                        => LET rest == rank_with_affinity(cost, Without(l, i), s)
                           IN  \A e, f \in Range(Without(l, i)) :
                                   Precedes(rest, e, f) <=> Precedes(out, e, f)
                /\ affinity_applies(cost, l) => out[1] = rank_with_affinity(cost, Backwards(l), s)[1]

=============================================================================
