------------------------------- MODULE Bounded -------------------------------
(***************************************************************************)
(* The eviction policy of the resolver's fixed-capacity tables             *)
(* (src/bounded.rs: evict_for_capacity).  A table is a set of keys,        *)
(* numbered in BTreeMap order, with a time stamp for each.                 *)
(***************************************************************************)
EXTENDS Naturals, FiniteSets

\* Stage one: the entries whose stamp is older than the horizon.
ExpiredKeys(dom, stamp, staleBefore) == { k \in dom : stamp[k] < staleBefore }

\* Stage two: every stride-th entry in key order.
StridedKeys(dom, stride) ==
    { k \in dom : Cardinality({ j \in dom : j <= k }) % stride = 0 }

\* Stage three, for tables shorter than the stride: the oldest entry (ties go
\* by key order in the code, which no property depends on).
OldestKey(dom, stamp) == CHOOSE k \in dom : \A j \in dom : stamp[k] <= stamp[j]

\* The keys evict_for_capacity removes: the first stage that removes any.
EvictForCapacity(dom, stamp, staleBefore, stride) ==
    LET s       == IF stride < 2 THEN 2 ELSE stride
        expired == ExpiredKeys(dom, stamp, staleBefore)
        strided == StridedKeys(dom, s)
    IN  IF dom = {} THEN {}
        ELSE IF expired # {} THEN expired
        ELSE IF strided # {} THEN strided
        ELSE {OldestKey(dom, stamp)}
=============================================================================
