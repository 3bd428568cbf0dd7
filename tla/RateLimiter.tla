----------------------------- MODULE RateLimiter -----------------------------
(***************************************************************************)
(* The client rate limiter (src/policy.rs: RateLimiter): a bounded table   *)
(* of token buckets, one per client, shared by all worker threads under    *)
(* one mutex.  A client new to a full table makes the table evict.         *)
(***************************************************************************)
EXTENDS TokenBucket, Bounded, WallClock

CONSTANTS
    Clients,      \* bucket keys (hashes of client addresses), in key order
    Token,        \* what a request costs, in fractions of a token
    Burst,        \* client_capacity, in the same unit
    Rate,         \* client_refill_per_sec, in that unit per clock tick
    MaxBuckets,   \* max_client_buckets, after .max(1)
    BucketRetention, \* BUCKET_RETENTION_SECS, in ticks
    BucketStride, \* EVICT_STRIDE
    LimiterTime   \* bound on the clock

ASSUME LimiterAssumption ==
    /\ Clients \subseteq Nat /\ IsFiniteSet(Clients)
    /\ Token \in Nat \ {0} /\ Burst \in Nat /\ Burst >= Token /\ Rate \in Nat
    /\ MaxBuckets \in Nat \ {0} /\ BucketRetention \in Nat /\ BucketStride \in Nat
    /\ LimiterTime \in Nat

VARIABLES
    buckets,   \* the table: a bucket for each tracked client
    born,      \* when a tracked client got its bucket (history)
    passed     \* tokens a tracked client was granted since then (history)

limiterVars == <<now, buckets, born, passed>>

LimiterInit == now = 0 /\ buckets = <<>> /\ born = <<>> /\ passed = <<>>

\* The clients that keep their bucket when one more is to be tracked.
BucketsKept ==
    IF Cardinality(DOMAIN buckets) < MaxBuckets THEN DOMAIN buckets
    ELSE LET stamp   == [c \in DOMAIN buckets |-> buckets[c].last]
             horizon == IF now < BucketRetention THEN 0 ELSE now - BucketRetention
         IN  DOMAIN buckets \ EvictForCapacity(DOMAIN buckets, stamp, horizon, BucketStride)

\* Who is tracked after a request of c.
Tracked(c) == IF c \in DOMAIN buckets THEN DOMAIN buckets ELSE BucketsKept \cup {c}

\* The bucket of c once it is in the table and refilled.
Level(c) ==
    Refill(IF c \in DOMAIN buckets THEN buckets[c] ELSE NewBucket(Burst, now), Burst, Rate, now)

Keep(c, f, v) == [d \in Tracked(c) |-> IF d = c THEN v ELSE f[d]]

\* Fault: the request passes whatever the level, and is not paid for.
AllowUnpaid(c) ==
    /\ buckets' = Keep(c, buckets, Level(c))
    /\ born' = Keep(c, born, IF c \in DOMAIN buckets THEN born[c] ELSE now)
    /\ passed' = Keep(c, passed, (IF c \in DOMAIN buckets THEN passed[c] ELSE 0) + Token)
    /\ UNCHANGED now

\* allow: track the client, refill its bucket, and take one token if it has one.
Allow(c) ==
    LET ok  == Grants(Level(c), Token)
        old == c \in DOMAIN buckets
    IN  /\ buckets' = Keep(c, buckets, IF ok THEN Spend(Level(c), Token) ELSE Level(c))
        /\ born' = Keep(c, born, IF old THEN born[c] ELSE now)
        /\ passed' = Keep(c, passed, (IF old THEN passed[c] ELSE 0) + (IF ok THEN Token ELSE 0))
        /\ UNCHANGED now

\* Wall-clock time passes, or the clock is set back.
LimiterClock ==
    /\ SetClock(LimiterTime)
    /\ UNCHANGED <<buckets, born, passed>>

LimiterNext == LimiterClock \/ \E c \in Clients : Allow(c)

LimiterSpec == LimiterInit /\ [][LimiterNext]_limiterVars

-----------------------------------------------------------------------------
(* Every variable has its type; the history follows the table. *)
LimiterTypeOK ==
    /\ now \in Nat
    /\ DOMAIN buckets \subseteq Clients
    /\ DOMAIN born = DOMAIN buckets /\ DOMAIN passed = DOMAIN buckets
    /\ \A c \in DOMAIN buckets :
         /\ buckets[c] \in [tokens : 0 .. Burst, last : Nat]
         /\ born[c] \in Nat /\ passed[c] \in Nat

(* What the limiter promises: for as long as it is tracked, a client is let
   through at most for its burst and the steady rate since it was first seen,
   also when the wall clock is set back and forth in between. *)
RateRespected ==
    LimiterTypeOK /\ \A c \in DOMAIN buckets :
        passed[c] + buckets[c].tokens <= Burst + Rate * (buckets[c].last - born[c])

=============================================================================
