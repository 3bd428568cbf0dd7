----------------------------- MODULE TokenBucket -----------------------------
(***************************************************************************)
(* The token bucket behind the client rate limiter (src/policy.rs:         *)
(* TokenBucket) and the refresh budget (src/risk.rs: RefreshBudget).       *)
(* Levels are counted in fractions of a token, so that the real-valued     *)
(* arithmetic of the code is exact; a request costs one whole token.       *)
(***************************************************************************)
EXTENDS Naturals

\* A bucket of the given capacity, full.
NewBucket(capacity, at) == [tokens |-> capacity, last |-> at]

\* Refill up to the capacity.  A clock that stands still or went back adds
\* nothing and does not move the mark.
Refill(b, capacity, rate, at) ==
    LET level == b.tokens + rate * (at - b.last)
    IN  IF at > b.last
        THEN [tokens |-> IF level < capacity THEN level ELSE capacity, last |-> at]
        ELSE b

Grants(b, token) == b.tokens >= token

Spend(b, token) == [b EXCEPT !.tokens = @ - token]
=============================================================================
