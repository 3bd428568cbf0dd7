-------------------------------- MODULE Risk --------------------------------
(* When an expired answer may still be served: the consequence classes, the  *)
(* risk of a decision and the ledger that charges it (risk.rs), the weakest  *)
(* link of an answer (provenance.rs) and the planner's decision (planner.rs).*)
(* Probabilities are counted in units of 1/One, so that risks are exact      *)
(* integers in units of 1/One millisecond.                                   *)
EXTENDS Naturals, Sequences, FiniteSetsExt

CONSTANTS
    One,              \* certainty; a freshness bound is in 0 .. One
    BaseMinFreshness, \* base_min_freshness
    ValueFloor,       \* value_floor_ms
    BudgetCapacity,   \* budget_capacity, times One
    BudgetPerTick,    \* budget_per_sec, times One, per tick of the clock
    MaxDependencies   \* max_dependencies of a provenance set

ASSUME RiskAssumption ==
    /\ One \in Nat \ {0} /\ BaseMinFreshness \in 0 .. One
    /\ ValueFloor \in Nat /\ BudgetCapacity \in Nat /\ BudgetPerTick \in Nat
    /\ MaxDependencies \in Nat \ {0}

-----------------------------------------------------------------------------
\* Consequence, in its order.
Low == 1
Medium == 2
High == 3
Critical == 4
Absolute == 5

KeyMaterial == {"DS", "DNSKEY", "RRSIG", "NSEC", "NSEC3"}
classify(type) ==
    CASE type \in KeyMaterial -> Absolute
      [] type = "NS" -> Critical
      [] type \in {"MX", "SRV", "TLSA", "CAA", "SVCB", "HTTPS"} -> High
      [] type \in {"CNAME", "DNAME"} -> Medium
      [] OTHER -> Low

Coefficient == <<1, 5, 25, 100>>
allows_stale(c) == c # Absolute
\* stale_horizon_secs, with a tick of 30 seconds.
StaleHorizon == <<2880, 120, 10, 1, 0>>

\* TrustLevel::penalty.
Penalty == [ChainAnchored |-> 1, CryptoVerified |-> 2, Unverified |-> 5, Indeterminate |-> 10]

(* min_freshness: 1 - (1 - base) / C, rounded up.                            *)
min_freshness(c) == IF c = Absolute THEN One ELSE One - (One - BaseMinFreshness) \div Coefficient[c]

(* risk_of and assess: the per-answer question, with no budget consulted.    *)
assess(value, c, trust, fresh, age) ==
    [allowed |-> allows_stale(c) /\ age <= StaleHorizon[c] /\ fresh >= min_freshness(c),
     risk |-> IF ~allows_stale(c) \/ age > StaleHorizon[c] THEN 0
              ELSE Max({value, ValueFloor}) * (One - fresh) * Coefficient[c] * Penalty[trust]]

-----------------------------------------------------------------------------
(* RiskLedger: a bucket of debt that drains with the clock.  `now` is the    *)
(* time the query started, which may lie before the last update.             *)
EmptyLedger == [debt |-> 0, last |-> 0]

drain(l, now) ==
    IF now <= l.last THEN l
    ELSE LET out == BudgetPerTick * (now - l.last)
         IN  [debt |-> IF out > l.debt THEN 0 ELSE l.debt - out, last |-> now]

\* Fault: the update time follows every caller's clock, also backwards.
FaultCharge(l, risk, now) ==
    LET d == [drain(l, now) EXCEPT !.last = now]
    IN  IF d.debt + risk > BudgetCapacity THEN [ok |-> FALSE, ledger |-> d]
        ELSE [ok |-> TRUE, ledger |-> [d EXCEPT !.debt = @ + risk]]

try_charge(l, risk, now) ==
    LET d == drain(l, now)
    IN  IF d.debt + risk > BudgetCapacity THEN [ok |-> FALSE, ledger |-> d]
        ELSE [ok |-> TRUE, ledger |-> [d EXCEPT !.debt = @ + risk]]

-----------------------------------------------------------------------------
(* Provenance: the freshness of what an answer was assembled from.  Past the *)
(* cap the strongest member goes and its freshness is kept as the residual.  *)
NoProvenance == [deps |-> <<>>, residual |-> One]

Strongest(deps) == Max({i \in DOMAIN deps : \A j \in DOMAIN deps : deps[j] <= deps[i]})
Weakest(deps) == Min({i \in DOMAIN deps : \A j \in DOMAIN deps : deps[j] >= deps[i]})
Without(deps, k) == SubSeq(deps, 1, k - 1) \o SubSeq(deps, k + 1, Len(deps))

\* Fault: the weakest member is dropped, and nothing remembered.
FaultPush(p, fresh) ==
    LET deps == Append(p.deps, fresh)
    IN  IF Len(deps) <= MaxDependencies THEN [p EXCEPT !.deps = deps]
        ELSE [p EXCEPT !.deps = Without(deps, Weakest(deps))]

push(p, fresh) ==
    LET deps == Append(p.deps, fresh)
        k == Strongest(deps)
    IN  IF Len(deps) <= MaxDependencies THEN [p EXCEPT !.deps = deps]
        ELSE [deps |-> Without(deps, k), residual |-> Min({p.residual, deps[k]})]

bound(p) == Min({p.deps[i] : i \in DOMAIN p.deps} \union {p.residual})

-----------------------------------------------------------------------------
(* ResolutionPlanner::plan for a stale outcome: evidence, the assessment and *)
(* the ledger, in this order; only an admitted answer is charged.            *)
plan_stale(ctx, evidence, ledger, now) ==
    LET a == assess(ctx.value, ctx.consequence, ctx.trust, ctx.fresh, ctx.age)
        c == try_charge(ledger, a.risk, now)
    IN  IF ~evidence \/ ~a.allowed
        THEN [serve |-> FALSE, risk |-> 0, ledger |-> ledger]
        ELSE [serve |-> c.ok, risk |-> IF c.ok THEN a.risk ELSE 0, ledger |-> c.ledger]
=============================================================================
