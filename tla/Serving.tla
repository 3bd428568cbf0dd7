------------------------------ MODULE Serving ------------------------------
(* How a question becomes an answer: Resolver::resolve_key and               *)
(* resolve_inner of resolver.rs with the local answers, the walk along the   *)
(* cached aliases, the decision to serve an expired one, the forwarding with *)
(* its groups and its poison gate (forward.rs), and what is filed in the     *)
(* cache.  Each step is one critical section, so that other threads come in  *)
(* between.  Coalescing, the tiers, the refresh, the pool's recycling and    *)
(* the iterative walk have modules of their own; here equal questions differ *)
(* in their DO bit, the cache forgets nothing, and the walk is one server.   *)
EXTENDS Routing, Risk, Integers

CONSTANTS
    Threads,
    Worlds,         \* configurations, each with its questions, its servers and
                    \* its bounds: the clock, the questions, new roots
    Lifetime,       \* ticks a record of each type stays fresh
    StaleWindow,    \* ticks it is kept after that
    MaxCnameDepth,  \* max_cname_depth
    Assessments,    \* what the hazard model can say of an expired entry
    Value,          \* est_cost_ms of every name
    MaxSets         \* bound on the forwarder sets ever installed

VARIABLES
    world,    \* which configuration is in force
    clock,    \* the clock
    cache,    \* cached RRsets and NODATAs by [name, type, part]
    nx,       \* the NXDOMAIN store: expiry by name
    pool,     \* the (name, family) pairs the fake-IP pool has assigned
    sets,     \* the forwarder sets installed so far; the last one is current
    debts,    \* the risk ledger
    charges,  \* history: the risks charged, at the ledger's time, and their sum so far
    asks,     \* questions asked
    thr       \* thr[t]: what thread t is doing

vars == <<world, clock, cache, nx, pool, sets, debts, charges, asks, thr>>

W == Worlds[world]

-----------------------------------------------------------------------------
(* Questions are [name, type, part], where part is the client network of an  *)
(* ECS option as its bits; no bits are the global partition.  A record       *)
(* remembers the network it was declared valid for, which no code reads.     *)
Global == <<>>
\* The networks a client network lies in, itself and the global one included.
Enclosing(part) == {SubSeq(part, 1, n) : n \in 0 .. Len(part)}

NoOut == [kind |-> "none", by |-> "none", answers |-> <<>>, rcode |-> "NOERROR", stale |-> FALSE]

Resting == [pc |-> "idle", q |-> [name |-> <<>>, type |-> "A", part |-> Global], at |-> 0,
            name |-> <<>>, target |-> <<>>, depth |-> 0, answers |-> <<>>, rcode |-> "NOERROR",
            validated |-> TRUE, worst |-> Low, prov |-> NoProvenance, hops |-> <<>>, stale |-> {},
            todo |-> <<>>, phase |-> "primary", set |-> 1, kept |-> <<>>,
            failed |-> [primary |-> 0, fallback |-> 0], via |-> <<>>, out |-> NoOut]

NewSet(verify) == [verify |-> verify, pool |-> <<>>]

Init ==
    /\ world \in DOMAIN Worlds
    /\ clock = 0
    /\ cache = <<>>
    /\ nx = <<>>
    /\ pool = {}
    /\ sets = <<NewSet(FALSE)>>
    /\ debts = EmptyLedger
    /\ charges = <<>>
    /\ asks = 0
    /\ thr = [t \in Threads |-> Resting]

Become(t, r) == thr' = [thr EXCEPT ![t] = r]
Finish(t, r, out) == Become(t, [r EXCEPT !.pc = "done", !.out = out])

-----------------------------------------------------------------------------
(* local_answer: the hosts table, then the fake-IP pool.                     *)
Local(answers) == [NoOut EXCEPT !.kind = "answer", !.by = "local", !.answers = answers]
Rec(n, type, data, part) == [name |-> n, type |-> type, data |-> data, net |-> part]
Records(n, type, addrs) == [i \in DOMAIN addrs |-> Rec(n, type, addrs[i], Global)]

\* The address a PTR question is about.
Reversed(n) == IF parse_in_addr_arpa(n) # NoAddr THEN parse_in_addr_arpa(n) ELSE parse_ip6_arpa(n)

(* The possible local answers, NoOut for none: allocation may fail, and then *)
(* the name is resolved for real.                                            *)
local_answer(q) ==
    LET pins == pinned(W.hosts, q.name, q.type)
        owners == {o \in pool : W.synthetic[o] = Reversed(q.name)}
        slot == <<q.name, Family[q.type]>>
    IN  IF pins # NoPin THEN {Local(Records(q.name, q.type, pins[1]))}
        ELSE IF W.ranges = {} THEN {NoOut}
        ELSE IF q.type = "PTR"
        THEN {IF owners = {} THEN NoOut ELSE Local(<<Rec(q.name, "PTR", o[1], Global)>>) : o \in
                 IF owners = {} THEN {<<>>} ELSE owners}
        ELSE IF q.type \notin DOMAIN Family THEN {NoOut}
        ELSE IF Family[q.type] \notin W.ranges THEN {Local(<<>>)}
        ELSE IF forces_fallback(W.filter, q.name) THEN {NoOut}
        ELSE {Local(Records(q.name, q.type, <<W.synthetic[slot]>>)), NoOut}

(* resolve_key up to the first cache lookup.  The query's time is read here. *)
Ask(t, q) ==
    LET r == [Resting EXCEPT !.pc = "lookup", !.q = q, !.at = clock, !.name = q.name]
        allots == q.type \in DOMAIN Family /\ Family[q.type] \in W.ranges
    IN  /\ thr[t].pc \in {"idle", "done"} /\ asks < W.asks
        /\ asks' = asks + 1
        /\ IF is_blocked(W.blocked, q.name)
           THEN Finish(t, r, [NoOut EXCEPT !.kind = "refused"]) /\ UNCHANGED pool
           ELSE \E a \in local_answer(q) :
                   IF a = NoOut THEN Become(t, r) /\ UNCHANGED pool
                   ELSE /\ Finish(t, r, a)
                        /\ pool' = IF allots /\ pinned(W.hosts, q.name, q.type) = NoPin
                                   THEN pool \union {<<q.name, Family[q.type]>>} ELSE pool
        /\ UNCHANGED <<world, clock, cache, nx, sets, debts, charges>>

-----------------------------------------------------------------------------
(* resolve_from_cache.  An entry is looked for in the asker's partition, then *)
(* in every broader one around it and last in the global one; only a fresh   *)
(* alias redirects, so that the expired member of a chain can only be the    *)
(* last one.                                                                 *)
IsFresh(k, at) == k \in DOMAIN cache /\ at < cache[k].expires
IsLive(k, at) == k \in DOMAIN cache /\ at < cache[k].expires + StaleWindow
Visible(r, type) ==
    {[name |-> r.name, type |-> type, part |-> p] : p \in Enclosing(r.q.part)}
Hits(r) == {k \in Visible(r, r.q.type) : IsLive(k, r.at)}
Aliases(r) == {k \in Visible(r, "CNAME") : IsFresh(k, r.at) /\ cache[k].data # <<>>}
\* walk_partitions: the first one found is the narrowest.
Foremost(keys) == CHOOSE k \in keys : \A o \in keys : Len(o.part) <= Len(k.part)
NxHit(r) == r.name \in DOMAIN nx /\ r.at < nx[r.name]

\* answer_consequence: a negative answer counts as a delegation.
consequence(k) == IF cache[k].data = <<>> THEN Critical ELSE classify(k.type)

\* push_answer_dependency, and the entry's records if it is `last`.
Takes(r, k, fresh, answers) ==
    [r EXCEPT !.answers = @ \o answers, !.validated = @ /\ cache[k].validated,
              !.worst = Max({@, consequence(k)}), !.prov = push(@, fresh),
              !.hops = Append(@, [class |-> consequence(k), fresh |-> fresh])]
Contents(k) == [i \in DOMAIN cache[k].data |-> Rec(k.name, k.type, cache[k].data[i], cache[k].net)]
Ends(r, k, fresh) == [Takes(r, k, fresh, Contents(k)) EXCEPT !.rcode = cache[k].rcode]

FromCache(r) == [kind |-> "answer", by |-> "cache", answers |-> r.answers, rcode |-> r.rcode,
                 stale |-> r.stale # {}]

Lookup(t) ==
    LET r == thr[t]
        hits == Hits(r)
        walks == r.depth <= MaxCnameDepth
        k == Foremost(hits)
        none == hits = {} /\ (r.q.type = "CNAME" \/ Aliases(r) = {})
    IN  /\ r.pc = "lookup"
        /\ \/ /\ walks /\ hits # {} /\ IsFresh(k, r.at)
              /\ LET e == Ends(r, k, One) IN Finish(t, e, FromCache(e))
           \/ /\ walks /\ hits # {} /\ ~IsFresh(k, r.at)
              /\ \E a \in Assessments :
                    LET s == [key |-> k, age |-> r.at - cache[k].expires, evidence |-> a.evidence]
                    IN  Become(t, [Ends(r, k, a.fresh) EXCEPT !.pc = "decide", !.stale = {s}])
           \/ /\ walks /\ hits = {} /\ ~none
              /\ Become(t, [r EXCEPT !.pc = "alias", !.target = cache[Foremost(Aliases(r))].data[1]])
           \/ /\ walks /\ none /\ NxHit(r)
              /\ Finish(t, r, FromCache([r EXCEPT !.rcode = "NXDOMAIN"]))
           \/ /\ ~walks \/ (none /\ ~NxHit(r))
              /\ Become(t, [r EXCEPT !.pc = "route"])
        /\ UNCHANGED <<world, clock, cache, nx, pool, sets, debts, charges, asks>>

(* The second lookup of an alias, of the plain key: its record is the one    *)
(* served, while the walk goes on with the target the first lookup saw.      *)
Alias(t) ==
    LET r == thr[t]
        k == [name |-> r.name, type |-> "CNAME", part |-> Global]
        rec == IF cache[k].data = <<>> THEN <<>> ELSE <<Contents(k)[1]>>
    IN  /\ r.pc = "alias"
        /\ IF IsFresh(k, r.at)
           THEN Become(t, [Takes(r, k, One, rec)
                           EXCEPT !.pc = "lookup", !.name = r.target, !.depth = @ + 1])
           ELSE Become(t, [r EXCEPT !.pc = "route"])
        /\ UNCHANGED <<world, clock, cache, nx, pool, sets, debts, charges, asks>>

trust_level(validated) ==
    IF ~validated THEN "Unverified"
    ELSE IF W.anchored THEN "ChainAnchored" ELSE "CryptoVerified"

DecideContext(r) ==
    [consequence |-> r.worst, trust |-> trust_level(r.validated), fresh |-> bound(r.prov),
     age |-> Max({s.age : s \in r.stale}), value |-> Value]

(* The decision on an expired answer, under the ledger's lock: the weakest   *)
(* link, the strictest class and the greatest age of the whole chain.  A     *)
(* refusal goes to the network; `charges` keeps what was admitted.           *)
Decide(t) ==
    LET r == thr[t]
        p == plan_stale(DecideContext(r), \A s \in r.stale : s.evidence, debts, r.at)
        sum == IF charges = <<>> THEN 0 ELSE Last(charges).sum
    IN  /\ r.pc = "decide"
        /\ debts' = p.ledger
        /\ IF p.serve
           THEN /\ Finish(t, r, FromCache(r))
                /\ charges' = Append(charges, [at |-> p.ledger.last, risk |-> p.risk, sum |-> sum + p.risk])
           ELSE /\ Become(t, [r EXCEPT !.pc = "route", !.hops = <<>>, !.stale = {}])
                /\ UNCHANGED charges
        /\ UNCHANGED <<world, clock, cache, nx, pool, sets, asks>>

-----------------------------------------------------------------------------
(* Forwarding.  Group 0 is the default one, 1 the fallback, the others are   *)
(* those of the policy rules.                                                *)
Walker == [ip |-> "root", proto |-> "Walk", host |-> "", path |-> ""]
has_fallback == W.groups[1] # <<>>
Forced(n) == forces_fallback(W.forced, n) /\ has_fallback

forward_route(n) ==
    LET id == route(W.rules, n)
    IN  IF Forced(n) THEN W.groups[1]
        ELSE IF id \in DOMAIN W.groups /\ W.groups[id] # <<>> THEN W.groups[id]
        ELSE IF W.groups[0] # <<>> THEN W.groups[0]
        ELSE <<Walker>>

\* forward_once: the set in force now serves the whole exchange.
Begins(r, group, attempt) ==
    [r EXCEPT !.pc = "exchange", !.todo = group, !.phase = attempt, !.set = Len(sets), !.via = <<>>]

Route(t) ==
    /\ thr[t].pc = "route"
    /\ Become(t, Begins(thr[t], forward_route(thr[t].q.name), "primary"))
    /\ UNCHANGED <<world, clock, cache, nx, pool, sets, debts, charges, asks>>

(* TransportKey::of: the endpoint, the TLS name and the normalised path.     *)
\* Fault: the address alone identifies a transport.
FaultTransportKey(f) == <<f.ip, f.proto>>
TransportKey(f) == <<f.ip, f.proto, f.host, IF f.path = "/dns-query" THEN "" ELSE f.path>>

Encrypted == {"Tls", "DoH", "DoH3", "DoQ"}
\* A transport carries the identity and the verification it was built with.
Built(f, s) == [host |-> IF f.host = "" THEN f.ip ELSE f.host,
                path |-> IF f.path = "" THEN "/dns-query" ELSE f.path, verify |-> s.verify]
\* pooled_transport: built once per key.
Pooled(s, f) ==
    IF f.proto \notin Encrypted \/ TransportKey(f) \in DOMAIN s.pool THEN s
    ELSE [s EXCEPT !.pool = [k \in DOMAIN @ \union {TransportKey(f)} |->
                                IF k \in DOMAIN @ THEN @[k] ELSE Built(f, s)]]
Used(s, f) == IF f.proto \in Encrypted THEN Pooled(s, f).pool[TransportKey(f)] ELSE Built(f, s)

answer_addresses(reply) == {x.data : x \in {x \in Range(reply.answers) : x.type \in DOMAIN Family}}

\* forward_resolve after the primary answer: the poison gate.
\* Fault: an answer is gated only by its first address.
FaultPoisoned(reply) ==
    reply.answers # <<>> /\ looks_poisoned(W.bogus, {reply.answers[1].data} \intersect answer_addresses(reply))
Poisoned(reply) == looks_poisoned(W.bogus, answer_addresses(reply))

(* One server of the group.  A transport error, a mismatched response and a  *)
(* failure code all send the query to the next one; the walk is not gated.   *)
Exchange(t) ==
    LET r == thr[t]
        f == Head(r.todo)
        met == [r EXCEPT !.via = <<[f |-> f, used |-> Used(sets[r.set], f)]>>]
        lost == [met EXCEPT !.todo = Tail(@), !.failed[r.phase] = @ + 1]
    IN  /\ r.pc = "exchange"
        /\ sets' = [sets EXCEPT ![r.set] = Pooled(@, f)]
        /\ \/ IF lost.todo # <<>> THEN Become(t, lost)
              ELSE IF r.phase = "fallback" THEN Become(t, [lost EXCEPT !.pc = "store"])
              ELSE Finish(t, lost, [NoOut EXCEPT !.kind = "error"])
           \/ \E reply \in W.replies[f.ip][r.q.name, r.q.type] :
                LET got == [met EXCEPT !.kept = <<[reply |-> reply, f |-> f]>>]
                IN  IF r.phase = "primary" /\ f # Walker /\ ~Forced(r.q.name)
                       /\ has_fallback /\ Poisoned(reply)
                    THEN Become(t, Begins(got, W.groups[1], "fallback"))
                    ELSE Become(t, [got EXCEPT !.pc = "store"])
        /\ UNCHANGED <<world, clock, cache, nx, pool, debts, charges, asks>>

(* cache_resolution, then the answer.  Every RRset of the answer is filed in *)
(* the partition the declared scope allows.                                  *)
\* Fault: the mask of the truncated network is one bit short.
FaultPartition(part, scope) == SubSeq(part, 1, Min({scope, Len(part)}) - 1)
\* answer_partition: the asker's network, truncated to the declared scope and
\* never longer than the prefix it asked with; a scope of 0 is for everyone.
answer_partition(part, scope) == SubSeq(part, 1, Min({scope, Len(part)}))

\* The clients a server speaks of: those that share the declared bits with the
\* asker, and of the asker it knew only its network.
Declared(part, scope) == IF scope < Len(part) THEN SubSeq(part, 1, scope) ELSE part

Merged(old, new) == [k \in DOMAIN old \union DOMAIN new |-> IF k \in DOMAIN new THEN new[k] ELSE old[k]]
\* The data of the records with k's name and type, in the order of the answer.
SetOf(answers, k) ==
    LET at == {i \in DOMAIN answers : answers[i].name = k.name /\ answers[i].type = k.type}
        nth(j) == CHOOSE i \in at : Cardinality({h \in at : h <= i}) = j
    IN  [j \in 1 .. Cardinality(at) |-> answers[nth(j)].data]

cache_resolution(r, reply) ==
    LET part == answer_partition(r.q.part, reply.scope)
        net == Declared(r.q.part, reply.scope)
        negative == IF reply.rcode = "NXDOMAIN" THEN part # Global ELSE reply.answers = <<>>
        keys == {[name |-> x.name, type |-> x.type, part |-> part] : x \in Range(reply.answers)}
                \union IF negative THEN {[r.q EXCEPT !.part = part]} ELSE {}
        holds(k, data) == k \in DOMAIN cache /\ cache[k].validated /\ data \in {<<>>, cache[k].data}
    IN  [k \in keys |->
            LET data == SetOf(reply.answers, k)
            IN  [data |-> data, net |-> net, expires |-> r.at + Lifetime[k.type],
                 validated |-> (data # <<>> /\ reply.validated) \/ holds(k, data),
                 rcode |-> IF data = <<>> THEN reply.rcode ELSE "NOERROR"]]

response_to_resolution(r, reply) ==
    [kind |-> "answer", by |-> "net", rcode |-> reply.rcode, stale |-> FALSE,
     answers |-> [i \in DOMAIN reply.answers |->
         Rec(reply.answers[i].name, reply.answers[i].type, reply.answers[i].data,
             Declared(r.q.part, reply.scope))]]

Store(t) ==
    LET r == thr[t]
        reply == r.kept[1].reply
        shared == reply.rcode = "NXDOMAIN" /\ answer_partition(r.q.part, reply.scope) = Global
    IN  /\ r.pc = "store"
        /\ cache' = Merged(cache, cache_resolution(r, reply))
        /\ nx' = IF shared THEN Merged(nx, [n \in {r.q.name} |->
                    Max({r.at + Lifetime[r.q.type]} \union {nx[m] : m \in DOMAIN nx \intersect {n}})]) ELSE nx
        /\ Finish(t, r, response_to_resolution(r, reply))
        /\ UNCHANGED <<world, clock, pool, sets, debts, charges, asks>>

-----------------------------------------------------------------------------
(* set_forwarder_roots: a new set with an empty pool; exchanges under way    *)
(* finish with the one they hold.                                            *)
SetRoots(verify) ==
    /\ W.roots /\ Len(sets) < MaxSets
    /\ sets' = Append(sets, NewSet(verify))
    /\ UNCHANGED <<world, clock, cache, nx, pool, debts, charges, asks, thr>>

Tick ==
    /\ clock < W.time
    /\ clock' = clock + 1
    /\ UNCHANGED <<world, cache, nx, pool, sets, debts, charges, asks, thr>>

Step(t) ==
    \/ Lookup(t)
    \/ Alias(t)
    \/ Decide(t)
    \/ Route(t)
    \/ Exchange(t)
    \/ Store(t)

Next ==
    \/ \E t \in Threads : Step(t)
    \/ \E t \in Threads, q \in W.questions : Ask(t, q)
    \/ SetRoots(TRUE)
    \/ Tick

Spec == Init /\ [][Next]_vars

-----------------------------------------------------------------------------
(* The worlds: groups and answers are lists, the rules are in the order of   *)
(* NameserverPolicy::new, and every type that occurs has a lifetime.         *)
Reachable(c) ==
    (UNION {Range(c.groups[g]) : g \in DOMAIN c.groups})
        \union (IF c.groups[0] = <<>> THEN {Walker} ELSE {})

ASSUME ServingAssumption ==
    /\ StaleWindow \in Nat /\ Value \in Nat /\ Lifetime \in [DOMAIN Lifetime -> Nat]
    /\ \A a \in Assessments : a.fresh \in 0 .. One /\ a.evidence \in BOOLEAN
    /\ \A w \in DOMAIN Worlds :
        LET c == Worlds[w]
        IN  /\ {0, 1} \subseteq DOMAIN c.groups /\ Default \notin DOMAIN c.groups
            /\ \A g \in DOMAIN c.groups : c.groups[g] \in Seq(Range(c.groups[g]))
            /\ DOMAIN c.rules.rules \subseteq Nat
            /\ \A i, j \in DOMAIN c.rules.rules :
                  i <= j => specificity(c.rules.rules[j].pat) <= specificity(c.rules.rules[i].pat)
            /\ \A q \in c.questions :
                  /\ q = [name |-> q.name, type |-> q.type, part |-> q.part]
                  /\ q.type \in DOMAIN Lifetime /\ q.part \in Seq({0, 1})
                  /\ \A f \in Reachable(c) : \A reply \in c.replies[f.ip][q.name, q.type] :
                        /\ reply.answers \in Seq(Range(reply.answers)) /\ reply.scope \in Nat
                        /\ \A x \in Range(reply.answers) : x.type \in DOMAIN Lifetime

Done == {t \in Threads : thr[t].pc = "done"}

(* The risk ledger's promise: over any stretch of the ledger's time the      *)
(* admitted stale answers cost at most the capacity and what the budget      *)
(* grants meanwhile, although callers charge with the clock they started     *)
(* from.                                                                     *)
RiskWindow ==
    \A i, j \in DOMAIN charges : i <= j =>
        charges[j].sum - charges[i].sum + charges[i].risk
            <= BudgetCapacity + BudgetPerTick * (charges[j].at - charges[i].at)

(* An expired answer is served only if every member of its chain is fresh    *)
(* enough, young enough and known well enough for the strictest class among  *)
(* them, also when the chain is longer than the provenance set.              *)
WeakestLink ==
    \A t \in Done : thr[t].out.stale =>
        LET hops == thr[t].hops
            class == Max({hops[i].class : i \in DOMAIN hops})
        IN  /\ \A i \in DOMAIN hops : hops[i].fresh >= min_freshness(class)
            /\ \A s \in thr[t].stale : s.evidence /\ s.age <= StaleHorizon[class]

(* An address the filter calls bogus reaches a client only when it comes     *)
(* from the fallback servers, or all of them failed, or there are none.      *)
PoisonGate ==
    \A t \in Done : thr[t].out.by = "net" /\ thr[t].kept[1].f # Walker =>
        \/ \A i \in DOMAIN thr[t].out.answers :
              thr[t].out.answers[i].type \in DOMAIN Family =>
                  ~looks_poisoned(W.bogus, {thr[t].out.answers[i].data})
        \/ thr[t].kept[1].f \in Range(W.groups[1])
        \/ thr[t].failed.fallback = Len(W.groups[1])

(* The group that speaks for a name, by the reference: the rule with the     *)
(* most labels, an exact one first, whatever their order; a rule whose group *)
(* has no server leaves the name to the default group.                       *)
Speaks(n) ==
    LET hits == {e \in Range(W.rules.rules) : matches(e.pat, n)}
        best == {e \in hits : \A o \in hits : specificity(o.pat) <= specificity(e.pat)}
        default == IF W.groups[0] # <<>> THEN W.groups[0] ELSE <<Walker>>
        owned(e) == IF e.group \in DOMAIN W.groups /\ W.groups[e.group] # <<>>
                    THEN W.groups[e.group] ELSE default
    IN  IF Forced(n) THEN {W.groups[1]}
        ELSE IF hits = {} THEN {default}
        ELSE {owned(e) : e \in best}

(* A question is answered by the group that speaks for its name, or by the   *)
(* fallback group behind it once that one has answered; a server is passed   *)
(* over only if it failed, and an error means that the whole group did.      *)
RightGroup ==
    \A t \in Done : \E g \in Speaks(thr[t].q.name) :
        /\ thr[t].out.kind = "error" => thr[t].failed.primary = Len(g)
        /\ thr[t].out.by = "net" =>
              /\ thr[t].failed.primary < Len(g)
              /\ \E phase \in {"primary", "fallback"} :
                    LET h == IF phase = "primary" THEN g ELSE W.groups[1]
                        n == thr[t].failed[phase]
                    IN  n < Len(h) /\ thr[t].kept[1].f = h[n + 1]

(* A server is spoken to through a transport built for its own TLS name and  *)
(* path, with the verification of the roots in force when the exchange began.*)
IdentityKept ==
    \A t \in Threads : thr[t].via # <<>> =>
        thr[t].via[1].used = Built(thr[t].via[1].f, sets[thr[t].set])

(* An answer a server declared valid for one network is given to a client    *)
(* only if the client's own network lies in it: through answer_partition,    *)
(* the walk over the broader partitions and every member of an alias chain.  *)
ScopeRespected ==
    \A t \in Done : \A i \in DOMAIN thr[t].out.answers :
        thr[t].out.answers[i].net \in Enclosing(thr[t].q.part)

=============================================================================
