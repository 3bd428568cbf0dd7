---------------------------- MODULE ServingProofs ----------------------------
(***************************************************************************)
(* Machine-checked proofs about Serving, for any threads, configurations,  *)
(* questions, replies, lifetimes and risk parameters.                      *)
(***************************************************************************)
EXTENDS Serving, FiniteSetTheorems, NaturalsInduction, WellFoundedInduction, TLAPS

-----------------------------------------------------------------------------
(* The inductive invariant *)

Fields == {"pc", "q", "at", "name", "target", "depth", "answers", "rcode", "validated", "worst",
           "prov", "hops", "stale", "todo", "phase", "set", "kept", "failed", "via", "out"}

IsList(s) == s \in Seq(Range(s))

(* A question being answered is one of the world's. *)
Asked(c, r) ==
    /\ DOMAIN r = Fields
    /\ r.at \in Nat /\ r.set \in Nat \ {0}
    /\ r.pc # "idle" => r.q \in c.questions

(* What has been gathered for a client was declared valid for a network around it. *)
OwnNet(r) ==
    /\ IsList(r.answers)
    /\ \A i \in DOMAIN r.answers : r.answers[i].net \in Enclosing(r.q.part)
    /\ \A i \in DOMAIN r.out.answers : r.out.answers[i].net \in Enclosing(r.q.part)

CacheInv ==
    \A k \in DOMAIN cache :
        cache[k].net = k.part /\ IsList(cache[k].data) /\ cache[k].expires \in Nat

Level == 0 .. One
Hop == [class : 1 .. 5, fresh : Level]

(* The values whose least is the bound of a provenance set. *)
Evidence(p) == Range(p.deps) \union {p.residual}
IsProvenance(p) == p = [deps |-> p.deps, residual |-> p.residual] /\ p.deps \in Seq(Level) /\ p.residual \in Level

(* The members of the chain so far: each is accounted for in the provenance,
   and the strictest class is that of one of them. *)
Chain(r) ==
    /\ IsProvenance(r.prov)
    /\ r.hops \in Seq(Hop)
    /\ \A i \in DOMAIN r.hops : \E v \in Evidence(r.prov) : v <= r.hops[i].fresh
    /\ r.worst \in 1 .. 5
    /\ \A i \in DOMAIN r.hops : r.hops[i].class <= r.worst
    /\ IF r.hops = <<>> THEN r.worst = Low ELSE \E i \in DOMAIN r.hops : r.hops[i].class = r.worst

StaleIsFresh(r) ==
    r.out.stale =>
        LET class == Max({r.hops[i].class : i \in DOMAIN r.hops})
        IN  /\ \A i \in DOMAIN r.hops : r.hops[i].fresh >= min_freshness(class)
            /\ \A s \in r.stale : s.evidence /\ s.age <= StaleHorizon[class]

Linked(r) ==
    /\ r.pc \in {"lookup", "alias"} => Chain(r) /\ r.stale = {}
    /\ r.pc = "decide" => /\ Chain(r) /\ r.hops # <<>>
                          /\ \E s \in r.stale : r.stale = {s} /\ s.age \in Nat /\ s.evidence \in BOOLEAN
    /\ r.pc = "done" => StaleIsFresh(r)

(* The server exchanges of a question: how far the group has failed. *)
InForce(c, n) == forces_fallback(c.forced, n) /\ c.groups[1] # <<>>
Primary(c, n) ==
    LET id == route(c.rules, n)
    IN  IF InForce(c, n) THEN c.groups[1]
        ELSE IF id \in DOMAIN c.groups /\ c.groups[id] # <<>> THEN c.groups[id]
        ELSE IF c.groups[0] # <<>> THEN c.groups[0]
        ELSE <<Walker>>
GroupOf(c, r, phase) == IF phase = "primary" THEN Primary(c, r.q.name) ELSE c.groups[1]

Counts(r) == r.failed \in [{"primary", "fallback"} -> Nat] /\ r.phase \in {"primary", "fallback"}

(* The reply kept is that of the first server of the phase that answered. *)
KeptFrom(c, r, phase) ==
    /\ r.failed[phase] < Len(GroupOf(c, r, phase))
    /\ r.kept[1].f = GroupOf(c, r, phase)[r.failed[phase] + 1]
    /\ r.kept[1].reply \in c.replies[r.kept[1].f.ip][r.q.name, r.q.type]

BogusReply(c, reply) == looks_poisoned(c.bogus, answer_addresses(reply))

Settled(c, r) ==
    /\ r.failed.primary < Len(Primary(c, r.q.name))
    /\ r.phase = "primary" =>
          /\ KeptFrom(c, r, "primary") /\ r.failed.fallback = 0
          /\ r.kept[1].f # Walker /\ ~InForce(c, r.q.name) /\ c.groups[1] # <<>>
                => ~BogusReply(c, r.kept[1].reply)
    /\ r.phase = "fallback" =>
          \/ KeptFrom(c, r, "fallback")
          \/ KeptFrom(c, r, "primary") /\ r.failed.fallback = Len(c.groups[1])

Underway(c, r) ==
    LET h == GroupOf(c, r, r.phase)
        n == r.failed[r.phase]
    IN  /\ IsList(r.todo) /\ r.todo # <<>> /\ Len(r.todo) = Len(h) - n
        /\ \A j \in DOMAIN r.todo : r.todo[j] = h[n + j]
        /\ r.phase = "primary" => r.failed.fallback = 0
        /\ r.phase = "fallback" => KeptFrom(c, r, "primary")

Grouped(c, r) ==
    /\ Counts(r)
    /\ r.pc \in {"lookup", "alias", "decide", "route"} => r.failed.primary = 0 /\ r.failed.fallback = 0
    /\ r.pc = "exchange" => Underway(c, r)
    /\ r.pc = "store" => Settled(c, r)
    /\ r.pc = "done" /\ r.out.kind = "error" => r.failed.primary = Len(Primary(c, r.q.name))
    /\ r.pc = "done" /\ r.out.by = "net" =>
          /\ Settled(c, r)
          /\ DOMAIN r.out.answers = DOMAIN r.kept[1].reply.answers
          /\ \A i \in DOMAIN r.out.answers :
                /\ r.out.answers[i].type = r.kept[1].reply.answers[i].type
                /\ r.out.answers[i].data = r.kept[1].reply.answers[i].data

(* Every pooled transport was built for what its key says. *)
ForKey(k, verify) ==
    [host |-> IF k[3] = "" THEN k[1] ELSE k[3], path |-> IF k[4] = "" THEN "/dns-query" ELSE k[4],
     verify |-> verify]
SetsInv ==
    /\ IsList(sets) /\ sets # <<>>
    /\ \A i \in DOMAIN sets : /\ DOMAIN sets[i] = {"verify", "pool"}
                              /\ \A k \in DOMAIN sets[i].pool : sets[i].pool[k] = ForKey(k, sets[i].verify)
Identified(ss, r) ==
    /\ r.set \in DOMAIN ss
    /\ r.via # <<>> => r.via[1].used = Built(r.via[1].f, ss[r.set])

Charge == [at : Nat, risk : Nat, sum : Nat]
Granted(a, b) == BudgetPerTick * (b - a)

(* The debt covers what was charged and has not drained since. *)
LedgerInv ==
    /\ debts \in [debt : Nat, last : Nat] /\ debts.debt <= BudgetCapacity
    /\ charges \in Seq(Charge)
    /\ \A i \in DOMAIN charges :
          /\ charges[i].at <= debts.last
          /\ charges[Len(charges)].sum - charges[i].sum + charges[i].risk
                <= debts.debt + Granted(charges[i].at, debts.last)

Good(c, ss, r) == Asked(c, r) /\ OwnNet(r) /\ Linked(r) /\ Grouped(c, r) /\ Identified(ss, r)
IInv ==
    /\ world \in DOMAIN Worlds /\ clock \in Nat
    /\ CacheInv /\ SetsInv /\ LedgerInv /\ RiskWindow
    /\ DOMAIN thr = Threads /\ \A t \in Threads : Good(W, sets, thr[t])

-----------------------------------------------------------------------------
(* Lists and extreme elements *)

LEMMA MinIsLeast ==
    ASSUME NEW T \in SUBSET Nat, T # {}
    PROVE  Min(T) \in T /\ \A j \in T : Min(T) <= j
  <1> DEFINE R == {p \in Nat \X Nat : p[1] < p[2]}
  <1>1. IsWellFoundedOn(R, Nat)
    BY NatLessThanWellFounded, Zenon DEF OpToRel
  <1>2. \A j, m \in Nat : <<j, m>> \notin R => m <= j
    OBVIOUS
  <1> HIDE DEF R
  <1>3. PICK m \in T : \A j \in T : <<j, m>> \notin R
    BY <1>1, WFMin
  <1>4. \A j \in T : m <= j
    BY <1>2, <1>3
  <1> QED BY <1>4 DEF Min

(* Max of a set of integers that has a greatest element. *)
LEMMA MaxIsGreatest ==
    ASSUME NEW T \in SUBSET Int, NEW m \in T, \A j \in T : j <= m
    PROVE  Max(T) = m
  <1>1. Max(T) \in T /\ \A j \in T : Max(T) >= j
    BY DEF Max
  <1> HIDE DEF Max
  <1>2. Max(T) \in Int /\ m \in Int
    BY <1>1
  <1>3. Max(T) <= m /\ Max(T) >= m
    BY <1>1
  <1> QED BY <1>2, <1>3

LEMMA GreatestExists ==
    ASSUME NEW T \in SUBSET Nat, T # {}, NEW n \in Nat, \A j \in T : j <= n
    PROVE  Max(T) \in T /\ \A j \in T : j <= Max(T)
  <1> DEFINE U == {n - j : j \in T}
  <1>1. U \in SUBSET Nat /\ U # {}
    <2>1. \A j \in T : n - j \in Nat
      OBVIOUS
    <2>2. PICK j \in T : TRUE
      OBVIOUS
    <2>3. n - j \in U
      OBVIOUS
    <2> QED BY <2>1, <2>3
  <1>2. PICK m \in T : Min(U) = n - m
    BY <1>1, MinIsLeast
  <1>3. \A j \in T : n - m <= n - j
    BY <1>1, <1>2, MinIsLeast
  <1>4. \A j \in T : j <= m
    BY <1>3
  <1> QED BY <1>4, MaxIsGreatest

LEMMA SeqIsList ==
    ASSUME NEW A, NEW s \in Seq(A)
    PROVE  IsList(s)
  BY DEF IsList, Range

LEMMA Concatenated ==
    ASSUME NEW s, NEW u, IsList(s), IsList(u)
    PROVE  /\ IsList(s \o u)
           /\ \A i \in DOMAIN (s \o u) :
                 \/ i \in DOMAIN s /\ (s \o u)[i] = s[i]
                 \/ \E j \in DOMAIN u : (s \o u)[i] = u[j]
  <1> DEFINE A == Range(s) \union Range(u)
  <1>1. s \in Seq(A) /\ u \in Seq(A)
    BY DEF IsList
  <1>2. /\ s \o u \in Seq(A) /\ Len(s \o u) = Len(s) + Len(u)
        /\ \A i \in 1 .. Len(s) + Len(u) : (s \o u)[i] = IF i <= Len(s) THEN s[i] ELSE u[i - Len(s)]
    BY <1>1
  <1>3. DOMAIN s = 1 .. Len(s) /\ DOMAIN u = 1 .. Len(u) /\ DOMAIN (s \o u) = 1 .. Len(s) + Len(u)
        /\ Len(s) \in Nat /\ Len(u) \in Nat
    BY <1>1, <1>2
  <1>4. IsList(s \o u)
    BY <1>2, SeqIsList
  <1>5. ASSUME NEW i \in DOMAIN (s \o u)
        PROVE  \/ i \in DOMAIN s /\ (s \o u)[i] = s[i]
               \/ \E j \in DOMAIN u : (s \o u)[i] = u[j]
    <2>1. CASE i <= Len(s)
      BY <1>2, <1>3, <2>1
    <2>2. CASE i > Len(s)
      <3>1. i - Len(s) \in DOMAIN u /\ (s \o u)[i] = u[i - Len(s)]
        BY <1>2, <1>3, <2>2
      <3> QED BY <3>1
    <2> QED BY <1>3, <2>1, <2>2
  <1> QED BY <1>4, <1>5

LEMMA Listed ==
    ASSUME NEW n \in Nat, NEW s, DOMAIN s = 1 .. n, s = [i \in 1 .. n |-> s[i]]
    PROVE  IsList(s)
  BY DEF IsList, Range

LEMMA OnlyElement ==
    ASSUME NEW s, NEW e, s = <<e>>
    PROVE  s[1] = e
  OBVIOUS

LEMMA ListSize ==
    ASSUME NEW s, IsList(s)
    PROVE  /\ Len(s) \in Nat /\ DOMAIN s = 1 .. Len(s) /\ Len(s) = Len(s) - 0
           /\ \A j \in DOMAIN s : s[j] = s[0 + j]
  BY DEF IsList

(* The networks around a client network, of which a reply is declared valid for
   one, the one it is filed under. *)
LEMMA NetworksAround ==
    ASSUME NEW part \in Seq({0, 1})
    PROVE  /\ Global \in Enclosing(part) /\ Len(part) \in Nat
           /\ \A net \in Enclosing(part) : Len(net) \in 0 .. Len(part)
           /\ \A scope \in Nat : /\ Declared(part, scope) = answer_partition(part, scope)
                                 /\ Declared(part, scope) \in Enclosing(part)
  <1>1. Len(part) \in Nat
    OBVIOUS
  <1>2. \A n \in 0 .. Len(part) : Len(SubSeq(part, 1, n)) = n
    OBVIOUS
  <1>3. SubSeq(part, 1, 0) = <<>> /\ SubSeq(part, 1, Len(part)) = part
    OBVIOUS
  <1>4. ASSUME NEW scope \in Nat
        PROVE  /\ Declared(part, scope) = answer_partition(part, scope)
               /\ Declared(part, scope) \in Enclosing(part)
    <2> DEFINE least == Min({scope, Len(part)})
    <2>1. least \in {scope, Len(part)} /\ least <= scope /\ least <= Len(part)
      <3>1. {scope, Len(part)} \in SUBSET Nat /\ {scope, Len(part)} # {}
        BY <1>1
      <3> QED BY <3>1, MinIsLeast
    <2>2. answer_partition(part, scope) = SubSeq(part, 1, least)
      BY DEF answer_partition
    <2> HIDE DEF least
    <2>3. CASE scope < Len(part)
      <3>1. least = scope
        BY <1>1, <2>1, <2>3
      <3> QED BY <1>1, <2>2, <2>3, <3>1 DEF Declared, Enclosing
    <2>4. CASE ~(scope < Len(part))
      <3>1. least = Len(part)
        BY <1>1, <2>1, <2>4
      <3>2. Declared(part, scope) = SubSeq(part, 1, Len(part))
        BY <1>3, <2>4 DEF Declared
      <3> QED BY <1>1, <2>2, <3>1, <3>2 DEF Enclosing
    <2> QED BY <2>3, <2>4
  <1>5. Global \in Enclosing(part)
    BY <1>1, <1>3 DEF Global, Enclosing
  <1>6. \A net \in Enclosing(part) : Len(net) \in 0 .. Len(part)
    BY <1>1, <1>2 DEF Enclosing
  <1> QED BY <1>1, <1>4, <1>5, <1>6

-----------------------------------------------------------------------------
(* Provenance *)

(* Provenance::push: whatever was in the set, and what comes in, is still
   bounded from below by a member or by the residual. *)
LEMMA PushKeepsEvidence ==
    ASSUME NEW p, IsProvenance(p), NEW fresh \in Level
    PROVE  /\ IsProvenance(push(p, fresh))
           /\ \A v \in Evidence(p) \union {fresh} : \E u \in Evidence(push(p, fresh)) : u <= v
  <1> DEFINE deps == Append(p.deps, fresh)
             n == Len(deps)
             k == Strongest(deps)
             q == push(p, fresh)
  <1>0. One \in Nat /\ MaxDependencies \in Nat
    BY RiskAssumption
  <1>1. /\ p.deps \in Seq(Level) /\ p.residual \in Level
        /\ p = [deps |-> p.deps, residual |-> p.residual]
    BY DEF IsProvenance
  <1>2. deps \in Seq(Level) /\ n = Len(p.deps) + 1 /\ n \in Nat /\ DOMAIN deps = 1 .. n
    BY <1>1
  <1>3. deps[n] = fresh /\ \A i \in DOMAIN p.deps : i \in 1 .. n /\ deps[i] = p.deps[i]
    BY <1>1, <1>2
  <1>4. \A v \in Evidence(p) \union {fresh} : v = p.residual \/ \E i \in 1 .. n : v = deps[i]
    BY <1>1, <1>2, <1>3 DEF Evidence, Range
  <1> HIDE DEF deps, n
  <1>5. \A v \in Evidence(p) \union {fresh} : v \in Level
    <2>1. \A i \in 1 .. n : deps[i] \in Level
      BY <1>2
    <2> QED BY <1>1, <1>4, <2>1
  <1>6. CASE n <= MaxDependencies
    <2>1. q = [p EXCEPT !.deps = deps]
      BY <1>6, Zenon DEF push, deps, n
    <2>2. q = [deps |-> deps, residual |-> p.residual]
      BY <1>1, <2>1
    <2>3. IsProvenance(q)
      BY <1>1, <1>2, <2>2 DEF IsProvenance
    <2> HIDE DEF q
    <2>4. \A v \in Evidence(p) \union {fresh} : v \in Evidence(q)
      <3>1. q.deps = deps /\ q.residual = p.residual
        BY <2>2
      <3>2. \A i \in 1 .. n : deps[i] \in Range(q.deps)
        BY <1>2, <3>1 DEF Range
      <3>3. p.residual \in Evidence(q) /\ \A i \in 1 .. n : deps[i] \in Evidence(q)
        BY <3>1, <3>2 DEF Evidence
      <3> QED BY <1>4, <3>3
    <2> QED BY <1>0, <1>5, <2>3, <2>4 DEF q, Level
  <1>7. CASE ~(n <= MaxDependencies)
    <2>1. k \in 1 .. n /\ \A j \in 1 .. n : deps[j] <= deps[k]
      <3> DEFINE best == {i \in DOMAIN deps : \A j \in DOMAIN deps : deps[j] <= deps[i]}
                 vals == {deps[i] : i \in 1 .. n}
      <3>1. vals \in SUBSET Nat /\ \A j \in vals : j <= One
        BY <1>0, <1>2 DEF Level
      <3>2. n >= 1
        BY <1>1, <1>2
      <3>3. vals # {}
        <4>1. 1 \in 1 .. n
          BY <3>2, <1>2
        <4>2. deps[1] \in vals
          BY <4>1
        <4> QED BY <4>2
      <3>4. PICK i \in 1 .. n : \A j \in 1 .. n : deps[j] <= deps[i]
        BY <1>0, <3>1, <3>3, GreatestExists
      <3>5. best \in SUBSET Nat /\ best # {} /\ \A j \in best : j <= n
        <4>1. i \in best
          BY <1>2, <3>4
        <4> QED BY <1>2, <4>1
      <3>6. Max(best) \in best
        BY <1>2, <3>5, GreatestExists
      <3> QED BY <1>2, <3>6 DEF Strongest
    <2> DEFINE rest == Without(deps, k)
               res == Min({p.residual, deps[k]})
    <2>2. q = [deps |-> rest, residual |-> res]
      BY <1>7, Zenon DEF push, deps, n
    <2> HIDE DEF k, q
    <2>3. deps[k] \in Level
      BY <1>2, <2>1
    <2>4. res \in {p.residual, deps[k]} /\ res <= p.residual /\ res <= deps[k]
      <3>1. {p.residual, deps[k]} \in SUBSET Nat
        BY <1>0, <1>1, <2>3 DEF Level
      <3> QED BY <3>1, MinIsLeast
    <2>5. /\ rest \in Seq(Level) /\ Len(rest) = n - 1
          /\ \A i \in 1 .. n - 1 : rest[i] = IF i < k THEN deps[i] ELSE deps[i + 1]
      <3> DEFINE a == SubSeq(deps, 1, k - 1)
                 b == SubSeq(deps, k + 1, Len(deps))
      <3>1. Len(deps) = n
        BY <1>2 DEF n
      <3>2. a \in Seq(Level) /\ Len(a) = k - 1 /\ \A i \in 1 .. k - 1 : a[i] = deps[i]
        BY <1>2, <2>1, <3>1
      <3>3. b \in Seq(Level) /\ Len(b) = n - k /\ \A i \in 1 .. n - k : b[i] = deps[k + i]
        BY <1>2, <2>1, <3>1
      <3> HIDE DEF a, b
      <3>4. rest = a \o b
        BY DEF Without, a, b
      <3>5. k - 1 \in Nat /\ n - k \in Nat /\ k \in Nat
        BY <1>2, <2>1
      <3>6. rest \in Seq(Level) /\ Len(rest) = n - 1
        BY <3>2, <3>3, <3>4, <3>5, <1>2
      <3>7. ASSUME NEW i \in 1 .. n - 1 PROVE rest[i] = IF i < k THEN deps[i] ELSE deps[i + 1]
        <4>1. CASE i < k
          BY <3>2, <3>3, <3>4, <3>5, <4>1, <1>2
        <4>2. CASE ~(i < k)
          <5>1. rest[i] = b[i - (k - 1)] /\ i - (k - 1) \in 1 .. n - k
            BY <3>2, <3>3, <3>4, <3>5, <4>2, <1>2
          <5>2. b[i - (k - 1)] = deps[k + (i - (k - 1))]
            BY <3>3, <5>1
          <5>3. k + (i - (k - 1)) = i + 1
            BY <3>5
          <5> QED BY <4>2, <5>1, <5>2, <5>3
        <4> QED BY <4>1, <4>2
      <3> QED BY <3>6, <3>7
    <2> HIDE DEF rest, res
    <2>6. IsProvenance(q)
      <3>1. res \in Level
        BY <1>1, <2>3, <2>4
      <3> QED BY <2>2, <2>5, <3>1 DEF IsProvenance
    <2>7. ASSUME NEW v \in Evidence(p) \union {fresh} PROVE \E u \in Evidence(q) : u <= v
      <3>1. CASE v = p.residual
        BY <2>2, <2>4, <3>1 DEF Evidence
      <3>2. CASE v = deps[k]
        BY <2>2, <2>4, <3>2 DEF Evidence
      <3>3. CASE \E i \in 1 .. n : v = deps[i] /\ i # k
        <4>1. PICK i \in 1 .. n : v = deps[i] /\ i # k
          BY <3>3
        <4>2. CASE i < k
          <5>1. i \in 1 .. n - 1 /\ rest[i] = v
            BY <1>2, <2>1, <2>5, <4>1, <4>2
          <5>2. v \in Evidence(q)
            BY <2>2, <2>5, <5>1, <1>2 DEF Evidence, Range
          <5> QED BY <1>0, <1>5, <5>2 DEF Level
        <4>3. CASE i > k
          <5>1. i - 1 \in 1 .. n - 1 /\ rest[i - 1] = v
            BY <1>2, <2>1, <2>5, <4>1, <4>3
          <5>2. v \in Evidence(q)
            BY <2>2, <2>5, <5>1, <1>2 DEF Evidence, Range
          <5> QED BY <1>0, <1>5, <5>2 DEF Level
        <4> QED BY <2>1, <4>1, <4>2, <4>3
      <3> QED BY <1>4, <3>1, <3>2, <3>3
    <2> QED BY <2>6, <2>7 DEF q
  <1> QED BY <1>6, <1>7

(* Provenance::bound is below every value on record. *)
LEMMA BoundIsBelow ==
    ASSUME NEW p, IsProvenance(p)
    PROVE  bound(p) \in Level /\ \A v \in Evidence(p) : bound(p) <= v
  <1>1. One \in Nat
    BY RiskAssumption
  <1>2. Evidence(p) = {p.deps[i] : i \in DOMAIN p.deps} \union {p.residual}
    BY DEF Evidence, Range
  <1>3. Evidence(p) \subseteq Level /\ Evidence(p) # {}
    <2>1. p.residual \in Evidence(p) /\ p.residual \in Level /\ p.deps \in Seq(Level)
      BY <1>2 DEF IsProvenance
    <2>2. \A i \in DOMAIN p.deps : p.deps[i] \in Level
      BY <2>1
    <2> QED BY <1>2, <2>1, <2>2
  <1>4. bound(p) = Min(Evidence(p))
    BY <1>2 DEF bound
  <1>5. Min(Evidence(p)) \in Evidence(p) /\ \A v \in Evidence(p) : Min(Evidence(p)) <= v
    BY <1>1, <1>3, MinIsLeast DEF Level
  <1> QED BY <1>3, <1>4, <1>5

-----------------------------------------------------------------------------
(* What a step makes of a thread *)

(* The walk goes on: what the invariant speaks of stays, or the question goes
   to the network. *)
LEMMA MovesOn ==
    ASSUME NEW c, NEW ss, NEW r, Good(c, ss, r), r.pc \in {"lookup", "alias", "decide"},
           NEW x, DOMAIN x = Fields,
           x.q = r.q, x.at = r.at, x.set = r.set, x.answers = r.answers, x.out = r.out,
           x.failed = r.failed, x.phase = r.phase, x.via = r.via,
           \/ x.pc = "route"
           \/ /\ r.pc # "decide" /\ x.pc \in {"lookup", "alias"}
              /\ x.prov = r.prov /\ x.hops = r.hops /\ x.worst = r.worst /\ x.stale = r.stale
    PROVE  Good(c, ss, x)
  <1>1. Asked(c, x) /\ OwnNet(x) /\ Identified(ss, x)
    BY DEF Good, Asked, OwnNet, Identified
  <1>2. Grouped(c, x)
    BY DEF Good, Grouped, Counts
  <1>3. Linked(x)
    BY DEF Good, Linked, Chain
  <1> QED BY <1>1, <1>2, <1>3 DEF Good

(* The walk ends with an answer that is not from the network. *)
LEMMA EndsWith ==
    ASSUME NEW c, NEW ss, NEW r, Good(c, ss, r), r.pc \in {"lookup", "decide"}, NEW o,
           o.kind # "error", o.by # "net",
           \A i \in DOMAIN o.answers : o.answers[i].net \in Enclosing(r.q.part),
           StaleIsFresh([r EXCEPT !.pc = "done", !.out = o])
    PROVE  Good(c, ss, [r EXCEPT !.pc = "done", !.out = o])
  <1> DEFINE x == [r EXCEPT !.pc = "done", !.out = o]
  <1>1. DOMAIN r = Fields
    BY DEF Good, Asked
  <1>2. /\ DOMAIN x = Fields /\ x.pc = "done" /\ x.out = o
        /\ x.q = r.q /\ x.at = r.at /\ x.set = r.set /\ x.answers = r.answers
        /\ x.failed = r.failed /\ x.phase = r.phase /\ x.via = r.via
    BY <1>1 DEF Fields
  <1> HIDE DEF x
  <1>3. Asked(c, x) /\ OwnNet(x) /\ Identified(ss, x)
    BY <1>2 DEF Good, Asked, OwnNet, Identified
  <1>4. Grouped(c, x)
    BY <1>2 DEF Good, Grouped, Counts
  <1>5. Linked(x)
    BY <1>2 DEF Linked, x
  <1> QED BY <1>3, <1>4, <1>5 DEF Good, x

(* answer_consequence is one of the five classes. *)
LEMMA ClassOfKey == ASSUME NEW k PROVE consequence(k) \in 1 .. 5
  BY DEF consequence, classify, Low, Medium, High, Critical, Absolute

(* push_answer_dependency. *)
LEMMA TakesOne ==
    ASSUME NEW c, NEW ss, NEW r, Good(c, ss, r), r.pc \in {"lookup", "alias"},
           NEW k, NEW fresh \in Level, NEW answers, IsList(answers),
           \A i \in DOMAIN answers : answers[i].net \in Enclosing(r.q.part)
    PROVE  /\ Good(c, ss, Takes(r, k, fresh, answers))
           /\ Takes(r, k, fresh, answers).hops # <<>>
           /\ Takes(r, k, fresh, answers).pc = r.pc
           /\ Takes(r, k, fresh, answers).q = r.q
           /\ DOMAIN Takes(r, k, fresh, answers) = Fields
  <1> DEFINE x == Takes(r, k, fresh, answers)
             cl == consequence(k)
             hop == [class |-> cl, fresh |-> fresh]
  <1>1. DOMAIN r = Fields
    BY DEF Good, Asked
  <1>2. Chain(r) /\ r.stale = {}
    BY DEF Good, Linked
  <1>3. cl \in 1 .. 5
    BY ClassOfKey
  <1>4. /\ DOMAIN x = Fields /\ x.pc = r.pc /\ x.out = r.out /\ x.stale = r.stale
        /\ x.q = r.q /\ x.at = r.at /\ x.set = r.set /\ x.answers = r.answers \o answers
        /\ x.failed = r.failed /\ x.phase = r.phase /\ x.via = r.via
        /\ x.worst = Max({r.worst, cl}) /\ x.prov = push(r.prov, fresh) /\ x.hops = Append(r.hops, hop)
    BY <1>1 DEF Fields, Takes
  <1> HIDE DEF x, cl
  <1>5. Asked(c, x) /\ Identified(ss, x) /\ Grouped(c, x)
    BY <1>4 DEF Good, Asked, Identified, Grouped, Counts
  <1>6. OwnNet(x)
    <2>1. IsList(r.answers) /\ \A i \in DOMAIN r.answers : r.answers[i].net \in Enclosing(r.q.part)
      BY DEF Good, OwnNet
    <2>2. IsList(x.answers)
      BY <1>4, <2>1, Concatenated
    <2>3. ASSUME NEW i \in DOMAIN x.answers PROVE x.answers[i].net \in Enclosing(r.q.part)
      <3>1. \/ i \in DOMAIN r.answers /\ x.answers[i] = r.answers[i]
            \/ \E j \in DOMAIN answers : x.answers[i] = answers[j]
        BY <1>4, <2>1, Concatenated
      <3> QED BY <2>1, <3>1
    <2> QED BY <1>4, <2>2, <2>3 DEF Good, OwnNet
  <1>7. x.worst \in {r.worst, cl} /\ x.worst >= r.worst /\ x.worst >= cl
    <2>1. r.worst \in 1 .. 5
      BY <1>2 DEF Chain
    <2> DEFINE both == {r.worst, cl}
    <2>0. both \in SUBSET Int /\ r.worst \in both /\ cl \in both /\ x.worst = Max(both)
      BY <1>3, <1>4, <2>1
    <2>2. CASE r.worst >= cl
      <3>1. \A j \in both : j <= r.worst
        BY <1>3, <2>1, <2>2
      <3> HIDE DEF both
      <3>2. x.worst = r.worst
        BY <2>0, <3>1, MaxIsGreatest
      <3> QED BY <1>3, <2>1, <2>2, <3>2
    <2>3. CASE cl >= r.worst
      <3>1. \A j \in both : j <= cl
        BY <1>3, <2>1, <2>3
      <3> HIDE DEF both
      <3>2. x.worst = cl
        BY <2>0, <3>1, MaxIsGreatest
      <3> QED BY <1>3, <2>1, <2>3, <3>2
    <2> QED BY <1>3, <2>1, <2>2, <2>3
  <1>8. /\ x.hops \in Seq(Hop)
        /\ Len(x.hops) = Len(r.hops) + 1 /\ Len(r.hops) \in Nat
        /\ DOMAIN x.hops = 1 .. Len(r.hops) + 1 /\ DOMAIN r.hops = 1 .. Len(r.hops)
        /\ \A i \in 1 .. Len(r.hops) : x.hops[i] = r.hops[i]
        /\ x.hops[Len(r.hops) + 1] = hop
    <2>1. r.hops \in Seq(Hop) /\ hop \in Hop
      BY <1>2, <1>3 DEF Chain, Hop
    <2> HIDE DEF hop
    <2> QED BY <1>4, <2>1
  <1>9. Chain(x)
    <2>1. IsProvenance(x.prov) /\ \A v \in Evidence(r.prov) \union {fresh} : \E u \in Evidence(x.prov) : u <= v
      BY <1>2, <1>4, PushKeepsEvidence DEF Chain
    <2>2. ASSUME NEW i \in DOMAIN x.hops PROVE \E v \in Evidence(x.prov) : v <= x.hops[i].fresh
      <3>1. CASE i = Len(r.hops) + 1
        <4>1. x.hops[i].fresh = fresh
          BY <1>8, <3>1
        <4>2. \E u \in Evidence(x.prov) : u <= fresh
          BY <2>1
        <4> QED BY <4>1, <4>2
      <3>2. CASE i \in 1 .. Len(r.hops)
        <4>1. PICK v \in Evidence(r.prov) : v <= r.hops[i].fresh
          BY <1>2, <1>8, <3>2 DEF Chain
        <4>2. PICK u \in Evidence(x.prov) : u <= v
          BY <2>1
        <4>3. u \in Int /\ v \in Int /\ r.hops[i].fresh \in Int
          <5>1. Evidence(x.prov) \subseteq Level /\ Evidence(r.prov) \subseteq Level
            BY <1>2, <2>1 DEF Chain, IsProvenance, Evidence, Range
          <5>2. r.hops[i] \in Hop
            BY <1>2, <1>8, <3>2 DEF Chain
          <5>3. Level \subseteq Int
            BY DEF Level
          <5> QED BY <5>1, <5>2, <5>3 DEF Hop
        <4> QED BY <1>8, <3>2, <4>1, <4>2, <4>3
      <3> QED BY <1>8, <3>1, <3>2
    <2>3. r.worst \in 1 .. 5 /\ x.worst \in 1 .. 5
      BY <1>2, <1>3, <1>7 DEF Chain
    <2>4. ASSUME NEW i \in DOMAIN x.hops PROVE x.hops[i].class <= x.worst
      <3>1. CASE i = Len(r.hops) + 1
        BY <1>7, <1>8, <3>1
      <3>2. CASE i \in 1 .. Len(r.hops)
        <4>0. r.hops[i] \in Hop
          BY <1>2, <1>8, <3>2 DEF Chain
        <4>1. r.hops[i].class <= r.worst /\ r.hops[i].class \in 1 .. 5
          BY <1>2, <1>8, <3>2, <4>0 DEF Chain, Hop
        <4>2. x.hops[i].class = r.hops[i].class
          BY <1>8, <3>2
        <4> QED BY <1>7, <2>3, <4>1, <4>2
      <3> QED BY <1>8, <3>1, <3>2
    <2>5. \E i \in DOMAIN x.hops : x.hops[i].class = x.worst
      <3>1. CASE x.worst = cl
        BY <1>8, <3>1
      <3>2. CASE x.worst # cl /\ r.hops = <<>>
        <4>1. r.worst = Low /\ x.worst = r.worst
          BY <1>2, <1>7, <3>2 DEF Chain
        <4> QED BY <1>3, <1>7, <3>2, <4>1 DEF Low
      <3>3. CASE x.worst # cl /\ r.hops # <<>>
        <4>1. PICK i \in DOMAIN r.hops : r.hops[i].class = r.worst
          BY <1>2, <3>3 DEF Chain
        <4> QED BY <1>7, <1>8, <3>3, <4>1
      <3> QED BY <3>1, <3>2, <3>3
    <2>6. x.hops # <<>>
      BY <1>8
    <2> QED BY <1>8, <2>1, <2>2, <2>3, <2>4, <2>5, <2>6 DEF Chain
  <1>10. Linked(x)
    BY <1>2, <1>4, <1>9 DEF Linked
  <1>11. x.hops # <<>>
    BY <1>8
  <1> QED BY <1>4, <1>5, <1>6, <1>10, <1>11 DEF Good, x

-----------------------------------------------------------------------------
(* The steps: a new question *)

(* The threads after a step of one of them. *)
LEMMA ThreadMoves ==
    ASSUME IInv, NEW t \in Threads, NEW x, Become(t, x), world' = world, sets' = sets,
           Good(W, sets, x)
    PROVE  /\ DOMAIN thr' = Threads
           /\ \A u \in Threads : Good(W', sets', thr'[u])
  <1>1. W' = W
    BY DEF W
  <1> QED BY <1>1 DEF IInv, Become

(* A step that moves one thread and the history of asks and pool. *)
LEMMA OnlyThreads ==
    ASSUME IInv, NEW t \in Threads, NEW x, Become(t, x), Good(W, sets, x),
           UNCHANGED <<world, clock, cache, sets, debts, charges>>
    PROVE  IInv'
  <1>1. DOMAIN thr' = Threads /\ \A u \in Threads : Good(W', sets', thr'[u])
    BY ThreadMoves
  <1>2. (CacheInv /\ SetsInv /\ LedgerInv /\ RiskWindow)'
    BY DEF IInv, CacheInv, SetsInv, LedgerInv, RiskWindow
  <1>3. (world \in DOMAIN Worlds /\ clock \in Nat)'
    BY DEF IInv
  <1> QED BY <1>1, <1>2, <1>3 DEF IInv

(* local_answer gives global records, or none. *)
LEMMA LocalIsGlobal ==
    ASSUME NEW q, NEW a \in local_answer(q), a # NoOut
    PROVE  /\ a.kind # "error" /\ a.by # "net" /\ a.stale = FALSE
           /\ \A i \in DOMAIN a.answers : a.answers[i].net = Global
  <1>1. ASSUME NEW answers, a = Local(answers), \A i \in DOMAIN answers : answers[i].net = Global
        PROVE  /\ a.kind # "error" /\ a.by # "net" /\ a.stale = FALSE
               /\ \A i \in DOMAIN a.answers : a.answers[i].net = Global
    BY <1>1 DEF Local, NoOut
  <1>2. \A n, type, addrs : \A i \in DOMAIN Records(n, type, addrs) : Records(n, type, addrs)[i].net = Global
    BY DEF Records, Rec
  <1>3. \A n, d : \A i \in DOMAIN <<Rec(n, "PTR", d, Global)>> : <<Rec(n, "PTR", d, Global)>>[i].net = Global
    BY DEF Rec
  <1>4. \A i \in DOMAIN <<>> : <<>>[i].net = Global
    OBVIOUS
  <1>5. \/ \E n, type, addrs : a = Local(Records(n, type, addrs))
        \/ \E n, d : a = Local(<<Rec(n, "PTR", d, Global)>>)
        \/ a = Local(<<>>)
    <2> DEFINE pins == pinned(W.hosts, q.name, q.type)
               owners == {o \in pool : W.synthetic[o] = Reversed(q.name)}
               slot == <<q.name, Family[q.type]>>
               P == {IF owners = {} THEN NoOut ELSE Local(<<Rec(q.name, "PTR", o[1], Global)>>) : o \in
                        IF owners = {} THEN {<<>>} ELSE owners}
    <2>1. \/ a \in {Local(Records(q.name, q.type, pins[1]))}
          \/ a \in {NoOut} \/ a \in P \/ a \in {Local(<<>>)}
          \/ a \in {Local(Records(q.name, q.type, <<W.synthetic[slot]>>)), NoOut}
      BY Zenon DEF local_answer
    <2>2. ASSUME a \in P PROVE \E n, d : a = Local(<<Rec(n, "PTR", d, Global)>>)
      <3>1. CASE owners = {}
        BY <2>2, <3>1
      <3>2. CASE owners # {}
        BY <2>2, <3>2
      <3> QED BY <3>1, <3>2
    <2> HIDE DEF pins, owners, slot, P
    <2> QED BY <2>1, <2>2
  <1>6. CASE \E n, type, addrs : a = Local(Records(n, type, addrs))
    <2>1. PICK n, type, addrs : a = Local(Records(n, type, addrs))
      BY <1>6
    <2>2. \A i \in DOMAIN Records(n, type, addrs) : Records(n, type, addrs)[i].net = Global
      BY <1>2
    <2> QED BY <1>1, <2>1, <2>2
  <1>7. CASE \E n, d : a = Local(<<Rec(n, "PTR", d, Global)>>)
    <2>1. PICK n, d : a = Local(<<Rec(n, "PTR", d, Global)>>)
      BY <1>7
    <2>2. \A i \in DOMAIN <<Rec(n, "PTR", d, Global)>> : <<Rec(n, "PTR", d, Global)>>[i].net = Global
      BY <1>3
    <2> QED BY <1>1, <2>1, <2>2
  <1>8. CASE a = Local(<<>>)
    BY <1>1, <1>4, <1>8
  <1> QED BY <1>5, <1>6, <1>7, <1>8

LEMMA AskKeeps ==
    ASSUME IInv, NEW t \in Threads, NEW q \in W.questions, Ask(t, q)
    PROVE  IInv'
  <1> DEFINE r == [Resting EXCEPT !.pc = "lookup", !.q = q, !.at = clock, !.name = q.name]
  <1>1. /\ DOMAIN r = Fields /\ r.pc = "lookup" /\ r.q = q /\ r.at = clock /\ r.set = 1
        /\ r.answers = <<>> /\ r.out = NoOut /\ r.prov = NoProvenance /\ r.hops = <<>>
        /\ r.stale = {} /\ r.worst = Low /\ r.phase = "primary" /\ r.via = <<>>
        /\ r.failed = [primary |-> 0, fallback |-> 0]
    BY DEF Resting, Fields
  <1> HIDE DEF r
  <1>2. Good(W, sets, r)
    <2>1. Asked(W, r)
      BY <1>1 DEF Asked, IInv
    <2>2. OwnNet(r)
      BY <1>1 DEF OwnNet, IsList, NoOut
    <2>3. Linked(r)
      <3>1. <<>> \in Seq(Level) /\ <<>> \in Seq(Hop) /\ One \in Level
        BY RiskAssumption DEF Level
      <3> QED BY <1>1, <3>1 DEF Linked, Chain, IsProvenance, NoProvenance, Low
    <2>4. Grouped(W, r)
      BY <1>1 DEF Grouped, Counts
    <2>5. Identified(sets, r)
      BY <1>1 DEF Identified, IInv, SetsInv, IsList
    <2> QED BY <2>1, <2>2, <2>3, <2>4, <2>5 DEF Good
  <1>3. UNCHANGED <<world, clock, cache, sets, debts, charges>>
    BY DEF Ask
  <1>4. ASSUME NEW o, o.kind # "error", o.by # "net", o.stale = FALSE,
               \A i \in DOMAIN o.answers : o.answers[i].net = Global, Finish(t, r, o)
        PROVE  IInv'
    <2>1. [r EXCEPT !.pc = "done", !.out = o].out = o
      BY <1>1 DEF Fields
    <2>2. Good(W, sets, [r EXCEPT !.pc = "done", !.out = o])
      <3>1. q.part \in Seq({0, 1})
        BY ServingAssumption DEF IInv, W
      <3>2. \A i \in DOMAIN o.answers : o.answers[i].net \in Enclosing(r.q.part)
        BY <1>1, <1>4, <3>1, NetworksAround
      <3> QED BY <1>1, <1>2, <1>4, <2>1, <3>2, EndsWith DEF StaleIsFresh
    <2> QED BY <1>3, <1>4, <2>2, OnlyThreads DEF Finish
  <1>5. CASE Finish(t, r, [NoOut EXCEPT !.kind = "refused"])
    <2>1. LET o == [NoOut EXCEPT !.kind = "refused"]
          IN  o.kind # "error" /\ o.by # "net" /\ o.stale = FALSE /\ \A i \in DOMAIN o.answers : o.answers[i].net = Global
      BY DEF NoOut
    <2> QED BY <1>4, <1>5, <2>1
  <1>6. CASE Become(t, r)
    BY <1>2, <1>3, <1>6, OnlyThreads
  <1>7. CASE \E a \in local_answer(q) : a # NoOut /\ Finish(t, r, a)
    BY <1>4, <1>7, LocalIsGlobal
  <1> QED BY <1>5, <1>6, <1>7, Zenon DEF Ask, r

-----------------------------------------------------------------------------
(* The steps: the cached chain *)

(* Foremost picks one of the keys: a hit or an alias is in the cache, in a
   partition around the asker. *)
LEMMA ForemostIsOne ==
    ASSUME NEW r, r.q.part \in Seq({0, 1}), NEW type, NEW keys \in SUBSET Visible(r, type), keys # {}
    PROVE  Foremost(keys) \in keys /\ Foremost(keys).part \in Enclosing(r.q.part)
  <1> DEFINE lens == {Len(k.part) : k \in keys}
  <1>1. \A k \in keys : k.part \in Enclosing(r.q.part)
    BY DEF Visible
  <1>2. Len(r.q.part) \in Nat /\ \A k \in keys : Len(k.part) \in 0 .. Len(r.q.part)
    BY <1>1, NetworksAround
  <1>3. \E k \in keys : \A o \in keys : Len(o.part) <= Len(k.part)
    <2>0. PICK k \in keys : TRUE
      OBVIOUS
    <2>1. lens \in SUBSET Nat /\ Len(k.part) \in lens /\ \A j \in lens : j <= Len(r.q.part)
      BY <1>2
    <2>2. Max(lens) \in lens /\ \A j \in lens : j <= Max(lens)
      BY <1>2, <2>1, GreatestExists
    <2> QED BY <2>2
  <1>4. Foremost(keys) \in keys
    BY <1>3 DEF Foremost
  <1> QED BY <1>1, <1>4

(* The records of a cached RRset carry the network it was filed for. *)
LEMMA ContentsNet ==
    ASSUME IInv, NEW k \in DOMAIN cache
    PROVE  /\ IsList(Contents(k)) /\ DOMAIN Contents(k) = DOMAIN cache[k].data
           /\ \A i \in DOMAIN Contents(k) : Contents(k)[i].net = k.part
  <1>1. cache[k].net = k.part /\ IsList(cache[k].data)
    BY DEF IInv, CacheInv
  <1>2. Len(cache[k].data) \in Nat /\ DOMAIN cache[k].data = 1 .. Len(cache[k].data)
    BY <1>1 DEF IsList
  <1>3. DOMAIN Contents(k) = 1 .. Len(cache[k].data) /\ \A i \in DOMAIN Contents(k) : Contents(k)[i].net = k.part
    BY <1>1, <1>2 DEF Contents, Rec
  <1>4. Contents(k) = [i \in 1 .. Len(cache[k].data) |-> Contents(k)[i]]
    BY <1>2 DEF Contents
  <1> HIDE DEF Contents
  <1>5. IsList(Contents(k))
    BY <1>2, <1>3, <1>4, Listed
  <1> QED BY <1>2, <1>3, <1>5

(* The question of a thread at work. *)
LEMMA QuestionTyped ==
    ASSUME IInv, NEW t \in Threads, thr[t].pc # "idle"
    PROVE  /\ Good(W, sets, thr[t]) /\ thr[t].q \in W.questions
           /\ thr[t].q.part \in Seq({0, 1}) /\ thr[t].q.type \in DOMAIN Lifetime /\ thr[t].at \in Nat
           /\ thr[t].q = [name |-> thr[t].q.name, type |-> thr[t].q.type, part |-> thr[t].q.part]
           /\ DOMAIN thr[t] = Fields
  <1>1. Good(W, sets, thr[t]) /\ world \in DOMAIN Worlds
    BY DEF IInv
  <1>2. thr[t].q \in W.questions /\ thr[t].at \in Nat /\ DOMAIN thr[t] = Fields
    BY <1>1 DEF Good, Asked
  <1> QED BY <1>1, <1>2, ServingAssumption DEF W

(* The last entry of a chain, fresh or expired. *)
LEMMA EndsChain ==
    ASSUME IInv, NEW t \in Threads, thr[t].pc = "lookup", NEW k \in DOMAIN cache,
           k.part \in Enclosing(thr[t].q.part), NEW fresh \in Level
    PROVE  LET e == Ends(thr[t], k, fresh)
           IN  /\ Good(W, sets, e) /\ e.pc = "lookup" /\ e.hops # <<>> /\ e.q = thr[t].q
               /\ DOMAIN e = Fields /\ e.stale = {}
  <1> DEFINE r == thr[t]
             x == Takes(r, k, fresh, Contents(k))
             e == [x EXCEPT !.rcode = cache[k].rcode]
  <1>1. Good(W, sets, r)
    BY DEF IInv
  <1>2. IsList(Contents(k)) /\ \A i \in DOMAIN Contents(k) : Contents(k)[i].net \in Enclosing(r.q.part)
    BY ContentsNet
  <1>3. Good(W, sets, x) /\ x.hops # <<>> /\ x.pc = "lookup" /\ x.q = r.q /\ DOMAIN x = Fields
    BY <1>1, <1>2, TakesOne
  <1> HIDE DEF x
  <1>4. /\ DOMAIN e = Fields /\ e.pc = x.pc /\ e.q = x.q /\ e.at = x.at /\ e.set = x.set
        /\ e.answers = x.answers /\ e.out = x.out /\ e.failed = x.failed /\ e.phase = x.phase
        /\ e.via = x.via /\ e.prov = x.prov /\ e.hops = x.hops /\ e.worst = x.worst /\ e.stale = x.stale
    BY <1>3 DEF Fields
  <1>5. Ends(r, k, fresh) = e
    BY DEF Ends, x
  <1> HIDE DEF e
  <1>6. Good(W, sets, e)
    BY <1>3, <1>4, MovesOn
  <1>7. e.stale = {}
    BY <1>3, <1>4, <1>6 DEF Good, Linked
  <1> QED BY <1>3, <1>4, <1>5, <1>6, <1>7

LEMMA LookupKeeps ==
    ASSUME IInv, NEW t \in Threads, Lookup(t)
    PROVE  IInv'
  <1> DEFINE r == thr[t]
             hits == Hits(r)
             k == Foremost(hits)
  <1>1. r.pc = "lookup" /\ UNCHANGED <<world, clock, cache, sets, debts, charges>>
    BY DEF Lookup
  <1>2. Good(W, sets, r) /\ r.q.part \in Seq({0, 1}) /\ r.at \in Nat /\ DOMAIN r = Fields
    BY <1>1, QuestionTyped
  <1>3. hits # {} => k \in DOMAIN cache /\ k.part \in Enclosing(r.q.part) /\ IsLive(k, r.at)
    <2>1. hits \in SUBSET Visible(r, r.q.type)
      BY DEF Hits
    <2>2. hits # {} => k \in hits /\ k.part \in Enclosing(r.q.part)
      BY <1>2, <2>1, ForemostIsOne
    <2> QED BY <2>2 DEF Hits, IsLive
  <1>4. One \in Level
    BY RiskAssumption DEF Level
  <1>5. ASSUME NEW e, Good(W, sets, e), e.pc = "lookup", e.stale = {}, DOMAIN e = Fields, NEW o,
               o = FromCache(e), Finish(t, e, o)
        PROVE  IInv'
    <2>1. o.kind = "answer" /\ o.by = "cache" /\ o.answers = e.answers /\ o.stale = FALSE
      BY <1>5 DEF FromCache
    <2>2. [e EXCEPT !.pc = "done", !.out = o].out = o
      BY <1>5 DEF Fields
    <2>3. \A i \in DOMAIN o.answers : o.answers[i].net \in Enclosing(e.q.part)
      BY <1>5, <2>1 DEF Good, OwnNet
    <2>4. Good(W, sets, [e EXCEPT !.pc = "done", !.out = o])
      BY <1>5, <2>1, <2>2, <2>3, EndsWith DEF StaleIsFresh
    <2> QED BY <1>1, <1>5, <2>4, OnlyThreads DEF Finish
  <1>6. CASE hits # {} /\ Finish(t, Ends(r, k, One), FromCache(Ends(r, k, One)))
    <2>1. LET e == Ends(r, k, One)
          IN  Good(W, sets, e) /\ e.pc = "lookup" /\ e.stale = {} /\ DOMAIN e = Fields
      BY <1>1, <1>3, <1>4, <1>6, EndsChain
    <2> QED BY <1>5, <1>6, <2>1
  <1>7. CASE hits # {} /\ ~IsFresh(k, r.at) /\ \E a \in Assessments :
               Become(t, [Ends(r, k, a.fresh) EXCEPT !.pc = "decide", !.stale =
                             {[key |-> k, age |-> r.at - cache[k].expires, evidence |-> a.evidence]}])
    <2>1. PICK a \in Assessments :
             Become(t, [Ends(r, k, a.fresh) EXCEPT !.pc = "decide", !.stale =
                             {[key |-> k, age |-> r.at - cache[k].expires, evidence |-> a.evidence]}])
      BY <1>7
    <2> DEFINE e == Ends(r, k, a.fresh)
               s == [key |-> k, age |-> r.at - cache[k].expires, evidence |-> a.evidence]
               x == [e EXCEPT !.pc = "decide", !.stale = {s}]
    <2>2. a.fresh \in Level /\ a.evidence \in BOOLEAN
      BY ServingAssumption DEF Level
    <2>3. Good(W, sets, e) /\ e.pc = "lookup" /\ e.hops # <<>> /\ DOMAIN e = Fields
      BY <1>1, <1>3, <1>7, <2>2, EndsChain
    <2>4. s.age \in Nat /\ s.evidence \in BOOLEAN
      <3>1. cache[k].expires \in Nat
        BY <1>3, <1>7 DEF IInv, CacheInv
      <3>2. r.at >= cache[k].expires
        BY <1>2, <1>3, <1>7, <3>1 DEF IsFresh
      <3> QED BY <1>2, <2>2, <3>1, <3>2
    <2> HIDE DEF s, e
    <2>5. /\ DOMAIN x = Fields /\ x.pc = "decide" /\ x.q = e.q /\ x.at = e.at /\ x.set = e.set
          /\ x.answers = e.answers /\ x.out = e.out /\ x.failed = e.failed /\ x.phase = e.phase
          /\ x.via = e.via /\ x.prov = e.prov /\ x.hops = e.hops /\ x.worst = e.worst /\ x.stale = {s}
      BY <2>3 DEF Fields
    <2> HIDE DEF x
    <2>6. Asked(W, x) /\ OwnNet(x) /\ Grouped(W, x) /\ Identified(sets, x)
      BY <2>3, <2>5 DEF Good, Asked, OwnNet, Grouped, Counts, Identified
    <2>7. Linked(x)
      BY <2>3, <2>4, <2>5 DEF Good, Linked, Chain
    <2>8. Good(W, sets, x)
      BY <2>6, <2>7 DEF Good
    <2> QED BY <1>1, <2>1, <2>8, OnlyThreads DEF x, e, s
  <1>8. ASSUME NEW p \in {"alias", "route"}, NEW target, Become(t, [r EXCEPT !.pc = p, !.target = target])
        PROVE  IInv'
    <2> DEFINE x == [r EXCEPT !.pc = p, !.target = target]
    <2>1. /\ DOMAIN x = Fields /\ x.pc = p /\ x.q = r.q /\ x.at = r.at /\ x.set = r.set
          /\ x.answers = r.answers /\ x.out = r.out /\ x.failed = r.failed /\ x.phase = r.phase
          /\ x.via = r.via /\ x.prov = r.prov /\ x.hops = r.hops /\ x.worst = r.worst /\ x.stale = r.stale
      BY <1>2 DEF Fields
    <2> HIDE DEF x
    <2>2. Good(W, sets, x)
      BY <1>1, <1>2, <2>1, MovesOn
    <2> QED BY <1>1, <1>8, <2>2, OnlyThreads DEF x
  <1>9. CASE \E target : Become(t, [r EXCEPT !.pc = "alias", !.target = target])
    BY <1>8, <1>9
  <1>10. CASE Finish(t, r, FromCache([r EXCEPT !.rcode = "NXDOMAIN"]))
    <2> DEFINE o == FromCache([r EXCEPT !.rcode = "NXDOMAIN"])
    <2>1. r.stale = {}
      BY <1>1, <1>2 DEF Good, Linked
    <2>2. o.kind = "answer" /\ o.by = "cache" /\ o.answers = r.answers /\ o.stale = FALSE
      BY <1>2, <2>1 DEF FromCache, Fields
    <2> HIDE DEF o
    <2>3. [r EXCEPT !.pc = "done", !.out = o].out = o
      BY <1>2 DEF Fields
    <2>4. \A i \in DOMAIN o.answers : o.answers[i].net \in Enclosing(r.q.part)
      BY <1>2, <2>2 DEF Good, OwnNet
    <2>5. Good(W, sets, [r EXCEPT !.pc = "done", !.out = o])
      BY <1>1, <1>2, <2>2, <2>3, <2>4, EndsWith DEF StaleIsFresh
    <2> QED BY <1>1, <1>10, <2>5, OnlyThreads DEF Finish, o
  <1>11. CASE Become(t, [r EXCEPT !.pc = "route"])
    <2>1. [r EXCEPT !.pc = "route"] = [r EXCEPT !.pc = "route", !.target = r.target]
      BY <1>2 DEF Fields
    <2> QED BY <1>8, <1>11, <2>1
  <1> QED BY <1>6, <1>7, <1>9, <1>10, <1>11, Zenon DEF Lookup

LEMMA AliasKeeps ==
    ASSUME IInv, NEW t \in Threads, Alias(t)
    PROVE  IInv'
  <1> DEFINE r == thr[t]
             k == [name |-> r.name, type |-> "CNAME", part |-> Global]
             rec == IF cache[k].data = <<>> THEN <<>> ELSE <<Contents(k)[1]>>
             y == Takes(r, k, One, rec)
             x == [y EXCEPT !.pc = "lookup", !.name = r.target, !.depth = y.depth + 1]
  <1>1. r.pc = "alias" /\ UNCHANGED <<world, clock, cache, sets, debts, charges>>
    BY DEF Alias
  <1>2. Good(W, sets, r) /\ DOMAIN r = Fields /\ Global \in Enclosing(r.q.part)
    BY <1>1, QuestionTyped, NetworksAround
  <1>3. CASE IsFresh(k, r.at) /\ Become(t, x)
    <2>1. k \in DOMAIN cache /\ k.part = Global
      BY <1>3 DEF IsFresh
    <2> HIDE DEF k
    <2>2. IsList(rec) /\ \A i \in DOMAIN rec : rec[i].net \in Enclosing(r.q.part)
      <3>1. CASE cache[k].data = <<>>
        BY <3>1 DEF IsList
      <3>2. CASE cache[k].data # <<>>
        <4>1. 1 \in DOMAIN cache[k].data
          BY <2>1, <3>2 DEF IInv, CacheInv, IsList
        <4>2. Contents(k)[1].net = Global
          BY <2>1, <4>1, ContentsNet
        <4>3. rec = <<Contents(k)[1]>>
          BY <3>2
        <4> HIDE DEF rec
        <4> QED BY <1>2, <4>2, <4>3 DEF IsList, Range
      <3> QED BY <3>1, <3>2
    <2>3. One \in Level
      BY RiskAssumption DEF Level
    <2> HIDE DEF rec
    <2>4. Good(W, sets, y) /\ y.pc = "alias" /\ DOMAIN y = Fields
      BY <1>1, <1>2, <2>2, <2>3, TakesOne
    <2> HIDE DEF y
    <2>5. /\ DOMAIN x = Fields /\ x.pc = "lookup" /\ x.q = y.q /\ x.at = y.at /\ x.set = y.set
          /\ x.answers = y.answers /\ x.out = y.out /\ x.failed = y.failed /\ x.phase = y.phase
          /\ x.via = y.via /\ x.prov = y.prov /\ x.hops = y.hops /\ x.worst = y.worst /\ x.stale = y.stale
      BY <2>4 DEF Fields
    <2> HIDE DEF x
    <2>6. Good(W, sets, x)
      BY <2>4, <2>5, MovesOn
    <2> QED BY <1>1, <1>3, <2>6, OnlyThreads
  <1>4. CASE Become(t, [r EXCEPT !.pc = "route"])
    <2> DEFINE z == [r EXCEPT !.pc = "route"]
    <2>1. /\ DOMAIN z = Fields /\ z.pc = "route" /\ z.q = r.q /\ z.at = r.at /\ z.set = r.set
          /\ z.answers = r.answers /\ z.out = r.out /\ z.failed = r.failed /\ z.phase = r.phase
          /\ z.via = r.via
      BY <1>2 DEF Fields
    <2> HIDE DEF z
    <2>2. Good(W, sets, z)
      BY <1>1, <1>2, <2>1, MovesOn
    <2> QED BY <1>1, <1>4, <2>2, OnlyThreads DEF z
  <1>5. y.depth = r.depth
    BY <1>2 DEF Takes, Fields
  <1>6. x = [Takes(r, k, One, rec) EXCEPT !.pc = "lookup", !.name = r.target, !.depth = @ + 1]
    OBVIOUS
  <1> HIDE DEF x
  <1> QED BY <1>3, <1>4, <1>6, Zenon DEF Alias

-----------------------------------------------------------------------------
(* The steps: the stale decision *)

LEMMA ClassConstants ==
    ASSUME NEW c \in 1 .. 5
    PROVE  /\ c # Absolute => Coefficient[c] \in Nat \ {0}
           /\ min_freshness(c) \in Int
  <1>1. One \in Nat /\ BaseMinFreshness \in Nat
    BY RiskAssumption
  <1>2. c # Absolute => Coefficient[c] \in Nat \ {0}
    BY DEF Coefficient, Absolute
  <1>3. c # Absolute => (One - BaseMinFreshness) \div Coefficient[c] \in Int
    BY <1>1, <1>2
  <1> QED BY <1>1, <1>2, <1>3 DEF min_freshness

(* RiskLedger::drain moves the ledger's time forward only, and what leaves it
   is at most what the budget grants for that time. *)
LEMMA DrainLoses ==
    ASSUME NEW l \in [debt : Nat, last : Nat], l.debt <= BudgetCapacity, NEW now \in Nat
    PROVE  LET d == drain(l, now)
           IN  /\ d \in [debt : Nat, last : Nat] /\ d.debt <= BudgetCapacity
               /\ d.last >= l.last
               /\ l.debt - d.debt <= BudgetPerTick * (d.last - l.last)
  <1>1. BudgetCapacity \in Nat /\ BudgetPerTick \in Nat
    BY RiskAssumption
  <1> DEFINE d == drain(l, now)
  <1>2. CASE now <= l.last
    <2>1. d = l
      BY <1>2 DEF drain
    <2>2. l.last - l.last = 0 /\ BudgetPerTick * 0 = 0 /\ l.debt - l.debt = 0
      BY <1>1
    <2> HIDE DEF d
    <2> QED BY <2>1, <2>2 DEF d
  <1>3. CASE ~(now <= l.last)
    <2> DEFINE out == BudgetPerTick * (now - l.last)
               left == IF out > l.debt THEN 0 ELSE l.debt - out
    <2>1. d = [debt |-> left, last |-> now]
      BY <1>3 DEF drain
    <2>2. out \in Nat
      BY <1>1, <1>3
    <2> HIDE DEF out
    <2>3. left \in Nat /\ left <= BudgetCapacity /\ l.debt - left <= out
      BY <1>1, <2>2
    <2> HIDE DEF d, left
    <2> QED BY <1>3, <2>1, <2>3 DEF out, d
  <1> QED BY <1>2, <1>3

(* What plan_stale admits, and what it leaves in the ledger. *)
LEMMA PlanServes ==
    ASSUME NEW ctx, NEW evidence \in BOOLEAN, NEW l \in [debt : Nat, last : Nat],
           l.debt <= BudgetCapacity, NEW now \in Nat,
           ctx.consequence \in 1 .. 5, ctx.fresh \in Level, ctx.value \in Nat, ctx.age \in Nat,
           ctx.trust \in {"Unverified", "ChainAnchored", "CryptoVerified"}
    PROVE  LET p == plan_stale(ctx, evidence, l, now)
           IN  /\ p.risk \in Nat /\ p.serve \in BOOLEAN
               /\ p.ledger \in [debt : Nat, last : Nat] /\ p.ledger.debt <= BudgetCapacity
               /\ p.ledger.last >= l.last
               /\ p.serve => /\ p.risk <= p.ledger.debt
                             /\ evidence /\ ctx.age <= StaleHorizon[ctx.consequence]
                             /\ ctx.fresh >= min_freshness(ctx.consequence)
               /\ l.debt + (IF p.serve THEN p.risk ELSE 0) - p.ledger.debt
                     <= BudgetPerTick * (p.ledger.last - l.last)
  <1> DEFINE cl == ctx.consequence
             a == assess(ctx.value, cl, ctx.trust, ctx.fresh, ctx.age)
             d == drain(l, now)
             ch == try_charge(l, a.risk, now)
             p == plan_stale(ctx, evidence, l, now)
  <1>1. BudgetCapacity \in Nat /\ BudgetPerTick \in Nat /\ ValueFloor \in Nat /\ One \in Nat
    BY RiskAssumption
  <1>2. a.risk \in Nat
    <2>1. CASE ~allows_stale(cl) \/ ctx.age > StaleHorizon[cl]
      BY <2>1 DEF assess
    <2>2. CASE ~(~allows_stale(cl) \/ ctx.age > StaleHorizon[cl])
      <3> DEFINE m == Max({ctx.value, ValueFloor})
                 co == Coefficient[cl]
                 pe == Penalty[ctx.trust]
                 de == One - ctx.fresh
      <3>1. a.risk = m * de * co * pe
        BY <2>2 DEF assess
      <3>2. m \in Nat
        <4> DEFINE both == {ctx.value, ValueFloor}
        <4>1. both \in SUBSET Nat /\ both # {} /\ ctx.value + ValueFloor \in Nat
          BY <1>1
        <4>2. \A j \in both : j <= ctx.value + ValueFloor
          BY <1>1
        <4>3. m = Max(both)
          OBVIOUS
        <4> HIDE DEF both, m
        <4>4. Max(both) \in both
          BY <4>1, <4>2, GreatestExists
        <4>5. Max(both) \in Nat
          BY <4>1, <4>4, Zenon
        <4>6. m \in Nat
          BY <4>3, <4>5, Zenon
        <4> QED BY <4>6, Zenon
      <3>3. co \in Nat
        BY <2>2, ClassConstants DEF allows_stale
      <3>4. pe \in Nat
        BY DEF Penalty
      <3>5. de \in Nat
        BY <1>1 DEF Level
      <3> HIDE DEF m, co, pe, de, a
      <3>6. m * de \in Nat
        BY <3>2, <3>5
      <3>7. m * de * co \in Nat
        BY <3>3, <3>6
      <3>8. m * de * co * pe \in Nat
        BY <3>4, <3>7
      <3> QED BY <3>1, <3>8
    <2> QED BY <2>1, <2>2
  <1>3. a.allowed = (allows_stale(cl) /\ ctx.age <= StaleHorizon[cl] /\ ctx.fresh >= min_freshness(cl))
    BY DEF assess
  <1>4. /\ d \in [debt : Nat, last : Nat] /\ d.debt <= BudgetCapacity /\ d.last >= l.last
        /\ l.debt - d.debt <= BudgetPerTick * (d.last - l.last)
    BY DrainLoses
  <1>5. ch = IF d.debt + a.risk > BudgetCapacity THEN [ok |-> FALSE, ledger |-> d]
             ELSE [ok |-> TRUE, ledger |-> [d EXCEPT !.debt = d.debt + a.risk]]
    BY DEF try_charge
  <1>6. p = IF ~evidence \/ ~a.allowed THEN [serve |-> FALSE, risk |-> 0, ledger |-> l]
            ELSE [serve |-> ch.ok, risk |-> IF ch.ok THEN a.risk ELSE 0, ledger |-> ch.ledger]
    BY DEF plan_stale
  <1> HIDE DEF a, d, ch, p
  <1>7. CASE ~evidence \/ ~a.allowed
    <2>1. p = [serve |-> FALSE, risk |-> 0, ledger |-> l]
      BY <1>6, <1>7
    <2>2. p.serve = FALSE /\ p.risk = 0 /\ p.ledger = l
      BY <2>1
    <2>3. l.last - l.last = 0 /\ BudgetPerTick * 0 = 0 /\ l.debt + 0 - l.debt = 0
      BY <1>1
    <2>4. l.debt + 0 - p.ledger.debt <= BudgetPerTick * (p.ledger.last - l.last)
      BY <2>2, <2>3
    <2>5. ~p.serve /\ p.serve \in BOOLEAN
      BY <2>2, Zenon
    <2>6. (IF p.serve THEN p.risk ELSE 0) = 0
      BY <2>5, Zenon
    <2>7. p.risk \in Nat
      BY <2>2
    <2>8. p.ledger.last >= l.last
      BY <2>2
    <2> QED BY <2>2, <2>4, <2>5, <2>6, <2>7, <2>8 DEF p
  <1>8. CASE evidence /\ a.allowed /\ d.debt + a.risk > BudgetCapacity
    <2>1. ch = [ok |-> FALSE, ledger |-> d]
      BY <1>5, <1>8
    <2>2. p.serve = FALSE /\ p.risk = 0 /\ p.ledger = d
      BY <1>6, <1>8, <2>1
    <2>3. l.debt + 0 - d.debt = l.debt - d.debt
      BY <1>4
    <2>4. l.debt + 0 - p.ledger.debt <= BudgetPerTick * (p.ledger.last - l.last)
      BY <1>4, <2>2, <2>3
    <2>5. ~p.serve /\ p.serve \in BOOLEAN
      BY <2>2, Zenon
    <2>6. (IF p.serve THEN p.risk ELSE 0) = 0
      BY <2>5, Zenon
    <2>7. p.risk \in Nat
      BY <2>2
    <2> QED BY <1>4, <2>2, <2>4, <2>5, <2>6, <2>7 DEF p
  <1>9. CASE evidence /\ a.allowed /\ ~(d.debt + a.risk > BudgetCapacity)
    <2> DEFINE n == [d EXCEPT !.debt = d.debt + a.risk]
    <2>1. n \in [debt : Nat, last : Nat] /\ n.debt = d.debt + a.risk /\ n.last = d.last
      BY <1>2, <1>4
    <2>2. ch = [ok |-> TRUE, ledger |-> n]
      BY <1>5, <1>9
    <2> HIDE DEF n
    <2>3. p.serve = TRUE /\ p.risk = a.risk /\ p.ledger = n
      BY <1>6, <1>9, <2>2
    <2>4. n.debt <= BudgetCapacity
      BY <1>1, <1>2, <1>4, <1>9, <2>1
    <2>5. l.debt + a.risk - n.debt = l.debt - d.debt
      BY <1>2, <1>4, <2>1
    <2>6. ctx.age <= StaleHorizon[cl] /\ ctx.fresh >= min_freshness(cl)
      BY <1>3, <1>9
    <2>7. a.risk <= n.debt
      BY <1>2, <1>4, <2>1
    <2>8. l.debt + (IF p.serve THEN p.risk ELSE 0) - p.ledger.debt <= BudgetPerTick * (p.ledger.last - l.last)
      BY <1>4, <2>1, <2>3, <2>5
    <2> QED BY <1>2, <1>4, <1>9, <2>1, <2>3, <2>4, <2>6, <2>7, <2>8 DEF p
  <1> QED BY <1>7, <1>8, <1>9

(* What the budget grants adds up over adjacent stretches of time. *)
LEMMA GrantsAdd ==
    ASSUME NEW a \in Nat, NEW b \in Nat, NEW c \in Nat
    PROVE  /\ Granted(a, c) = Granted(a, b) + Granted(b, c)
           /\ Granted(a, b) \in Int /\ Granted(b, c) \in Int /\ Granted(a, c) \in Int
           /\ Granted(a, a) = 0
  <1>1. BudgetPerTick \in Nat
    BY RiskAssumption
  <1>2. \A x, y, z, k \in Int : k * (z - x) = k * (z - y) + k * (y - x)
    OBVIOUS
  <1>3. a - a = 0 /\ BudgetPerTick * 0 = 0
    BY <1>1
  <1>4. Granted(a, c) = Granted(a, b) + Granted(b, c)
    BY <1>1, <1>2 DEF Granted
  <1>5. Granted(a, b) \in Int /\ Granted(b, c) \in Int /\ Granted(a, c) \in Int
    BY <1>1 DEF Granted
  <1>6. Granted(a, a) = 0
    BY <1>3 DEF Granted
  <1> QED BY <1>4, <1>5, <1>6

(* The ledger after an answer that was refused (risk 0) or admitted. *)
LEMMA LedgerKept ==
    ASSUME IInv, NEW l \in [debt : Nat, last : Nat], l.debt <= BudgetCapacity, l.last >= debts.last,
           NEW risk \in Nat, debts.debt + risk - l.debt <= Granted(debts.last, l.last),
           debts' = l,
           \/ charges' = charges /\ risk = 0
           \/ /\ risk <= l.debt
              /\ LET sum == IF charges = <<>> THEN 0 ELSE Last(charges).sum
                 IN  charges' = Append(charges, [at |-> l.last, risk |-> risk, sum |-> sum + risk])
    PROVE  (LedgerInv /\ RiskWindow)'
  <1> DEFINE n == Len(charges)
  <1>0. l.debt \in Nat /\ l.last \in Nat
    OBVIOUS
  <1>1. /\ debts \in [debt : Nat, last : Nat] /\ charges \in Seq(Charge)
        /\ \A i \in DOMAIN charges :
              /\ charges[i].at <= debts.last
              /\ charges[n].sum - charges[i].sum + charges[i].risk <= debts.debt + Granted(charges[i].at, debts.last)
        /\ RiskWindow
    BY DEF IInv, LedgerInv
  <1>2. BudgetCapacity \in Nat
    BY RiskAssumption
  <1>3. n \in Nat /\ DOMAIN charges = 1 .. n /\ \A i \in 1 .. n : charges[i] \in Charge
    BY <1>1
  <1>4. /\ \A i \in 1 .. n : charges[i].at \in Nat /\ charges[i].sum \in Nat /\ charges[i].risk \in Nat
        /\ debts.debt \in Nat /\ debts.last \in Nat
    BY <1>1, <1>3 DEF Charge
  <1>7. ASSUME NEW i \in 1 .. n
        PROVE  /\ charges[i].at <= l.last
               /\ charges[n].sum + risk - charges[i].sum + charges[i].risk
                     <= l.debt + Granted(charges[i].at, l.last)
    <2>1. n \in 1 .. n
      BY <1>3
    <2>3. /\ charges[n].sum - charges[i].sum + charges[i].risk <= debts.debt + Granted(charges[i].at, debts.last)
          /\ charges[i].at <= debts.last
      BY <1>1, <1>3
    <2>4. charges[n].sum \in Nat /\ charges[i].sum \in Nat /\ charges[i].risk \in Nat /\ charges[i].at \in Nat
      BY <1>4, <2>1
    <2>5. /\ Granted(charges[i].at, l.last) = Granted(charges[i].at, debts.last) + Granted(debts.last, l.last)
          /\ Granted(charges[i].at, debts.last) \in Int /\ Granted(debts.last, l.last) \in Int
      <3>1. charges[i].at \in Nat /\ debts.last \in Nat /\ l.last \in Nat
        BY <1>0, <1>4, <2>4
      <3> QED BY <3>1, GrantsAdd, ZenonT(60)
    <2>6. charges[i].at <= l.last
      BY <1>0, <1>4, <2>3, <2>4
    <2>7. \A a, b, c, g, h, d, e \in Int :
             a - b + c <= d + g /\ d + risk - e <= h => a + risk - b + c <= e + (g + h)
      OBVIOUS
    <2> HIDE DEF n
    <2>8. charges[n].sum + risk - charges[i].sum + charges[i].risk <= l.debt + Granted(charges[i].at, l.last)
      <3>1. /\ charges[n].sum \in Int /\ charges[i].sum \in Int /\ charges[i].risk \in Int
            /\ debts.debt \in Int /\ l.debt \in Int
        BY <1>0, <1>4, <2>4
      <3> QED BY <2>3, <2>5, <2>7, <3>1
    <2> QED BY <2>6, <2>8
  <1>8. CASE charges' = charges /\ risk = 0
    <2>1. \A i \in 1 .. n : charges[n].sum - charges[i].sum + charges[i].risk <= l.debt + Granted(charges[i].at, l.last)
      <3> TAKE i \in 1 .. n
      <3>1. charges[n].sum + risk - charges[i].sum = charges[n].sum - charges[i].sum
        BY <1>3, <1>4, <1>8
      <3> QED BY <1>7, <3>1
    <2>2. LedgerInv'
      <3>1. \A i \in DOMAIN charges : charges[i].at <= l.last
        BY <1>3, <1>7
      <3> QED BY <1>1, <1>3, <1>8, <2>1, <3>1 DEF LedgerInv, Granted
    <2> QED BY <1>1, <1>8, <2>2 DEF RiskWindow
  <1>9. CASE risk <= l.debt /\ \E sum \in Nat :
                /\ n > 0 => sum = charges[n].sum
                /\ charges' = Append(charges, [at |-> l.last, risk |-> risk, sum |-> sum + risk])
    <2>1. PICK sum \in Nat : /\ n > 0 => sum = charges[n].sum
                             /\ charges' = Append(charges, [at |-> l.last, risk |-> risk, sum |-> sum + risk])
      BY <1>9
    <2> DEFINE e == [at |-> l.last, risk |-> risk, sum |-> sum + risk]
    <2>2. e \in Charge /\ e.at = l.last /\ e.risk = risk /\ e.sum = sum + risk
      BY <1>0 DEF Charge
    <2>20. charges' = Append(charges, e)
      BY <2>1
    <2> HIDE DEF e
    <2>3. /\ charges' \in Seq(Charge) /\ Len(charges') = n + 1 /\ DOMAIN charges' = 1 .. n + 1
          /\ charges'[n + 1] = e /\ \A i \in 1 .. n : charges'[i] = charges[i]
      <3>1. \A c \in Seq(Charge) : \A x \in Charge :
               /\ Append(c, x) \in Seq(Charge) /\ Len(Append(c, x)) = Len(c) + 1
               /\ DOMAIN Append(c, x) = 1 .. Len(c) + 1 /\ Append(c, x)[Len(c) + 1] = x
               /\ \A i \in 1 .. Len(c) : Append(c, x)[i] = c[i]
        OBVIOUS
      <3> QED BY <1>1, <2>2, <2>20, <3>1, Zenon
    <2> HIDE DEF n
    <2>4. ASSUME NEW i \in 1 .. n + 1
          PROVE  /\ charges'[i].at <= l.last
                 /\ charges'[n + 1].sum - charges'[i].sum + charges'[i].risk
                       <= l.debt + Granted(charges'[i].at, l.last)
      <3>1. CASE i \in 1 .. n
        <4>1. sum = charges[n].sum
          <5>1. n > 0
            BY <1>3, <3>1
          <5> QED BY <2>1, <5>1
        <4>2. sum + risk - charges[i].sum + charges[i].risk <= l.debt + Granted(charges[i].at, l.last)
              /\ charges[i].at <= l.last
          BY <1>7, <3>1, <4>1
        <4>3. charges'[i] = charges[i] /\ charges'[n + 1].sum = sum + risk
          BY <2>2, <2>3, <3>1
        <4>4. charges'[n + 1].sum - charges'[i].sum + charges'[i].risk
                 = sum + risk - charges[i].sum + charges[i].risk
          <5>1. \A x, y \in Nat : (sum + risk) - x + y = sum + risk - x + y
            OBVIOUS
          <5>2. charges[i].sum \in Nat /\ charges[i].risk \in Nat
            BY <1>4, <3>1
          <5>3. (sum + risk) - charges[i].sum + charges[i].risk = sum + risk - charges[i].sum + charges[i].risk
            BY <5>1, <5>2, Zenon
          <5> QED BY <4>3, <5>3, Zenon
        <4>5. Granted(charges'[i].at, l.last) = Granted(charges[i].at, l.last)
          BY <4>3
        <4>6. charges'[i].at <= l.last
          BY <4>2, <4>3
        <4> QED BY <4>2, <4>4, <4>5, <4>6
      <3>2. CASE i = n + 1
        <4>1. (sum + risk) - (sum + risk) + risk = risk /\ Granted(l.last, l.last) = 0
          BY <1>0, GrantsAdd
        <4>2. charges'[i].at = l.last /\ charges'[i].sum = sum + risk /\ charges'[i].risk = risk
          BY <2>2, <2>3, <3>2
        <4>3. risk <= l.debt + 0 /\ l.last <= l.last
          BY <1>0, <1>9
        <4> QED BY <3>2, <4>1, <4>2, <4>3, Zenon
      <3> QED BY <1>3, <3>1, <3>2
    <2>5. LedgerInv'
      BY <2>3, <2>4 DEF LedgerInv, Granted
    <2>6. ASSUME NEW i \in 1 .. n + 1, NEW j \in 1 .. n + 1, i <= j
          PROVE  charges'[j].sum - charges'[i].sum + charges'[i].risk
                    <= BudgetCapacity + Granted(charges'[i].at, charges'[j].at)
      <3>1. CASE j \in 1 .. n
        <4>1. i \in 1 .. n
          BY <1>3, <2>6, <3>1
        <4> QED BY <1>1, <1>3, <2>3, <2>6, <3>1, <4>1 DEF RiskWindow, Granted
      <3>2. CASE j = n + 1
        <4>1. charges'[i] \in Charge
          BY <2>3
        <4>2. charges'[i].at \in Nat /\ charges'[i].sum \in Nat /\ charges'[i].risk \in Nat
          BY <4>1 DEF Charge
        <4>3. charges'[j].at = l.last /\ charges'[j].sum \in Nat
          BY <2>2, <2>3, <3>2
        <4>4. charges'[j].sum - charges'[i].sum + charges'[i].risk <= l.debt + Granted(charges'[i].at, l.last)
          BY <2>4, <3>2
        <4>5. Granted(charges'[i].at, l.last) \in Int
          BY <1>0, <4>2, GrantsAdd
        <4> QED BY <1>0, <1>2, <4>2, <4>3, <4>4, <4>5, SMTT(30)
      <3> QED BY <1>3, <3>1, <3>2
    <2>7. RiskWindow'
      BY <2>3, <2>6 DEF RiskWindow, Granted
    <2> QED BY <2>5, <2>7
  <1>10. charges # <<>> => n > 0 /\ Last(charges) = charges[n] /\ charges[n].sum \in Nat
    BY <1>1, <1>3, <1>4 DEF Last
  <1>11. charges = <<>> => ~(n > 0)
    BY <1>3
  <1> QED BY <1>8, <1>9, <1>10, <1>11

(* The context of the decision speaks for every member of the chain. *)
LEMMA ContextOfChain ==
    ASSUME IInv, NEW t \in Threads, thr[t].pc = "decide"
    PROVE  LET ctx == DecideContext(thr[t])
           IN  /\ ctx.consequence = thr[t].worst /\ ctx.fresh = bound(thr[t].prov)
               /\ ctx.consequence \in 1 .. 5 /\ ctx.fresh \in Level /\ ctx.value \in Nat /\ ctx.age \in Nat
               /\ ctx.trust \in {"Unverified", "ChainAnchored", "CryptoVerified"}
               /\ \A s \in thr[t].stale : s.age = ctx.age
               /\ (\A s \in thr[t].stale : s.evidence) \in BOOLEAN
  <1> DEFINE r == thr[t]
             ctx == DecideContext(r)
  <1>1. Chain(r) /\ \E s \in r.stale : r.stale = {s} /\ s.age \in Nat
    BY DEF IInv, Good, Linked
  <1>2. PICK s \in r.stale : r.stale = {s} /\ s.age \in Nat
    BY <1>1
  <1>3. {u.age : u \in r.stale} = {s.age}
    BY <1>2
  <1>4. Max({s.age}) = s.age
    BY <1>2, MaxIsGreatest
  <1>5. ctx.age = s.age
    BY <1>3, <1>4 DEF DecideContext
  <1>6. r.worst \in 1 .. 5 /\ bound(r.prov) \in Level
    BY <1>1, BoundIsBelow DEF Chain
  <1>7. ctx.trust \in {"Unverified", "ChainAnchored", "CryptoVerified"}
    BY DEF DecideContext, trust_level
  <1>8. ctx.consequence = r.worst /\ ctx.fresh = bound(r.prov) /\ ctx.value \in Nat
    BY ServingAssumption DEF DecideContext
  <1>9. (\A u \in r.stale : u.evidence) \in BOOLEAN
    BY Zenon
  <1> HIDE DEF ctx
  <1>10. \A u \in r.stale : u.age = ctx.age
    BY <1>2, <1>5
  <1> QED BY <1>2, <1>5, <1>6, <1>7, <1>8, <1>9, <1>10 DEF ctx

LEMMA DecideKeeps ==
    ASSUME IInv, NEW t \in Threads, Decide(t)
    PROVE  IInv'
  <1> DEFINE r == thr[t]
             ctx == DecideContext(r)
             ev == \A s \in r.stale : s.evidence
             p == plan_stale(ctx, ev, debts, r.at)
             sum == IF charges = <<>> THEN 0 ELSE Last(charges).sum
             cl == r.worst
  <1>1. /\ r.pc = "decide" /\ debts' = p.ledger /\ UNCHANGED <<world, clock, cache, sets>>
        /\ \/ /\ p.serve /\ Finish(t, r, FromCache(r))
              /\ charges' = Append(charges, [at |-> p.ledger.last, risk |-> p.risk, sum |-> sum + p.risk])
           \/ /\ ~p.serve /\ Become(t, [r EXCEPT !.pc = "route", !.hops = <<>>, !.stale = {}])
              /\ charges' = charges
    BY Zenon DEF Decide
  <1>2. Good(W, sets, r) /\ r.at \in Nat /\ DOMAIN r = Fields
    BY <1>1, QuestionTyped
  <1>3. /\ ctx.consequence = cl /\ ctx.fresh = bound(r.prov)
        /\ ctx.consequence \in 1 .. 5 /\ ctx.fresh \in Level /\ ctx.value \in Nat /\ ctx.age \in Nat
        /\ ctx.trust \in {"Unverified", "ChainAnchored", "CryptoVerified"}
        /\ ev \in BOOLEAN
    BY <1>1, ContextOfChain
  <1>4. \A s \in r.stale : s.age = ctx.age
    BY <1>1, ContextOfChain
  <1>5. debts \in [debt : Nat, last : Nat] /\ debts.debt <= BudgetCapacity
    BY DEF IInv, LedgerInv
  <1> HIDE DEF ctx, ev
  <1>6. /\ p.risk \in Nat /\ p.serve \in BOOLEAN
        /\ p.ledger \in [debt : Nat, last : Nat] /\ p.ledger.debt <= BudgetCapacity
        /\ p.ledger.last >= debts.last
        /\ p.serve => /\ p.risk <= p.ledger.debt
                      /\ ev /\ ctx.age <= StaleHorizon[cl] /\ ctx.fresh >= min_freshness(cl)
        /\ debts.debt + (IF p.serve THEN p.risk ELSE 0) - p.ledger.debt <= Granted(debts.last, p.ledger.last)
    BY <1>2, <1>3, <1>5, PlanServes DEF Granted
  <1> HIDE DEF p
  <1>7. ASSUME NEW x, Become(t, x), Good(W, sets, x), (LedgerInv /\ RiskWindow)' PROVE IInv'
    <2>1. DOMAIN thr' = Threads /\ \A u \in Threads : Good(W', sets', thr'[u])
      BY <1>1, <1>7, ThreadMoves
    <2>2. (CacheInv /\ SetsInv)'
      BY <1>1 DEF IInv, CacheInv, SetsInv
    <2>3. (world \in DOMAIN Worlds /\ clock \in Nat)'
      BY <1>1 DEF IInv
    <2> QED BY <1>7, <2>1, <2>2, <2>3 DEF IInv
  <1>8. CASE /\ p.serve /\ Finish(t, r, FromCache(r))
             /\ charges' = Append(charges, [at |-> p.ledger.last, risk |-> p.risk, sum |-> sum + p.risk])
    <2>1. (IF p.serve THEN p.risk ELSE 0) = p.risk
      BY <1>8, Zenon
    <2>2. (LedgerInv /\ RiskWindow)'
      BY <1>1, <1>6, <1>8, <2>1, LedgerKept
    <2> DEFINE o == FromCache(r)
               x == [r EXCEPT !.pc = "done", !.out = o]
    <2>3. o.kind = "answer" /\ o.by = "cache" /\ o.answers = r.answers
      BY DEF FromCache
    <2> HIDE DEF o
    <2>4. x.hops = r.hops /\ x.stale = r.stale
      BY <1>2 DEF Fields
    <2>5. StaleIsFresh(x)
      <3> DEFINE S == {r.hops[i].class : i \in DOMAIN r.hops}
                 d == DOMAIN r.hops
      <3>1. Chain(r) /\ r.hops # <<>>
        BY <1>1, <1>2 DEF Good, Linked
      <3>2. /\ r.hops \in Seq(Hop) /\ cl \in 1 .. 5 /\ \A i \in d : r.hops[i].class <= cl
            /\ \E i \in d : r.hops[i].class = cl
        BY <3>1 DEF Chain
      <3>3. \A i \in d : r.hops[i].class \in 1 .. 5 /\ r.hops[i].fresh \in Level
        <4>1. \A i \in d : r.hops[i] \in Hop
          BY <3>2
        <4>2. \A h \in Hop : h.class \in 1 .. 5 /\ h.fresh \in Level
          BY DEF Hop
        <4> QED BY <4>1, <4>2, Zenon
      <3>4. S \in SUBSET Int /\ cl \in S /\ \A j \in S : j <= cl
        BY <3>2, <3>3
      <3> HIDE DEF S
      <3>5. Max(S) = cl
        BY <3>4, MaxIsGreatest
      <3>6. \A i \in d : r.hops[i].fresh >= min_freshness(cl)
        <4> TAKE i \in d
        <4>1. PICK v \in Evidence(r.prov) : v <= r.hops[i].fresh
          BY <3>1 DEF Chain
        <4>2. ctx.fresh <= v /\ v \in Level
          <5>1. IsProvenance(r.prov)
            BY <3>1 DEF Chain
          <5>2. \A u \in Evidence(r.prov) : u \in Level
            BY <5>1 DEF IsProvenance, Evidence, Range
          <5> QED BY <1>3, <5>1, <5>2, BoundIsBelow
        <4>3. min_freshness(cl) \in Int /\ One \in Nat
          BY <1>3, ClassConstants, RiskAssumption
        <4>4. r.hops[i].fresh \in Level /\ ctx.fresh >= min_freshness(cl)
          BY <1>6, <1>8, <3>3
        <4> QED BY <1>3, <4>1, <4>2, <4>3, <4>4 DEF Level
      <3>7. \A s \in r.stale : s.evidence /\ s.age <= StaleHorizon[cl]
        BY <1>4, <1>6, <1>8, Zenon DEF ev
      <3> HIDE DEF x
      <3> QED BY <2>4, <3>5, <3>6, <3>7, Zenon DEF StaleIsFresh, S
    <2>6. \A i \in DOMAIN o.answers : o.answers[i].net \in Enclosing(r.q.part)
      BY <1>2, <2>3 DEF Good, OwnNet
    <2>7. Good(W, sets, x)
      BY <1>1, <1>2, <2>3, <2>5, <2>6, EndsWith
    <2> QED BY <1>7, <1>8, <2>2, <2>7 DEF Finish, o
  <1>9. CASE ~p.serve /\ Become(t, [r EXCEPT !.pc = "route", !.hops = <<>>, !.stale = {}]) /\ charges' = charges
    <2> DEFINE x == [r EXCEPT !.pc = "route", !.hops = <<>>, !.stale = {}]
    <2>1. (IF p.serve THEN p.risk ELSE 0) = 0
      BY <1>9, Zenon
    <2>2. (LedgerInv /\ RiskWindow)'
      BY <1>1, <1>6, <1>9, <2>1, LedgerKept
    <2>3. /\ DOMAIN x = Fields /\ x.pc = "route" /\ x.q = r.q /\ x.at = r.at /\ x.set = r.set
          /\ x.answers = r.answers /\ x.out = r.out /\ x.failed = r.failed /\ x.phase = r.phase
          /\ x.via = r.via
      BY <1>2 DEF Fields
    <2> HIDE DEF x
    <2>4. Good(W, sets, x)
      BY <1>1, <1>2, <2>3, MovesOn
    <2> QED BY <1>7, <1>9, <2>2, <2>4 DEF x
  <1> QED BY <1>1, <1>8, <1>9

-----------------------------------------------------------------------------
(* The steps: forwarding *)

(* Without a default group the resolver walks from the roots itself. *)
LEMMA WalkerReached ==
    ASSUME NEW c, c.groups[0] = <<>>
    PROVE  Walker \in Reachable(c)
  BY DEF Reachable

(* The group a question is sent to first, and what makes it speak. *)
LEMMA PrimaryListed ==
    ASSUME IInv, NEW n
    PROVE  /\ forward_route(n) = Primary(W, n) /\ IsList(Primary(W, n)) /\ Primary(W, n) # <<>>
           /\ Range(Primary(W, n)) \subseteq Reachable(W)
           /\ IsList(W.groups[1]) /\ Range(W.groups[1]) \subseteq Reachable(W)
  <1>1. /\ {0, 1} \subseteq DOMAIN W.groups
        /\ \A g \in DOMAIN W.groups : IsList(W.groups[g])
    BY ServingAssumption DEF IInv, W, IsList
  <1>2. \A g \in DOMAIN W.groups : Range(W.groups[g]) \subseteq Reachable(W)
    BY DEF Reachable
  <1>3. forward_route(n) = Primary(W, n)
    BY DEF forward_route, Primary, Forced, has_fallback, InForce
  <1>4. ASSUME W.groups[0] = <<>> PROVE Walker \in Reachable(W)
    BY <1>4, WalkerReached
  <1>5. IsList(<<Walker>>) /\ <<Walker>> # <<>> /\ Range(<<Walker>>) = {Walker}
    BY DEF IsList, Range
  <1>6. /\ Primary(W, n) # <<>>
        /\ \/ \E g \in DOMAIN W.groups : Primary(W, n) = W.groups[g]
           \/ Primary(W, n) = <<Walker>> /\ W.groups[0] = <<>>
    <2> DEFINE id == route(W.rules, n)
    <2>1. CASE InForce(W, n)
      BY <1>1, <2>1 DEF Primary, InForce
    <2>2. CASE ~InForce(W, n) /\ id \in DOMAIN W.groups /\ W.groups[id] # <<>>
      BY <2>2 DEF Primary
    <2>3. CASE ~InForce(W, n) /\ ~(id \in DOMAIN W.groups /\ W.groups[id] # <<>>) /\ W.groups[0] # <<>>
      BY <1>1, <2>3 DEF Primary
    <2>4. CASE ~InForce(W, n) /\ ~(id \in DOMAIN W.groups /\ W.groups[id] # <<>>) /\ W.groups[0] = <<>>
      BY <1>5, <2>4 DEF Primary
    <2> QED BY <2>1, <2>2, <2>3, <2>4
  <1> QED BY <1>1, <1>2, <1>3, <1>4, <1>5, <1>6

(* The current set is one of those installed. *)
LEMMA LastSet ==
    ASSUME IInv
    PROVE  Len(sets) \in DOMAIN sets /\ Len(sets) \in Nat \ {0} /\ DOMAIN sets = 1 .. Len(sets)
  BY DEF IInv, SetsInv, IsList

LEMMA RouteKeeps ==
    ASSUME IInv, NEW t \in Threads, Route(t)
    PROVE  IInv'
  <1> DEFINE r == thr[t]
             g == forward_route(r.q.name)
             x == Begins(r, g, "primary")
  <1>1. r.pc = "route" /\ Become(t, x) /\ UNCHANGED <<world, clock, cache, sets, debts, charges>>
    BY DEF Route
  <1>2. Good(W, sets, r) /\ DOMAIN r = Fields
    BY <1>1, QuestionTyped
  <1>3. g = Primary(W, r.q.name) /\ IsList(g) /\ g # <<>>
    BY PrimaryListed
  <1> HIDE DEF g
  <1>4. /\ DOMAIN x = Fields /\ x.pc = "exchange" /\ x.q = r.q /\ x.at = r.at /\ x.set = Len(sets)
        /\ x.answers = r.answers /\ x.out = r.out /\ x.failed = r.failed /\ x.phase = "primary"
        /\ x.via = <<>> /\ x.todo = g
    BY <1>2 DEF Fields, Begins
  <1> HIDE DEF x
  <1>5. Asked(W, x) /\ OwnNet(x) /\ Identified(sets, x) /\ Linked(x)
    BY <1>1, <1>2, <1>4, LastSet DEF Good, Asked, OwnNet, Identified, Linked
  <1>6. Grouped(W, x)
    <2>1. r.failed \in [{"primary", "fallback"} -> Nat] /\ r.failed.primary = 0 /\ r.failed.fallback = 0
      BY <1>1, <1>2 DEF Good, Grouped, Counts
    <2>2. Counts(x)
      BY <1>4, <2>1 DEF Counts
    <2>3. Underway(W, x)
      <3>1. GroupOf(W, x, x.phase) = g /\ x.failed[x.phase] = 0
        BY <1>3, <1>4, <2>1 DEF GroupOf
      <3>2. Len(g) \in Nat /\ DOMAIN g = 1 .. Len(g)
        BY <1>3 DEF IsList
      <3>3. Len(g) = Len(g) - 0 /\ \A j \in DOMAIN g : g[j] = g[0 + j]
        BY <3>2
      <3> QED BY <1>3, <1>4, <2>1, <3>1, <3>3 DEF Underway
    <2> QED BY <1>4, <2>2, <2>3 DEF Grouped
  <1> QED BY <1>1, <1>5, <1>6, OnlyThreads DEF Good

(* pooled_transport: the pool still holds what its keys say, and a server is
   spoken to through a transport of its own. *)
LEMMA PooledKeeps ==
    ASSUME NEW s, DOMAIN s = {"verify", "pool"}, \A k \in DOMAIN s.pool : s.pool[k] = ForKey(k, s.verify), NEW f
    PROVE  /\ DOMAIN Pooled(s, f) = {"verify", "pool"} /\ Pooled(s, f).verify = s.verify
           /\ \A k \in DOMAIN Pooled(s, f).pool : Pooled(s, f).pool[k] = ForKey(k, s.verify)
           /\ Used(s, f) = Built(f, s)
  <1> DEFINE key == TransportKey(f)
             p == [k \in DOMAIN s.pool \union {key} |-> IF k \in DOMAIN s.pool THEN s.pool[k] ELSE Built(f, s)]
  <1>1. Built(f, s) = ForKey(key, s.verify)
    BY DEF Built, ForKey, TransportKey
  <1> HIDE DEF key
  <1>2. CASE f.proto \notin Encrypted
    BY <1>2 DEF Pooled, Used
  <1>3. CASE f.proto \in Encrypted /\ key \in DOMAIN s.pool
    <2>1. Pooled(s, f) = s
      BY <1>3 DEF Pooled, key
    <2> QED BY <1>1, <1>3, <2>1 DEF Used, key
  <1>4. CASE f.proto \in Encrypted /\ key \notin DOMAIN s.pool
    <2>1. Pooled(s, f) = [s EXCEPT !.pool = p]
      BY <1>4 DEF Pooled, key
    <2>2. \A k \in DOMAIN p : p[k] = ForKey(k, s.verify)
      BY <1>1
    <2>3. p[key] = Built(f, s)
      BY <1>4
    <2> HIDE DEF p
    <2>4. DOMAIN Pooled(s, f) = {"verify", "pool"} /\ Pooled(s, f).verify = s.verify /\ Pooled(s, f).pool = p
      BY <2>1
    <2>5. Used(s, f) = Pooled(s, f).pool[key]
      BY <1>4 DEF Used, key
    <2> QED BY <2>2, <2>3, <2>4, <2>5
  <1> QED BY <1>2, <1>3, <1>4

(* A thread does not notice that sets are added or their pools grow. *)
LEMMA SetsMove ==
    ASSUME NEW c, NEW ss, NEW r, Good(c, ss, r), NEW sn, DOMAIN ss \subseteq DOMAIN sn,
           \A i \in DOMAIN ss : sn[i].verify = ss[i].verify
    PROVE  Good(c, sn, r)
  <1>1. r.set \in DOMAIN ss /\ (r.via # <<>> => r.via[1].used = Built(r.via[1].f, ss[r.set]))
    BY DEF Good, Identified
  <1>2. \A f : Built(f, sn[r.set]) = Built(f, ss[r.set])
    BY <1>1 DEF Built
  <1> QED BY <1>1, <1>2 DEF Good, Identified

(* The forwarder sets after an exchange. *)
LEMMA ExchangedSets ==
    ASSUME IInv, NEW n \in DOMAIN sets, NEW f, sets' = [sets EXCEPT ![n] = Pooled(sets[n], f)]
    PROVE  /\ SetsInv' /\ DOMAIN sets' = DOMAIN sets
           /\ \A i \in DOMAIN sets : sets'[i].verify = sets[i].verify
           /\ Used(sets[n], f) = Built(f, sets'[n])
  <1>1. /\ IsList(sets) /\ sets # <<>>
        /\ \A i \in DOMAIN sets : /\ DOMAIN sets[i] = {"verify", "pool"}
                                  /\ \A k \in DOMAIN sets[i].pool : sets[i].pool[k] = ForKey(k, sets[i].verify)
    BY DEF IInv, SetsInv
  <1>2. DOMAIN sets = 1 .. Len(sets) /\ Len(sets) \in Nat \ {0}
    BY LastSet
  <1>3. DOMAIN sets' = DOMAIN sets /\ sets'[n] = Pooled(sets[n], f) /\ \A i \in DOMAIN sets \ {n} : sets'[i] = sets[i]
    OBVIOUS
  <1>4. sets' = [i \in 1 .. Len(sets) |-> sets'[i]]
    BY <1>2
  <1>5. /\ DOMAIN Pooled(sets[n], f) = {"verify", "pool"} /\ Pooled(sets[n], f).verify = sets[n].verify
        /\ \A k \in DOMAIN Pooled(sets[n], f).pool : Pooled(sets[n], f).pool[k] = ForKey(k, sets[n].verify)
        /\ Used(sets[n], f) = Built(f, sets[n])
    BY <1>1, PooledKeeps
  <1>6. IsList(sets') /\ sets' # <<>>
    BY <1>2, <1>3, <1>4, Listed
  <1>7. \A i \in DOMAIN sets : sets'[i].verify = sets[i].verify
    BY <1>3, <1>5
  <1>8. \A i \in DOMAIN sets' : /\ DOMAIN sets'[i] = {"verify", "pool"}
                                /\ \A k \in DOMAIN sets'[i].pool : sets'[i].pool[k] = ForKey(k, sets'[i].verify)
    <2> TAKE i \in DOMAIN sets'
    <2>1. CASE i = n
      BY <1>3, <1>5, <2>1
    <2>2. CASE i # n
      BY <1>1, <1>3, <2>2
    <2> QED BY <2>1, <2>2
  <1>9. Built(f, sets'[n]) = Built(f, sets[n])
    BY <1>7 DEF Built
  <1>10. SetsInv'
    BY <1>6, <1>8, Zenon DEF SetsInv
  <1> QED BY <1>3, <1>5, <1>7, <1>9, <1>10

(* What an exchange makes of the thread: the next server, the fallback group,
   an error, or a reply to file.  h is the group asked, m how many failed. *)
LEMMA ExchangeKeeps ==
    ASSUME IInv, NEW t \in Threads, Exchange(t)
    PROVE  IInv'
  <1> DEFINE r == thr[t]
             f == Head(r.todo)
             n == r.set
             via == <<[f |-> f, used |-> Used(sets[n], f)]>>
             met == [r EXCEPT !.via = via]
             lost == [met EXCEPT !.todo = Tail(@), !.failed[r.phase] = @ + 1]
             h == GroupOf(W, r, r.phase)
             m == r.failed[r.phase]
             gated(reply) == /\ r.phase = "primary" /\ f # Walker /\ ~Forced(r.q.name)
                             /\ has_fallback /\ Poisoned(reply)
             got(reply) == [met EXCEPT !.kept = <<[reply |-> reply, f |-> f]>>]
  <1>1. /\ r.pc = "exchange" /\ sets' = [sets EXCEPT ![n] = Pooled(sets[n], f)]
        /\ UNCHANGED <<world, clock, cache, debts, charges>>
    BY DEF Exchange
  <1>2. Good(W, sets, r) /\ DOMAIN r = Fields /\ n \in DOMAIN sets
    BY <1>1, QuestionTyped DEF Good, Identified
  <1>3. /\ SetsInv' /\ DOMAIN sets' = DOMAIN sets /\ Used(sets[n], f) = Built(f, sets'[n])
        /\ \A u \in Threads : Good(W, sets', thr[u])
    <2>1. /\ SetsInv' /\ DOMAIN sets' = DOMAIN sets /\ Used(sets[n], f) = Built(f, sets'[n])
          /\ \A i \in DOMAIN sets : sets'[i].verify = sets[i].verify
      BY <1>1, <1>2, ExchangedSets
    <2>2. \A u \in Threads : Good(W, sets, thr[u])
      BY DEF IInv
    <2> QED BY <2>1, <2>2, SetsMove
  <1>4. ASSUME NEW x, Become(t, x), Good(W, sets', x) PROVE IInv'
    <2>1. W' = W
      BY <1>1 DEF W
    <2>2. DOMAIN thr' = Threads /\ \A u \in Threads : Good(W', sets', thr'[u])
      BY <1>3, <1>4, <2>1 DEF IInv, Become
    <2>3. (CacheInv /\ LedgerInv /\ RiskWindow)'
      BY <1>1 DEF IInv, CacheInv, LedgerInv, RiskWindow
    <2>4. (world \in DOMAIN Worlds /\ clock \in Nat)'
      BY <1>1 DEF IInv
    <2> QED BY <1>3, <2>2, <2>3, <2>4 DEF IInv
  <1>5. /\ r.phase \in {"primary", "fallback"} /\ r.failed \in [{"primary", "fallback"} -> Nat]
        /\ IsList(r.todo) /\ r.todo # <<>> /\ Len(r.todo) = Len(h) - m
        /\ \A j \in DOMAIN r.todo : r.todo[j] = h[m + j]
        /\ r.phase = "primary" => r.failed.fallback = 0
        /\ r.phase = "fallback" => KeptFrom(W, r, "primary")
    BY <1>1, <1>2 DEF Good, Grouped, Counts, Underway
  <1>6. IsList(h)
    BY <1>5, PrimaryListed DEF GroupOf
  <1> HIDE DEF h
  <1>7. m \in Nat /\ Len(h) \in Nat /\ Len(r.todo) \in Nat \ {0} /\ DOMAIN r.todo = 1 .. Len(r.todo)
    BY <1>5, <1>6 DEF IsList
  <1>8. f = h[m + 1] /\ m < Len(h)
    <2>1. 1 \in DOMAIN r.todo /\ f = r.todo[1]
      BY <1>5, <1>7 DEF IsList
    <2> QED BY <1>5, <1>7, <2>1
  <1>9. ASSUME NEW x, DOMAIN x = Fields, x.q = r.q, x.at = r.at, x.answers = r.answers,
               \/ x.pc \in {"exchange", "store"} /\ x.out = r.out
               \/ x.pc = "done" /\ x.out = [NoOut EXCEPT !.kind = "error"],
               Grouped(W, x),
               \/ x.via = <<>> /\ x.set = Len(sets)
               \/ x.via = via /\ x.set = n
        PROVE  Good(W, sets', x)
    <2>1. [NoOut EXCEPT !.kind = "error"].answers = <<>> /\ [NoOut EXCEPT !.kind = "error"].stale = FALSE
      BY DEF NoOut
    <2>2. x.set \in Nat \ {0} /\ x.set \in DOMAIN sets'
      BY <1>2, <1>3, <1>9, LastSet
    <2>3. Asked(W, x)
      BY <1>1, <1>2, <1>9, <2>2 DEF Good, Asked
    <2>4. OwnNet(x)
      <3>1. /\ IsList(x.answers)
            /\ \A i \in DOMAIN x.answers : x.answers[i].net \in Enclosing(x.q.part)
            /\ \A i \in DOMAIN r.out.answers : r.out.answers[i].net \in Enclosing(x.q.part)
        BY <1>2, <1>9 DEF Good, OwnNet
      <3>2. CASE x.out = r.out
        BY <3>1, <3>2 DEF OwnNet
      <3>3. CASE x.out = [NoOut EXCEPT !.kind = "error"]
        <4>1. DOMAIN x.out.answers = {}
          BY <2>1, <3>3
        <4> QED BY <3>1, <4>1 DEF OwnNet
      <3> QED BY <1>9, <3>2, <3>3
    <2>5. Linked(x)
      BY <1>9, <2>1 DEF Linked, StaleIsFresh
    <2>6. Identified(sets', x)
      BY <1>3, <1>9, <2>2 DEF Identified
    <2> QED BY <1>9, <2>3, <2>4, <2>5, <2>6 DEF Good
  <1>10. \A x : x.q = r.q => \A phase : GroupOf(W, x, phase) = GroupOf(W, r, phase)
    BY DEF GroupOf
  <1>11. /\ DOMAIN met = Fields /\ met.via = via /\ met.failed = r.failed /\ met.pc = "exchange"
         /\ met.q = r.q /\ met.at = r.at /\ met.answers = r.answers /\ met.out = r.out /\ met.set = n
         /\ met.phase = r.phase /\ met.todo = r.todo /\ met.kept = r.kept
    BY <1>1, <1>2 DEF Fields
  <1> HIDE DEF met, via, f
  <1>12. /\ DOMAIN lost = Fields /\ lost.via = via /\ lost.pc = "exchange"
         /\ lost.q = r.q /\ lost.at = r.at /\ lost.answers = r.answers /\ lost.out = r.out /\ lost.set = n
         /\ lost.phase = r.phase /\ lost.todo = Tail(r.todo) /\ lost.kept = r.kept
         /\ lost.failed = [r.failed EXCEPT ![r.phase] = m + 1]
    BY <1>11 DEF Fields
  <1> HIDE DEF lost
  <1>13. /\ lost.failed \in [{"primary", "fallback"} -> Nat] /\ lost.failed[r.phase] = m + 1
         /\ r.phase = "primary" => lost.failed.fallback = 0
         /\ r.phase = "fallback" => lost.failed.primary = r.failed.primary
    BY <1>5, <1>7, <1>12
  <1>14. /\ IsList(lost.todo) /\ Len(lost.todo) = Len(h) - (m + 1)
         /\ \A j \in DOMAIN lost.todo : lost.todo[j] = h[m + 1 + j]
    <2> DEFINE A == Range(r.todo)
    <2>1. r.todo \in Seq(A)
      BY <1>5 DEF IsList
    <2> HIDE DEF A
    <2>2. /\ Tail(r.todo) \in Seq(A) /\ Len(Tail(r.todo)) = Len(r.todo) - 1
          /\ \A j \in DOMAIN Tail(r.todo) : Tail(r.todo)[j] = r.todo[j + 1] /\ j + 1 \in DOMAIN r.todo /\ j \in Nat
      BY <1>5, <1>7, <2>1, SMTT(30)
    <2>3. \A j \in DOMAIN Tail(r.todo) : r.todo[j + 1] = h[m + (j + 1)] /\ m + (j + 1) = m + 1 + j
      <3>1. \A j \in DOMAIN Tail(r.todo) : r.todo[j + 1] = h[m + (j + 1)]
        BY <1>5, <2>2, Zenon
      <3>2. \A j \in Nat : m + (j + 1) = m + 1 + j
        BY <1>7
      <3> QED BY <2>2, <3>1, <3>2, Zenon
    <2>4. Len(r.todo) - 1 = Len(h) - (m + 1)
      BY <1>5, <1>7
    <2>5. IsList(Tail(r.todo))
      BY <2>2, SeqIsList
    <2> QED BY <1>12, <2>2, <2>3, <2>4, <2>5
  <1>15. ASSUME NEW x, x.q = r.q, x.kept = r.kept, x.failed.primary = r.failed.primary, KeptFrom(W, r, "primary")
         PROVE  KeptFrom(W, x, "primary")
    BY <1>10, <1>15 DEF KeptFrom
  <1>16. CASE lost.todo # <<>> /\ Become(t, lost)
    <2>1. Counts(lost)
      BY <1>5, <1>12, <1>13 DEF Counts
    <2>2. GroupOf(W, lost, lost.phase) = h /\ lost.failed[lost.phase] = m + 1
      BY <1>10, <1>12, <1>13 DEF h
    <2>3. lost.phase = "fallback" => KeptFrom(W, lost, "primary")
      BY <1>5, <1>12, <1>13, <1>15
    <2>4. Underway(W, lost)
      BY <1>12, <1>13, <1>14, <1>16, <2>2, <2>3 DEF Underway
    <2>5. Grouped(W, lost)
      BY <1>12, <2>1, <2>4 DEF Grouped
    <2>6. Good(W, sets', lost)
      BY <1>9, <1>12, <2>5
    <2> QED BY <1>4, <1>16, <2>6
  <1>17. lost.todo = <<>> => m + 1 = Len(h)
    BY <1>7, <1>14, SMTT(30)
  <1>18. CASE lost.todo = <<>> /\ r.phase = "fallback" /\ Become(t, [lost EXCEPT !.pc = "store"])
    <2> DEFINE x == [lost EXCEPT !.pc = "store"]
    <2>1. /\ DOMAIN x = Fields /\ x.via = via /\ x.pc = "store"
          /\ x.q = r.q /\ x.at = r.at /\ x.answers = r.answers /\ x.out = r.out /\ x.set = n
          /\ x.phase = "fallback" /\ x.kept = r.kept /\ x.failed = lost.failed
      BY <1>12, <1>18 DEF Fields
    <2> HIDE DEF x
    <2>2. Counts(x)
      BY <1>13, <2>1 DEF Counts
    <2>3. KeptFrom(W, x, "primary")
      BY <1>5, <1>13, <1>15, <1>18, <2>1
    <2>4. x.failed.fallback = Len(W.groups[1])
      BY <1>13, <1>17, <1>18, <2>1 DEF h, GroupOf
    <2>5. x.failed.primary < Len(Primary(W, x.q.name))
      BY <2>3 DEF KeptFrom, GroupOf
    <2>6. Grouped(W, x)
      BY <2>1, <2>2, <2>3, <2>4, <2>5 DEF Grouped, Settled
    <2>7. Good(W, sets', x)
      BY <1>9, <2>1, <2>6
    <2> QED BY <1>4, <1>18, <2>7 DEF x
  <1>19. CASE lost.todo = <<>> /\ r.phase # "fallback" /\ Finish(t, lost, [NoOut EXCEPT !.kind = "error"])
    <2> DEFINE o == [NoOut EXCEPT !.kind = "error"]
               x == [lost EXCEPT !.pc = "done", !.out = o]
    <2>1. /\ DOMAIN x = Fields /\ x.via = via /\ x.pc = "done" /\ x.out = o
          /\ x.q = r.q /\ x.at = r.at /\ x.answers = r.answers /\ x.set = n
          /\ x.phase = r.phase /\ x.failed = lost.failed
      BY <1>12 DEF Fields
    <2>2. o.kind = "error" /\ o.by = "none"
      BY DEF NoOut
    <2>3. r.phase = "primary"
      BY <1>5, <1>19
    <2>4. x.failed.primary = Len(Primary(W, x.q.name))
      BY <1>13, <1>17, <1>19, <2>1, <2>3 DEF h, GroupOf
    <2> HIDE DEF x
    <2>5. Counts(x)
      BY <1>5, <1>13, <2>1 DEF Counts
    <2>6. Grouped(W, x)
      BY <2>1, <2>2, <2>4, <2>5 DEF Grouped
    <2>7. Good(W, sets', x)
      BY <1>9, <2>1, <2>6
    <2> QED BY <1>4, <1>19, <2>7 DEF x, Finish
  <1>20. ASSUME NEW reply
         PROVE  /\ DOMAIN got(reply) = Fields /\ got(reply).via = via /\ got(reply).pc = "exchange"
                /\ got(reply).q = r.q /\ got(reply).at = r.at /\ got(reply).answers = r.answers
                /\ got(reply).out = r.out /\ got(reply).set = n /\ got(reply).phase = r.phase
                /\ got(reply).failed = r.failed
                /\ got(reply).kept = <<[reply |-> reply, f |-> f]>>
    BY <1>11 DEF Fields
  <1> HIDE DEF got
  <1>21. ASSUME NEW reply \in W.replies[f.ip][r.q.name, r.q.type], NEW x,
                x.q = r.q, x.failed = r.failed, x.kept = got(reply).kept
         PROVE  KeptFrom(W, x, r.phase)
    <2>1. x.kept[1].f = f /\ x.kept[1].reply = reply
      <3> DEFINE e == [reply |-> reply, f |-> f]
      <3>1. e.f = f /\ e.reply = reply
        OBVIOUS
      <3>2. x.kept = <<e>>
        BY <1>20, <1>21, Zenon
      <3> HIDE DEF e
      <3>3. x.kept[1] = e
        BY <3>2, OnlyElement, Zenon
      <3> QED BY <3>1, <3>3
    <2>2. GroupOf(W, x, r.phase) = h
      BY <1>10, <1>21 DEF h
    <2> QED BY <1>8, <1>21, <2>1, <2>2 DEF KeptFrom
  <1>22. CASE \E reply \in W.replies[f.ip][r.q.name, r.q.type] :
                 gated(reply) /\ Become(t, Begins(got(reply), W.groups[1], "fallback"))
    <2>1. PICK reply \in W.replies[f.ip][r.q.name, r.q.type] :
                 gated(reply) /\ Become(t, Begins(got(reply), W.groups[1], "fallback"))
      BY <1>22
    <2> DEFINE g == W.groups[1]
               y == got(reply)
               x == Begins(y, g, "fallback")
    <2>0. /\ DOMAIN y = Fields /\ y.q = r.q /\ y.at = r.at /\ y.answers = r.answers /\ y.out = r.out
          /\ y.failed = r.failed /\ y.kept = got(reply).kept
      BY <1>20, Zenon
    <2> HIDE DEF g, y
    <2>2. /\ DOMAIN x = Fields /\ x.via = <<>> /\ x.pc = "exchange"
          /\ x.q = r.q /\ x.at = r.at /\ x.answers = r.answers /\ x.out = r.out /\ x.set = Len(sets)
          /\ x.phase = "fallback" /\ x.failed = r.failed /\ x.kept = got(reply).kept /\ x.todo = g
      BY <2>0 DEF Fields, Begins
    <2> HIDE DEF x
    <2>3. r.phase = "primary" /\ g # <<>>
      BY <2>1 DEF has_fallback, g
    <2>4. KeptFrom(W, x, "primary")
      BY <1>21, <2>2, <2>3
    <2>5. IsList(g)
      BY PrimaryListed DEF g
    <2>7. GroupOf(W, x, x.phase) = g /\ x.failed[x.phase] = 0
      BY <1>5, <2>2, <2>3 DEF GroupOf, g
    <2>8. Len(g) = Len(g) - 0 /\ \A j \in DOMAIN g : g[j] = g[0 + j]
      BY <2>5, ListSize, Zenon
    <2>9. Underway(W, x)
      BY <2>2, <2>3, <2>4, <2>5, <2>7, <2>8 DEF Underway
    <2>10. Counts(x)
      BY <1>5, <2>2 DEF Counts
    <2>11. Grouped(W, x)
      BY <2>2, <2>9, <2>10 DEF Grouped
    <2>12. Good(W, sets', x)
      BY <1>9, <2>2, <2>11
    <2> QED BY <1>4, <2>1, <2>12 DEF x, y, g
  <1>23. CASE \E reply \in W.replies[f.ip][r.q.name, r.q.type] :
                 ~gated(reply) /\ Become(t, [got(reply) EXCEPT !.pc = "store"])
    <2>1. PICK reply \in W.replies[f.ip][r.q.name, r.q.type] :
                 ~gated(reply) /\ Become(t, [got(reply) EXCEPT !.pc = "store"])
      BY <1>23
    <2> DEFINE x == [got(reply) EXCEPT !.pc = "store"]
    <2>2. /\ DOMAIN x = Fields /\ x.via = via /\ x.pc = "store"
          /\ x.q = r.q /\ x.at = r.at /\ x.answers = r.answers /\ x.out = r.out /\ x.set = n
          /\ x.phase = r.phase /\ x.failed = r.failed /\ x.kept = got(reply).kept
      BY <1>20 DEF Fields
    <2> HIDE DEF x
    <2>3. KeptFrom(W, x, r.phase)
      BY <1>21, <2>2
    <2>4. x.failed.primary < Len(Primary(W, x.q.name))
      <3>1. CASE r.phase = "primary"
        BY <2>3, <3>1 DEF KeptFrom, GroupOf
      <3>2. CASE r.phase = "fallback"
        BY <1>5, <2>2, <3>2 DEF KeptFrom, GroupOf
      <3> QED BY <1>5, <3>1, <3>2
    <2>5. x.kept[1].f = f /\ x.kept[1].reply = reply
      <3> DEFINE e == [reply |-> reply, f |-> f]
      <3>1. e.f = f /\ e.reply = reply
        OBVIOUS
      <3>2. x.kept = <<e>>
        BY <1>20, <2>2, Zenon
      <3> HIDE DEF e
      <3>3. x.kept[1] = e
        BY <3>2, OnlyElement, Zenon
      <3> QED BY <3>1, <3>3
    <2>6. r.phase = "primary" /\ f # Walker /\ ~InForce(W, x.q.name) /\ W.groups[1] # <<>> => ~BogusReply(W, reply)
      BY <2>1, <2>2 DEF Forced, has_fallback, InForce, Poisoned, BogusReply
    <2>7. Settled(W, x)
      BY <1>5, <2>2, <2>3, <2>4, <2>5, <2>6 DEF Settled
    <2>8. Counts(x)
      BY <1>5, <2>2 DEF Counts
    <2>9. Grouped(W, x)
      BY <2>2, <2>7, <2>8 DEF Grouped
    <2>10. Good(W, sets', x)
      BY <1>9, <2>2, <2>9
    <2> QED BY <1>4, <2>1, <2>10 DEF x
  <1> QED BY <1>16, <1>18, <1>19, <1>22, <1>23, Zenon DEF Exchange, lost, got, met, via, f

-----------------------------------------------------------------------------
(* The steps: filing the answer *)

(* The reply to be filed is one a server of the world can give. *)
LEMMA KeptIsReply ==
    ASSUME IInv, NEW t \in Threads, thr[t].pc = "store"
    PROVE  LET reply == thr[t].kept[1].reply
           IN  /\ IsList(reply.answers) /\ \A x \in Range(reply.answers) : x.type \in DOMAIN Lifetime
               /\ reply.scope \in Nat
  <1> DEFINE r == thr[t]
             f == r.kept[1].f
             reply == r.kept[1].reply
  <1>1. Good(W, sets, r) /\ r.q \in W.questions
    BY QuestionTyped
  <1>2. Counts(r) /\ Settled(W, r)
    BY <1>1 DEF Good, Grouped
  <1>3. PICK phase \in {"primary", "fallback"} : KeptFrom(W, r, phase)
    BY <1>2 DEF Counts, Settled
  <1> DEFINE h == GroupOf(W, r, phase)
             n == r.failed[phase]
  <1>4. n \in Nat /\ n < Len(h) /\ f = h[n + 1]
    BY <1>2, <1>3 DEF Counts, KeptFrom
  <1>5. reply \in W.replies[f.ip][r.q.name, r.q.type]
    BY <1>3, Zenon DEF KeptFrom
  <1>6. IsList(h) /\ Range(h) \subseteq Reachable(W)
    BY PrimaryListed DEF GroupOf
  <1> HIDE DEF h, n
  <1>7. f \in Reachable(W)
    <2>1. n + 1 \in DOMAIN h
      BY <1>4, <1>6 DEF IsList
    <2>2. f \in Range(h)
      BY <1>4, <2>1 DEF Range
    <2> QED BY <1>6, <2>2
  <1>8. \A q \in W.questions : \A g \in Reachable(W) : \A y \in W.replies[g.ip][q.name, q.type] :
           /\ y.answers \in Seq(Range(y.answers)) /\ y.scope \in Nat
           /\ \A x \in Range(y.answers) : x.type \in DOMAIN Lifetime
    BY ServingAssumption, Zenon DEF IInv, W
  <1> HIDE DEF f, reply
  <1>9. /\ reply.answers \in Seq(Range(reply.answers)) /\ reply.scope \in Nat
        /\ \A x \in Range(reply.answers) : x.type \in DOMAIN Lifetime
    BY <1>1, <1>5, <1>7, <1>8, Zenon
  <1> QED BY <1>9 DEF IsList, reply

LEMMA SetOfListed ==
    ASSUME NEW answers, IsList(answers), NEW k
    PROVE  IsList(SetOf(answers, k))
  <1> DEFINE at == {i \in DOMAIN answers : answers[i].name = k.name /\ answers[i].type = k.type}
             s == SetOf(answers, k)
  <1>1. DOMAIN answers = 1 .. Len(answers) /\ Len(answers) \in Nat
    BY ListSize
  <1>2. IsFiniteSet(at)
    <2>1. IsFiniteSet(1 .. Len(answers))
      BY <1>1, FS_Interval
    <2>2. at \subseteq 1 .. Len(answers)
      BY <1>1
    <2> HIDE DEF at
    <2> QED BY <2>1, <2>2, FS_Subset
  <1>3. Cardinality(at) \in Nat
    BY <1>2, FS_CardinalityType
  <1>4. DOMAIN s = 1 .. Cardinality(at)
    BY DEF SetOf
  <1>5. s = [j \in 1 .. Cardinality(at) |-> s[j]]
    BY DEF SetOf
  <1> HIDE DEF s, at
  <1>6. IsList(s)
    BY <1>3, <1>4, <1>5, Listed
  <1> QED BY <1>6 DEF s

(* cache_resolution files under the partition the records were computed for. *)
LEMMA FiledWell ==
    ASSUME IInv, NEW t \in Threads, thr[t].pc = "store"
    PROVE  LET new == cache_resolution(thr[t], thr[t].kept[1].reply)
           IN  \A k \in DOMAIN new : new[k].net = k.part /\ IsList(new[k].data) /\ new[k].expires \in Nat
  <1> DEFINE r == thr[t]
             reply == r.kept[1].reply
             part == answer_partition(r.q.part, reply.scope)
             net == Declared(r.q.part, reply.scope)
             negative == IF reply.rcode = "NXDOMAIN" THEN part # Global ELSE reply.answers = <<>>
             named == {[name |-> x.name, type |-> x.type, part |-> part] : x \in Range(reply.answers)}
             asked == IF negative THEN {[r.q EXCEPT !.part = part]} ELSE {}
             new == cache_resolution(r, reply)
  <1>1. /\ r.at \in Nat /\ r.q.type \in DOMAIN Lifetime
        /\ r.q = [name |-> r.q.name, type |-> r.q.type, part |-> r.q.part]
    BY QuestionTyped
  <1>2. IsList(reply.answers) /\ \A x \in Range(reply.answers) : x.type \in DOMAIN Lifetime
    BY KeptIsReply
  <1>3. Lifetime \in [DOMAIN Lifetime -> Nat]
    BY ServingAssumption
  <1>4. net = part
    BY KeptIsReply, QuestionTyped, NetworksAround
  <1>5. DOMAIN new = named \union asked
    BY DEF cache_resolution
  <1>6. ASSUME NEW k \in DOMAIN new
        PROVE  new[k].net = net /\ new[k].data = SetOf(reply.answers, k) /\ new[k].expires = r.at + Lifetime[k.type]
    BY <1>6 DEF cache_resolution
  <1> HIDE DEF new, net, part, reply
  <1>7. \A k \in named : k.part = part /\ k.type \in DOMAIN Lifetime
    BY <1>2
  <1>8. \A k \in asked : k.part = part /\ k.type \in DOMAIN Lifetime
    <2>1. [r.q EXCEPT !.part = part].part = part /\ [r.q EXCEPT !.part = part].type = r.q.type
      BY <1>1
    <2> QED BY <1>1, <2>1
  <1> HIDE DEF named, asked
  <1>9. ASSUME NEW k \in DOMAIN new
        PROVE  new[k].net = k.part /\ IsList(new[k].data) /\ new[k].expires \in Nat
    <2>1. k.part = part /\ k.type \in DOMAIN Lifetime
      BY <1>5, <1>7, <1>8
    <2>2. new[k].net = k.part
      BY <1>4, <1>6, <2>1
    <2>3. IsList(new[k].data)
      BY <1>2, <1>6, SetOfListed
    <2>4. new[k].expires \in Nat
      <3>1. Lifetime[k.type] \in Nat
        BY <1>3, <2>1
      <3> QED BY <1>1, <1>6, <3>1
    <2> QED BY <2>2, <2>3, <2>4
  <1> QED BY <1>9 DEF new, reply

LEMMA StoreKeeps ==
    ASSUME IInv, NEW t \in Threads, Store(t)
    PROVE  IInv'
  <1> DEFINE r == thr[t]
             reply == r.kept[1].reply
             new == cache_resolution(r, reply)
             o == response_to_resolution(r, reply)
             x == [r EXCEPT !.pc = "done", !.out = o]
  <1>1. /\ r.pc = "store" /\ cache' = Merged(cache, new) /\ Become(t, x)
        /\ UNCHANGED <<world, clock, sets, debts, charges>>
    BY DEF Store, Finish
  <1>2. Good(W, sets, r) /\ DOMAIN r = Fields
    BY <1>1, QuestionTyped
  <1>3. CacheInv'
    <2>1. \A k \in DOMAIN new : new[k].net = k.part /\ IsList(new[k].data) /\ new[k].expires \in Nat
      BY <1>1, FiledWell
    <2>2. CacheInv
      BY DEF IInv
    <2> HIDE DEF new
    <2>3. ASSUME NEW k \in DOMAIN cache'
          PROVE  cache'[k].net = k.part /\ IsList(cache'[k].data) /\ cache'[k].expires \in Nat
      <3>1. CASE k \in DOMAIN new
        <4>1. cache'[k] = new[k]
          BY <1>1, <3>1 DEF Merged
        <4> QED BY <2>1, <3>1, <4>1
      <3>2. CASE k \notin DOMAIN new
        <4>1. k \in DOMAIN cache /\ cache'[k] = cache[k]
          BY <1>1, <2>3, <3>2 DEF Merged
        <4> QED BY <2>2, <4>1 DEF CacheInv
      <3> QED BY <3>1, <3>2
    <2> QED BY <2>3, Zenon DEF CacheInv
  <1>4. /\ o.kind = "answer" /\ o.by = "net" /\ o.stale = FALSE
        /\ DOMAIN o.answers = DOMAIN reply.answers
        /\ \A i \in DOMAIN reply.answers :
              /\ o.answers[i].net \in Enclosing(r.q.part)
              /\ o.answers[i].type = reply.answers[i].type /\ o.answers[i].data = reply.answers[i].data
    <2>1. Declared(r.q.part, reply.scope) \in Enclosing(r.q.part)
      BY <1>1, KeptIsReply, QuestionTyped, NetworksAround
    <2> QED BY <2>1 DEF response_to_resolution, Rec
  <1> HIDE DEF o, new
  <1>5. /\ DOMAIN x = Fields /\ x.pc = "done" /\ x.out = o /\ x.q = r.q /\ x.at = r.at /\ x.set = r.set
        /\ x.answers = r.answers /\ x.failed = r.failed /\ x.phase = r.phase /\ x.via = r.via
        /\ x.kept = r.kept
    BY <1>2 DEF Fields
  <1> HIDE DEF x
  <1>6. Asked(W, x) /\ Identified(sets, x)
    BY <1>1, <1>2, <1>5 DEF Good, Asked, Identified
  <1>7. OwnNet(x)
    BY <1>2, <1>4, <1>5 DEF Good, OwnNet
  <1>8. Linked(x)
    BY <1>4, <1>5 DEF Linked, StaleIsFresh
  <1>9. Grouped(W, x)
    <2>1. Counts(r) /\ Settled(W, r)
      BY <1>1, <1>2 DEF Good, Grouped
    <2>2. Counts(x)
      BY <1>5, <2>1 DEF Counts
    <2>3. \A phase : KeptFrom(W, r, phase) => KeptFrom(W, x, phase)
      BY <1>5, Zenon DEF KeptFrom, GroupOf
    <2>4. Settled(W, x)
      BY <1>5, <2>1, <2>3 DEF Settled
    <2> QED BY <1>4, <1>5, <2>2, <2>4 DEF Grouped
  <1>10. Good(W, sets, x)
    BY <1>6, <1>7, <1>8, <1>9 DEF Good
  <1>11. DOMAIN thr' = Threads /\ \A u \in Threads : Good(W', sets', thr'[u])
    BY <1>1, <1>10, ThreadMoves
  <1>12. (SetsInv /\ LedgerInv /\ RiskWindow)'
    BY <1>1 DEF IInv, SetsInv, LedgerInv, RiskWindow
  <1>13. (world \in DOMAIN Worlds /\ clock \in Nat)'
    BY <1>1 DEF IInv
  <1> QED BY <1>3, <1>11, <1>12, <1>13 DEF IInv

-----------------------------------------------------------------------------
(* The invariant holds in every state *)

LEMMA SetRootsKeeps ==
    ASSUME IInv, NEW verify, SetRoots(verify)
    PROVE  IInv'
  <1> DEFINE e == NewSet(verify)
             A == Range(sets) \union {e}
             n == Len(sets)
  <1>1. sets' = Append(sets, e) /\ UNCHANGED <<world, clock, cache, debts, charges, thr>>
    BY DEF SetRoots
  <1>2. DOMAIN e = {"verify", "pool"} /\ DOMAIN e.pool = {}
    BY DEF NewSet
  <1>3. /\ IsList(sets) /\ sets # <<>>
        /\ \A i \in DOMAIN sets : /\ DOMAIN sets[i] = {"verify", "pool"}
                                  /\ \A k \in DOMAIN sets[i].pool : sets[i].pool[k] = ForKey(k, sets[i].verify)
    BY DEF IInv, SetsInv
  <1>4. sets \in Seq(A) /\ e \in A
    BY <1>3 DEF IsList
  <1> HIDE DEF e, A
  <1>5. /\ sets' \in Seq(A) /\ DOMAIN sets' = 1 .. n + 1 /\ sets'[n + 1] = e /\ n \in Nat
        /\ DOMAIN sets = 1 .. n /\ \A i \in DOMAIN sets : i \in DOMAIN sets' /\ sets'[i] = sets[i]
    BY <1>1, <1>4
  <1>6. IsList(sets') /\ sets' # <<>>
    BY <1>5, SeqIsList
  <1>7. \A i \in DOMAIN sets' : /\ DOMAIN sets'[i] = {"verify", "pool"}
                                /\ \A k \in DOMAIN sets'[i].pool : sets'[i].pool[k] = ForKey(k, sets'[i].verify)
    <2> TAKE i \in DOMAIN sets'
    <2>1. CASE i = n + 1
      BY <1>2, <1>5, <2>1
    <2>2. CASE i # n + 1
      <3>1. i \in DOMAIN sets /\ sets'[i] = sets[i]
        BY <1>5, <2>2
      <3> QED BY <1>3, <3>1
    <2> QED BY <2>1, <2>2
  <1>8. SetsInv'
    BY <1>6, <1>7, Zenon DEF SetsInv
  <1>9. W' = W
    BY <1>1 DEF W
  <1>10. \A u \in Threads : Good(W, sets', thr[u])
    <2>1. \A u \in Threads : Good(W, sets, thr[u])
      BY DEF IInv
    <2>2. DOMAIN sets \subseteq DOMAIN sets' /\ \A i \in DOMAIN sets : sets'[i].verify = sets[i].verify
      BY <1>5
    <2> QED BY <2>1, <2>2, SetsMove
  <1>11. DOMAIN thr' = Threads /\ \A u \in Threads : Good(W', sets', thr'[u])
    BY <1>1, <1>9, <1>10 DEF IInv
  <1>12. (CacheInv /\ LedgerInv /\ RiskWindow)'
    BY <1>1 DEF IInv, CacheInv, LedgerInv, RiskWindow
  <1>13. (world \in DOMAIN Worlds /\ clock \in Nat)'
    BY <1>1 DEF IInv
  <1> QED BY <1>8, <1>11, <1>12, <1>13 DEF IInv

(* A step that leaves everything but the clock, the pool and the counters. *)
LEMMA NothingMoves ==
    ASSUME IInv, UNCHANGED <<world, cache, sets, debts, charges, thr>>, clock' \in Nat
    PROVE  IInv'
  <1>1. W' = W
    BY DEF W
  <1>2. DOMAIN thr' = Threads /\ \A u \in Threads : Good(W', sets', thr'[u])
    BY <1>1 DEF IInv
  <1>3. (CacheInv /\ SetsInv /\ LedgerInv /\ RiskWindow)'
    BY DEF IInv, CacheInv, SetsInv, LedgerInv, RiskWindow
  <1> QED BY <1>2, <1>3 DEF IInv

LEMMA InvStart == ASSUME Init PROVE IInv
  <1>1. world \in DOMAIN Worlds /\ clock = 0 /\ cache = <<>> /\ sets = <<NewSet(FALSE)>>
        /\ debts = EmptyLedger /\ charges = <<>> /\ thr = [t \in Threads |-> Resting]
    BY DEF Init
  <1>2. CacheInv
    BY <1>1 DEF CacheInv
  <1>3. SetsInv
    <2> DEFINE e == NewSet(FALSE)
    <2>1. DOMAIN e = {"verify", "pool"} /\ DOMAIN e.pool = {}
      BY DEF NewSet
    <2>2. sets = <<e>>
      BY <1>1
    <2> HIDE DEF e
    <2>3. sets \in Seq({e}) /\ DOMAIN sets = {1} /\ sets[1] = e /\ sets # <<>>
      BY <2>2
    <2>4. IsList(sets)
      BY <2>3, SeqIsList
    <2> QED BY <2>1, <2>3, <2>4 DEF SetsInv
  <1>4. LedgerInv /\ RiskWindow
    BY <1>1, RiskAssumption DEF LedgerInv, RiskWindow, EmptyLedger
  <1>5. Good(W, sets, Resting)
    <2> DEFINE r == Resting
    <2>1. /\ DOMAIN r = Fields /\ r.pc = "idle" /\ r.at = 0 /\ r.set = 1 /\ r.answers = <<>> /\ r.out = NoOut
          /\ r.phase = "primary" /\ r.via = <<>> /\ r.failed = [primary |-> 0, fallback |-> 0]
      BY DEF Resting, Fields
    <2> HIDE DEF r
    <2>2. Asked(W, r) /\ OwnNet(r) /\ Linked(r) /\ Grouped(W, r)
      <3>1. Asked(W, r)
        BY <2>1 DEF Asked
      <3>2. OwnNet(r)
        BY <2>1 DEF OwnNet, IsList, NoOut
      <3>3. Linked(r)
        BY <2>1 DEF Linked
      <3>4. Grouped(W, r)
        BY <2>1 DEF Grouped, Counts
      <3> QED BY <3>1, <3>2, <3>3, <3>4
    <2>3. Identified(sets, r)
      BY <1>1, <2>1 DEF Identified
    <2> QED BY <2>2, <2>3 DEF Good, r
  <1> QED BY <1>1, <1>2, <1>3, <1>4, <1>5 DEF IInv

LEMMA InvStep == ASSUME IInv, [Next]_vars PROVE IInv'
  <1>1. CASE \E t \in Threads : Step(t)
    BY <1>1, LookupKeeps, AliasKeeps, DecideKeeps, RouteKeeps, ExchangeKeeps, StoreKeeps DEF Step
  <1>2. CASE \E t \in Threads, q \in W.questions : Ask(t, q)
    BY <1>2, AskKeeps
  <1>3. CASE SetRoots(TRUE)
    BY <1>3, SetRootsKeeps
  <1>4. CASE Tick
    <2>1. clock' \in Nat
      BY <1>4 DEF Tick, IInv
    <2> QED BY <1>4, <2>1, NothingMoves DEF Tick
  <1>5. CASE UNCHANGED vars
    <2>1. clock' \in Nat
      BY <1>5 DEF vars, IInv
    <2> QED BY <1>5, <2>1, NothingMoves DEF vars
  <1> QED BY <1>1, <1>2, <1>3, <1>4, <1>5, Zenon DEF Next

LEMMA InvAlways == Spec => []IInv
  <1>1. Init => IInv
    BY InvStart
  <1>2. IInv /\ [Next]_vars => IInv'
    BY InvStep
  <1> QED BY <1>1, <1>2, PTL DEF Spec

-----------------------------------------------------------------------------
(* What the invariant gives *)

(* The first rule that matches is one of the most specific that do. *)
LEMMA PrimarySpeaks ==
    ASSUME IInv, NEW n
    PROVE  Primary(W, n) \in Speaks(n)
  <1> DEFINE R == W.rules.rules
             I == {i \in DOMAIN R : matches(R[i].pat, n)}
             id == route(W.rules, n)
             hits == {e \in Range(R) : matches(e.pat, n)}
             best == {e \in hits : \A o \in hits : specificity(o.pat) <= specificity(e.pat)}
             default == IF W.groups[0] # <<>> THEN W.groups[0] ELSE <<Walker>>
             owned(e) == IF e.group \in DOMAIN W.groups /\ W.groups[e.group] # <<>>
                         THEN W.groups[e.group] ELSE default
  <1>1. /\ DOMAIN R \subseteq Nat /\ Default \notin DOMAIN W.groups
        /\ \A i, j \in DOMAIN R : i <= j => specificity(R[j].pat) <= specificity(R[i].pat)
    BY ServingAssumption DEF IInv, W
  <1>2. Forced(n) = InForce(W, n)
    BY Zenon DEF Forced, InForce, has_fallback
  <1>3. Speaks(n) = IF Forced(n) THEN {W.groups[1]} ELSE IF hits = {} THEN {default} ELSE {owned(e) : e \in best}
    BY DEF Speaks
  <1>4. id = IF I = {} THEN Default ELSE R[Min(I)].group
    BY DEF route
  <1>5. Primary(W, n) = IF InForce(W, n) THEN W.groups[1]
                        ELSE IF id \in DOMAIN W.groups /\ W.groups[id] # <<>> THEN W.groups[id] ELSE default
    BY DEF Primary
  <1>6. \A e \in hits : \E i \in I : e = R[i]
    BY DEF Range
  <1>7. \A i \in I : R[i] \in hits
    BY DEF Range
  <1>8. I \in SUBSET Nat
    BY <1>1
  <1>9. CASE InForce(W, n)
    BY <1>2, <1>3, <1>5, <1>9
  <1>10. CASE ~InForce(W, n) /\ I = {}
    <2>1. hits = {}
      BY <1>6, <1>10
    <2>2. id = Default
      BY <1>4, <1>10
    <2> HIDE DEF hits, id, default, best, owned
    <2>3. Primary(W, n) = default
      BY <1>1, <1>5, <1>10, <2>2
    <2>4. Speaks(n) = {default}
      BY <1>2, <1>3, <1>10, <2>1
    <2> QED BY <2>3, <2>4
  <1>11. CASE ~InForce(W, n) /\ I # {}
    <2> DEFINE m == Min(I)
               e == R[m]
    <2>1. m \in I /\ \A j \in I : m <= j
      BY <1>8, <1>11, MinIsLeast
    <2> HIDE DEF m
    <2>2. \A j \in I : specificity(R[j].pat) <= specificity(e.pat)
      BY <1>1, <2>1
    <2> HIDE DEF I
    <2>3. e \in best
      BY <1>6, <1>7, <2>1, <2>2
    <2>4. Primary(W, n) = owned(e)
      <3>1. id = e.group
        BY <1>4, <1>11 DEF m
      <3> HIDE DEF id, e, default
      <3> QED BY <1>5, <1>11, <3>1
    <2>5. hits # {}
      BY <1>7, <2>1
    <2> HIDE DEF hits, default, best, owned, e
    <2>6. Speaks(n) = {owned(o) : o \in best}
      BY <1>2, <1>3, <1>11, <2>5
    <2> QED BY <2>3, <2>4, <2>6
  <1> QED BY <1>9, <1>10, <1>11

(* Over any stretch of the ledger's time the stale answers that were admitted
   cost at most the capacity and what the budget grants meanwhile (RiskLedger
   of risk.rs), whatever the threads, the chains and the parameters. *)
THEOREM StaleRiskIsBudgeted == Spec => []RiskWindow
  <1>1. IInv => RiskWindow
    BY DEF IInv
  <1> QED BY <1>1, InvAlways, PTL

(* An expired answer is served only if every member of its chain meets the
   freshness, the age and the evidence its strictest class demands
   (resolve_from_cache, Provenance::push and the planner), for chains of any
   length and provenance sets of any capacity. *)
THEOREM StaleByWeakestLink == Spec => []WeakestLink
  <1>1. IInv => WeakestLink
    <2> SUFFICES ASSUME IInv, NEW t \in Done, thr[t].out.stale
                 PROVE  LET hops == thr[t].hops
                            class == Max({hops[i].class : i \in DOMAIN hops})
                        IN  /\ \A i \in DOMAIN hops : hops[i].fresh >= min_freshness(class)
                            /\ \A s \in thr[t].stale : s.evidence /\ s.age <= StaleHorizon[class]
      BY Zenon DEF WeakestLink
    <2>1. StaleIsFresh(thr[t])
      BY DEF IInv, Good, Linked, Done
    <2> QED BY <2>1, Zenon DEF StaleIsFresh
  <1> QED BY <1>1, InvAlways, PTL

(* An address the filter calls bogus reaches a client only from the fallback
   servers, or when all of them failed, or when there are none
   (forward_resolve of resolver.rs), for any filter, groups and replies. *)
THEOREM BogusIsGated == Spec => []PoisonGate
  <1>1. IInv => PoisonGate
    <2> SUFFICES ASSUME IInv, NEW t \in Done, thr[t].out.by = "net", thr[t].kept[1].f # Walker,
                        ~(thr[t].kept[1].f \in Range(W.groups[1])),
                        ~(thr[t].failed.fallback = Len(W.groups[1])),
                        NEW i \in DOMAIN thr[t].out.answers, thr[t].out.answers[i].type \in DOMAIN Family
                 PROVE  ~looks_poisoned(W.bogus, {thr[t].out.answers[i].data})
      BY Zenon DEF PoisonGate
    <2> DEFINE r == thr[t]
               reply == r.kept[1].reply
               g == W.groups[1]
    <2>1. Grouped(W, r) /\ r.pc = "done"
      BY DEF IInv, Good, Done
    <2>2. /\ Counts(r) /\ Settled(W, r) /\ i \in DOMAIN reply.answers
          /\ r.out.answers[i].type = reply.answers[i].type /\ r.out.answers[i].data = reply.answers[i].data
      BY <2>1 DEF Grouped
    <2>3. \A phase \in {"primary", "fallback"} : KeptFrom(W, r, phase) => GroupOf(W, r, phase) # g
      <3> SUFFICES ASSUME NEW phase \in {"primary", "fallback"}, KeptFrom(W, r, phase), GroupOf(W, r, phase) = g
                   PROVE  FALSE
        OBVIOUS
      <3>1. r.failed[phase] \in Nat /\ r.failed[phase] < Len(g) /\ r.kept[1].f = g[r.failed[phase] + 1]
        BY <2>2 DEF Counts, KeptFrom
      <3>2. Len(g) \in Nat /\ DOMAIN g = 1 .. Len(g)
        BY PrimaryListed, ListSize
      <3>3. r.failed[phase] + 1 \in DOMAIN g
        BY <3>1, <3>2
      <3> QED BY <3>1, <3>3 DEF Range
    <2>4. ~KeptFrom(W, r, "fallback")
      BY <2>3 DEF GroupOf
    <2>5. r.phase = "primary" /\ KeptFrom(W, r, "primary") /\ r.failed.fallback = 0
      BY <2>2, <2>4 DEF Settled, Counts
    <2>6. ~InForce(W, r.q.name)
      BY <2>3, <2>5 DEF GroupOf, Primary
    <2>7. g # <<>>
      BY <2>5
    <2>8. ~BogusReply(W, reply)
      BY <2>2, <2>5, <2>6, <2>7 DEF Settled
    <2>9. reply.answers[i] \in Range(reply.answers)
      BY <2>2 DEF Range
    <2>10. reply.answers[i].data \in answer_addresses(reply)
      BY <2>2, <2>9 DEF answer_addresses
    <2> QED BY <2>2, <2>8, <2>10 DEF BogusReply, looks_poisoned
  <1> QED BY <1>1, InvAlways, PTL

(* A question is answered by the group that speaks for its name, or by the
   fallback group behind it; a server is passed over only if it failed, and an
   error means that the whole group did (NameserverPolicy::route and
   forward_once), for any rules and groups, also overlapping ones. *)
THEOREM RightGroupAnswers == Spec => []RightGroup
  <1>1. IInv => RightGroup
    <2> SUFFICES ASSUME IInv, NEW t \in Done
                 PROVE  \E g \in Speaks(thr[t].q.name) :
                           /\ thr[t].out.kind = "error" => thr[t].failed.primary = Len(g)
                           /\ thr[t].out.by = "net" =>
                                 /\ thr[t].failed.primary < Len(g)
                                 /\ \E phase \in {"primary", "fallback"} :
                                       LET h == IF phase = "primary" THEN g ELSE W.groups[1]
                                           n == thr[t].failed[phase]
                                       IN  n < Len(h) /\ thr[t].kept[1].f = h[n + 1]
      BY Zenon DEF RightGroup
    <2> DEFINE r == thr[t]
               g == Primary(W, r.q.name)
    <2>1. Grouped(W, r) /\ r.pc = "done"
      BY DEF IInv, Good, Done
    <2>2. g \in Speaks(r.q.name)
      BY PrimarySpeaks
    <2>3. r.out.kind = "error" => r.failed.primary = Len(g)
      BY <2>1 DEF Grouped
    <2>4. ASSUME r.out.by = "net"
          PROVE  /\ r.failed.primary < Len(g)
                 /\ \E phase \in {"primary", "fallback"} :
                       LET h == IF phase = "primary" THEN g ELSE W.groups[1]
                           n == r.failed[phase]
                       IN  n < Len(h) /\ r.kept[1].f = h[n + 1]
      <3>1. Counts(r) /\ Settled(W, r)
        BY <2>1, <2>4 DEF Grouped
      <3>2. PICK phase \in {"primary", "fallback"} : KeptFrom(W, r, phase)
        BY <3>1 DEF Settled, Counts
      <3>3. /\ r.failed[phase] < Len(GroupOf(W, r, phase))
            /\ r.kept[1].f = GroupOf(W, r, phase)[r.failed[phase] + 1]
        BY <3>2 DEF KeptFrom
      <3>4. GroupOf(W, r, phase) = IF phase = "primary" THEN g ELSE W.groups[1]
        BY DEF GroupOf
      <3>5. r.failed.primary < Len(g)
        BY <3>1 DEF Settled
      <3> QED BY <3>3, <3>4, <3>5
    <2> QED BY <2>2, <2>3, <2>4, Zenon
  <1> QED BY <1>1, InvAlways, PTL

(* A server is spoken to through a transport built for its own TLS name and
   path, with the verification of the roots in force when the exchange began
   (pooled_transport, set_forwarder_roots). *)
THEOREM TransportsKeepIdentity == Spec => []IdentityKept
  <1>1. IInv => IdentityKept
    BY DEF IInv, Good, Identified, IdentityKept
  <1> QED BY <1>1, InvAlways, PTL

(* An answer declared valid for one network is given only to clients inside it,
   directly or through the cache (answer_partition, cache_resolution and the walk
   over the broader partitions). *)
THEOREM NetworksStayApart == Spec => []ScopeRespected
  <1>1. IInv => ScopeRespected
    BY DEF IInv, Good, OwnNet, ScopeRespected, Done
  <1> QED BY <1>1, InvAlways, PTL
=============================================================================
