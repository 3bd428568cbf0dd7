----------------------------- MODULE WalkProofs -----------------------------
(***************************************************************************)
(* Machine-checked proofs about Walk, for any names, referrals, limits,    *)
(* timeouts and depth of nesting: the work budget bounds a whole           *)
(* resolution, at most one query is begun after its deadline, and every    *)
(* step uses up some of a bounded number of steps.                         *)
(***************************************************************************)
EXTENDS Walk, FiniteSetTheorems, TLAPS

(* What WalkTypeOK says of the walk f at depth d. *)
FrameOK(f, d) ==
    /\ f \in Frame
    /\ f.tried <= f.servers
    /\ f.pc # "query" => f.tried = 0
    /\ f.pc \in {"ns", "host"} => d < MaxNsDepth

LEMMA LimitsAreNat ==
    /\ MaxNsDepth \in Nat /\ MaxServers \in Nat \ {0} /\ MaxAttempts \in Nat
    /\ MaxDelegations \in Nat /\ MaxLookups \in Nat /\ MaxSubqueries \in Nat
    /\ MaxBytes \in Nat /\ MaxTotal \in Nat
    /\ Timeout \in Nat \ {0} /\ QueryBudget \in Nat /\ Past \in Nat /\ Waits \in Nat \ {0}
<1>1. QueryBudget \in Nat
  BY WalkAssumption
<1>2. Past \in Nat
  BY <1>1 DEF Past
<1> QED BY <1>2, WalkAssumption

(* The parts of the state that describe the walks. *)
Walks == top \in Depths /\ outcome \in {"running", "answer", "negative", "error"}
         /\ frame \in [Depths -> Frame]
         /\ \A d \in Depths : FrameOK(frame[d], d) /\ (d < top => Nesting(frame[d]))

(* A walk begins well-formed. *)
LEMMA FreshOK ==
    ASSUME NEW n \in Names, NEW d \in Depths
    PROVE  FrameOK(Fresh(n), d)
<1>1. <<>> \in Seq(STRING) /\ <<>> \in Seq(Names) /\ <<>> \in Names /\ Roots \in Nat \ {0}
  BY WalkAssumption
<1> QED BY <1>1 DEF FrameOK, Fresh, Frame

(* Replacing the walk under way by a well-formed one. *)
LEMMA BecomesOK ==
    ASSUME Walks, NEW f, FrameOK(f, top), Becomes(f)
    PROVE  Walks'
<1>1. top' = top /\ outcome' = outcome /\ frame' = [frame EXCEPT ![top] = f]
  BY DEF Becomes
<1>2. frame' \in [Depths -> Frame]
  BY <1>1 DEF Walks, FrameOK
<1>3. ASSUME NEW d \in Depths
      PROVE  FrameOK(frame'[d], d) /\ (d < top' => Nesting(frame'[d]))
  <2>1. CASE d = top
    BY <1>1, <2>1 DEF Walks, Depths
  <2>2. CASE d # top
    BY <1>1, <2>2 DEF Walks
  <2> QED BY <2>1, <2>2
<1> QED BY <1>1, <1>2, <1>3 DEF Walks, FrameOK

(* What the level above makes of a finished walk is well-formed. *)
LEMMA LookedOK ==
    ASSUME NEW f, NEW d \in Depths, FrameOK(f, d), NEW found \in BOOLEAN, f.pc \in {"ns", "host"}
    PROVE  FrameOK(Looked(f, found), d)
<1>1. f \in Frame /\ f.tried = 0 /\ d < MaxNsDepth /\ f.servers \in Nat /\ f.addrs + 1 \in Nat
  BY DEF FrameOK, Frame
<1>2. FrameOK([f EXCEPT !.pc = "ns", !.addrs = @ + 1], d)
  BY <1>1 DEF FrameOK, Frame
<1>3. FrameOK([f EXCEPT !.pc = "host", !.rtype = "AAAA"], d)
  BY <1>1 DEF FrameOK, Frame
<1>4. FrameOK([f EXCEPT !.pc = "ns"], d)
  BY <1>1 DEF FrameOK, Frame
<1> QED BY <1>2, <1>3, <1>4 DEF Looked

(* A walk that ends leaves the others well-formed. *)
LEMMA ReturnOK ==
    ASSUME Walks, NEW result \in {"answer", "negative", "error"}, Return(result)
    PROVE  Walks'
<1>1. CASE top = 0
  BY <1>1 DEF Return, Walks, FrameOK
<1>2. CASE top # 0
  <2>1. top - 1 \in Depths /\ top - 1 < top /\ top - 1 < MaxNsDepth
    BY <1>2, LimitsAreNat DEF Walks, Depths
  <2> DEFINE g == Looked(frame[top - 1], result = "answer")
  <2>2. top' = top - 1 /\ outcome' = outcome
    BY <1>2 DEF Return
  <2>3. frame' = [frame EXCEPT ![top] = Fresh(Question), ![top - 1] = g]
    BY <1>2, <2>1 DEF Return, Walks
  <2>4. FrameOK(g, top - 1)
    BY <2>1, LookedOK DEF Walks, Nesting
  <2>5. FrameOK(Fresh(Question), top)
    BY FreshOK, WalkAssumption DEF Walks
  <2>6. frame' \in [Depths -> Frame]
    <3> HIDE DEF g
    <3> QED BY <2>1, <2>3, <2>4, <2>5 DEF Walks, FrameOK
  <2>7. ASSUME NEW d \in Depths
        PROVE  FrameOK(frame'[d], d) /\ (d < top' => Nesting(frame'[d]))
    <3> HIDE DEF g
    <3>1. CASE d = top - 1
      BY <2>1, <2>2, <2>3, <2>4, <3>1 DEF Walks, Depths
    <3>2. CASE d = top
      BY <2>1, <2>2, <2>3, <2>5, <3>2 DEF Walks, Depths
    <3>3. CASE d # top /\ d # top - 1
      BY <2>1, <2>2, <2>3, <3>3 DEF Walks, Depths
    <3> QED BY <3>1, <3>2, <3>3
  <2> QED BY <2>1, <2>2, <2>6, <2>7 DEF Walks, FrameOK
<1> QED BY <1>1, <1>2

LEMMA MeOK ==
    ASSUME Walks
    PROVE  /\ FrameOK(Me, top) /\ Me \in Frame
           /\ Me.tried \in Nat /\ Me.att \in Nat /\ Me.total \in Nat /\ Me.servers \in Nat \ {0}
           /\ Me.addrs \in Nat /\ Me.depth + 1 \in Nat /\ Me.refs + 1 \in Nat
           /\ Me.tried + 1 \in Nat /\ Me.att + 1 \in Nat /\ Me.total + 1 \in Nat
<1>1. FrameOK(Me, top)
  BY DEF Walks, Me
<1> QED BY <1>1, SMTT(30) DEF FrameOK, Frame

(* The name to ask for is a name. *)
LEMMA OneLabelMoreIsName ==
    ASSUME NEW n \in Seq(STRING), NEW z \in Seq(STRING)
    PROVE  OneLabelMore(n, z) \in Seq(STRING)
<1>1. Len(n) \in Nat /\ Len(z) \in Nat
  OBVIOUS
<1>2. CASE Len(z) < Len(n)
  <2>1. OneLabelMore(n, z) = SubSeq(n, 1, Len(z) + 1)
    BY <1>2 DEF OneLabelMore
  <2>2. Len(z) + 1 \in 0 .. Len(n)
    BY <1>1, <1>2
  <2> QED BY <2>1, <2>2
<1>3. CASE ~(Len(z) < Len(n))
  BY <1>1, <1>3 DEF OneLabelMore
<1> QED BY <1>2, <1>3

LEMMA AskOK ==
    ASSUME Walks, Ask
    PROVE  Walks'
<1> DEFINE q == IF Me.deepen THEN OneLabelMore(Me.name, Me.qname)
                ELSE IF Minimize THEN OneLabelMore(Me.name, Me.zone) ELSE Me.name
           f == [Me EXCEPT !.pc = "query", !.deepen = FALSE, !.qname = q]
<1>1. Me.pc = "loop" /\ Me.tried = 0
  BY MeOK DEF Ask, LoopGoesOn, At, FrameOK
<1>2. Me.name \in Seq(STRING) /\ Me.zone \in Seq(STRING) /\ Me.qname \in Seq(STRING)
  BY MeOK, WalkAssumption DEF Frame
<1>3. q \in Seq(STRING)
  BY <1>2, OneLabelMoreIsName
<1>4. Becomes(f)
  BY DEF Ask
<1>5. FrameOK(f, top)
  <2> HIDE DEF q
  <2> QED BY <1>1, <1>3, MeOK DEF FrameOK, Frame
<1> QED BY <1>4, <1>5, BecomesOK

(* The walk after an attempt that gave no answer. *)
LEMMA NextAttemptOK ==
    ASSUME Walks, Me.tried < ServersToTry, NEW f \in Frame,
           f.pc = "query", f.tried = Me.tried, f.servers = Me.servers
    PROVE  FrameOK(NextAttempt(f), top)
<1>1. ServersToTry \in Nat /\ ServersToTry <= f.servers
  BY MeOK, LimitsAreNat DEF ServersToTry
<1>2. f.tried + 1 \in Nat /\ f.tried + 1 <= f.servers
  BY <1>1, MeOK
<1>3. FrameOK(f, top)
  BY MeOK DEF FrameOK
<1>4. FrameOK([f EXCEPT !.tried = ServersToTry, !.att = 0], top)
  BY <1>1 DEF FrameOK, Frame
<1>5. FrameOK([f EXCEPT !.tried = @ + 1, !.att = 0], top)
  BY <1>2 DEF FrameOK, Frame
<1> QED BY <1>3, <1>4, <1>5 DEF NextAttempt

LEMMA AttemptedOK ==
    ASSUME Walks, At("query")
    PROVE  \A a \in Nat : LET f == [Attempted EXCEPT !.att = a]
                          IN  /\ f \in Frame /\ f.pc = "query"
                              /\ f.tried = Me.tried /\ f.servers = Me.servers
BY MeOK DEF Attempted, At, Frame

(* What Query does to the walks. *)
LEMMA QueryOK ==
    ASSUME Walks, Query
    PROVE  Walks'
<1>1. CASE NobodyAnswered \/ OutOfSubqueries \/ \E d \in Durations : OutOfBytes(d)
  <2>1. Return("error")
    BY <1>1 DEF NobodyAnswered, OutOfSubqueries, OutOfBytes
  <2> QED BY <2>1, ReturnOK
<1>2. ASSUME NEW a \in Nat, MayAttempt, Becomes(NextAttempt([Attempted EXCEPT !.att = a]))
      PROVE  Walks'
  <2>1. FrameOK(NextAttempt([Attempted EXCEPT !.att = a]), top)
    BY <1>2, AttemptedOK, NextAttemptOK DEF MayAttempt
  <2> QED BY <1>2, <2>1, BecomesOK
<1>3. CASE TooLate
  BY <1>2, <1>3, LimitsAreNat DEF TooLate
<1>4. ASSUME MayAttempt, Becomes(NextAttempt(Attempted))
      PROVE  Walks'
  <2>1. Attempted \in Frame /\ Attempted.pc = "query" /\ Attempted.tried = Me.tried
        /\ Attempted.servers = Me.servers
    BY <1>4, MeOK DEF MayAttempt, Attempted, At, Frame
  <2>2. FrameOK(NextAttempt(Attempted), top)
    BY <1>4, <2>1, NextAttemptOK DEF MayAttempt
  <2> QED BY <1>4, <2>2, BecomesOK
<1>5. CASE \E d \in Durations : NoReply(d) \/ UselessReply(1, d, 0)
  BY <1>4, <1>5 DEF NoReply, UselessReply, Exchange
<1>6. CASE \E d, e \in Durations : UselessReply(2, d, e)
  BY <1>4, <1>6 DEF UselessReply, Exchange
<1>7. ASSUME Becomes(Answered)
      PROVE  Walks'
  <2>1. Answered \in Frame
    BY MeOK DEF Answered, Frame
  <2>2. Answered.tried = 0 /\ Answered.pc = "got" /\ Answered.servers = Me.servers
    BY MeOK DEF Answered, Frame
  <2>3. FrameOK(Answered, top)
    BY <2>1, <2>2, MeOK DEF FrameOK
  <2> QED BY <1>7, <2>3, BecomesOK
<1>8. CASE \/ \E d \in Durations : GoodReply(1, d, 0)
           \/ \E d, e \in Durations : GoodReply(2, d, e)
  BY <1>7, <1>8 DEF GoodReply
<1> QED BY <1>1, <1>3, <1>5, <1>6, <1>8 DEF Query

(* Going on for another name. *)
LEMMA ChaseOK ==
    ASSUME Walks, At("got"), NEW n \in Names, Chase(n)
    PROVE  Walks'
<1> DEFINE again == ~InZone(n, Me.zone) \/ Me.zone = <<>>
           z == IF again THEN <<>> ELSE Me.zone
           s == IF again THEN Roots ELSE Me.servers
           f == [Me EXCEPT !.pc = "loop", !.qname = <<>>, !.name = n, !.depth = @ + 1,
                           !.zone = z, !.servers = s]
<1>1. Me.pc = "got" /\ Me.tried = 0 /\ Roots \in Nat \ {0}
      /\ <<>> \in Seq(STRING) /\ <<>> \in Names
  BY MeOK, WalkAssumption DEF At, FrameOK
<1>2. Becomes(f)
  BY DEF Chase
<1>3. FrameOK(f, top)
  <2>1. z \in Names /\ s \in Nat \ {0}
    <3> HIDE DEF again
    <3> QED BY <1>1, MeOK DEF Frame
  <2> HIDE DEF z, s
  <2>2. f \in Frame
    BY <1>1, <2>1, MeOK DEF Frame
  <2>3. f.tried = 0 /\ f.pc = "loop" /\ f.servers = s
    BY <1>1, MeOK DEF Frame
  <2> HIDE DEF f
  <2> QED BY <2>1, <2>2, <2>3 DEF FrameOK
<1> QED BY <1>2, <1>3, BecomesOK

(* A walk that is not asking takes a step and stays well-formed: enough to
   look at the fields the step changes. *)
LEMMA IdleOK ==
    ASSUME Walks, NEW f \in Frame, f.tried = 0, f.pc # "query", Becomes(f),
           f.pc \in {"ns", "host"} => top < MaxNsDepth
    PROVE  Walks'
<1>1. FrameOK(f, top)
  BY DEF FrameOK, Frame
<1> QED BY <1>1, BecomesOK

LEMMA DeepenOK ==
    ASSUME Walks, At("got"), Deepen
    PROVE  Walks'
<1> DEFINE f == [Me EXCEPT !.pc = "loop", !.deepen = TRUE]
<1>1. Me.tried = 0
  BY MeOK DEF At, FrameOK
<1>2. f \in Frame /\ f.tried = 0 /\ f.pc = "loop"
  BY <1>1, MeOK DEF Frame
<1>3. Becomes(f)
  BY DEF Deepen
<1> HIDE DEF f
<1> QED BY <1>2, <1>3, IdleOK

LEMMA ReferralOK ==
    ASSUME Walks, NEW z \in Names, NEW r \in Referrals, GotReferral(z, r)
    PROVE  Walks'
<1> DEFINE f == [Me EXCEPT !.refs = @ + 1, !.zone = z, !.qname = <<>>]
           g == [f EXCEPT !.pc = "loop", !.servers = r[3]]
           h == [f EXCEPT !.pc = "ns", !.pend = r[1], !.addrs = 0]
<1>1. Me.tried = 0 /\ <<>> \in Seq(STRING) /\ r[1] \in Seq(Names) /\ r[3] \in Nat
  BY MeOK, WalkAssumption DEF GotReferral, At, FrameOK
<1>2. f \in Frame /\ f.tried = 0
  BY <1>1, MeOK DEF Frame
<1>3. Return("error") \/ (r[3] > 0 /\ Becomes(g)) \/ (top < MaxNsDepth /\ Becomes(h))
  BY DEF GotReferral
<1> HIDE DEF f
<1>4. CASE Return("error")
  BY <1>4, ReturnOK
<1>5. CASE r[3] > 0 /\ Becomes(g)
  <2>1. r[3] \in Nat \ {0}
    BY <1>1, <1>5
  <2>2. g \in Frame /\ g.tried = 0 /\ g.pc = "loop"
    BY <1>2, <2>1 DEF Frame
  <2> HIDE DEF g
  <2> QED BY <1>5, <2>2, IdleOK
<1>6. CASE top < MaxNsDepth /\ Becomes(h)
  <2>1. h \in Frame /\ h.tried = 0 /\ h.pc = "ns"
    BY <1>1, <1>2 DEF Frame
  <2> HIDE DEF h
  <2> QED BY <1>6, <2>1, IdleOK
<1> QED BY <1>3, <1>4, <1>5, <1>6

LEMMA ClassifyOK ==
    ASSUME Walks, Classify
    PROVE  Walks'
<1>1. CASE GotAnswer
  <2>1. Return("answer") \/ Return("error")
    BY <1>1 DEF GotAnswer, Finish
  <2> QED BY <2>1, ReturnOK
<1>2. CASE GotNxdomain
  BY <1>2, ReturnOK DEF GotNxdomain, Finish
<1>3. CASE GotNodata
  BY <1>3, ReturnOK, DeepenOK DEF GotNodata, Finish
<1>4. CASE GotEmpty
  BY <1>4, ReturnOK, DeepenOK DEF GotEmpty
<1>5. CASE \E n \in Names : GotCname(n)
  BY <1>5, ChaseOK DEF GotCname
<1>6. ASSUME NEW o \in Names, NEW t \in Names, GotDname(o, t)
      PROVE  Walks'
  <2> DEFINE n == t \o SubSeq(Me.name, Len(o) + 1, Len(Me.name))
  <2>1. At("got") /\ (IF n \in Names THEN Chase(n) ELSE Return("error"))
    BY <1>6 DEF GotDname
  <2> HIDE DEF n
  <2> QED BY <2>1, ChaseOK, ReturnOK
<1>7. CASE \E z \in Names, r \in Referrals : GotReferral(z, r)
  BY <1>7, ReferralOK
<1> QED BY <1>1, <1>2, <1>3, <1>4, <1>5, <1>6, <1>7 DEF Classify

LEMMA LookupOK ==
    ASSUME Walks, Lookup
    PROVE  Walks'
<1>1. CASE NsDone
  <2> DEFINE f == [Me EXCEPT !.pc = "loop", !.servers = Me.addrs, !.pend = <<>>,
                             !.host = <<>>, !.addrs = 0, !.rtype = "A"]
  <2>1. Me.tried = 0 /\ <<>> \in Seq(Names) /\ <<>> \in Names
    BY <1>1, MeOK, WalkAssumption DEF NsDone, At, FrameOK
  <2>2. Return("error") \/ (Me.addrs # 0 /\ Becomes(f))
    BY <1>1 DEF NsDone
  <2>3. ASSUME Me.addrs # 0, Becomes(f)
        PROVE  Walks'
    <3>1. f \in Frame /\ f.tried = 0 /\ f.pc = "loop"
      BY <2>1, <2>3, MeOK DEF Frame
    <3>2. Becomes(f)
      BY <2>3
    <3> HIDE DEF f
    <3> QED BY <3>1, <3>2, IdleOK
  <2> QED BY <2>2, <2>3, ReturnOK
<1>2. CASE NsNext
  <2> DEFINE f == [Me EXCEPT !.pc = "host", !.host = Head(Me.pend), !.pend = Tail(@), !.rtype = "A"]
  <2>1. Me.tried = 0 /\ top < MaxNsDepth /\ Me.pend \in Seq(Names) /\ Me.pend # <<>>
    BY <1>2, MeOK DEF NsNext, NsStops, At, FrameOK, Frame
  <2>2. Head(Me.pend) \in Names /\ Tail(Me.pend) \in Seq(Names)
    BY <2>1
  <2>3. f \in Frame /\ f.tried = 0 /\ f.pc = "host"
    BY <2>1, <2>2, MeOK DEF Frame
  <2>4. Becomes(f)
    BY <1>2 DEF NsNext
  <2> HIDE DEF f
  <2> QED BY <2>1, <2>3, <2>4, IdleOK
<1>3. ASSUME NEW found \in BOOLEAN, HostKnown(found) \/ HostForward(found)
      PROVE  Walks'
  <2>1. FrameOK(Looked(Me, found), top)
    BY <1>3, MeOK, LookedOK DEF HostKnown, HostForward, At, Walks
  <2> QED BY <1>3, <2>1, BecomesOK DEF HostKnown, HostForward
<1>5. ASSUME NEW found \in BOOLEAN, HostPinned(found)
      PROVE  Walks'
  <2> DEFINE n == IF found THEN Me.addrs + 1 ELSE Me.addrs
             f == [Me EXCEPT !.pc = "ns", !.addrs = n]
  <2>1. Me.tried = 0 /\ top < MaxNsDepth /\ n \in Nat
    BY <1>5, MeOK DEF HostPinned, At, FrameOK
  <2> HIDE DEF n
  <2>2. f \in Frame /\ f.tried = 0 /\ f.pc = "ns"
    BY <2>1, MeOK DEF Frame
  <2>3. Becomes(f)
    BY <1>5 DEF HostPinned, n
  <2> HIDE DEF f
  <2> QED BY <2>1, <2>2, <2>3, IdleOK
<1>4. CASE HostWalk
  <2>1. Nesting(Me) /\ top < MaxNsDepth /\ Me.host \in Names
    BY <1>4, MeOK DEF HostWalk, At, FrameOK, Frame
  <2>2. top + 1 \in Depths
    BY <2>1, LimitsAreNat DEF Walks, Depths
  <2>3. FrameOK(Fresh(Me.host), top + 1)
    BY <2>1, <2>2, FreshOK
  <2>4. top' = top + 1 /\ outcome' = outcome /\ frame' = [frame EXCEPT ![top + 1] = Fresh(Me.host)]
    BY <1>4 DEF HostWalk
  <2>5. frame' \in [Depths -> Frame]
    BY <2>3, <2>4 DEF Walks, FrameOK
  <2>6. ASSUME NEW d \in Depths
        PROVE  FrameOK(frame'[d], d) /\ (d < top' => Nesting(frame'[d]))
    <3>1. CASE d = top + 1
      BY <2>2, <2>3, <2>4, <3>1 DEF Walks, Depths
    <3>2. CASE d # top + 1
      BY <2>1, <2>4, <3>2 DEF Walks, Depths, Me
    <3> QED BY <3>1, <3>2
  <2> QED BY <2>2, <2>4, <2>5, <2>6 DEF Walks, FrameOK
<1> QED BY <1>1, <1>2, <1>3, <1>4, <1>5 DEF Lookup

(* The budget and the clock. *)
Counters ==
    /\ work \in [delegations : Nat, lookups : Nat, subqueries : Nat, bytes : Nat]
    /\ elapsed \in 0 .. Past /\ sent \in Nat
    /\ work.delegations <= MaxDelegations /\ work.lookups <= MaxLookups
    /\ work.subqueries <= MaxSubqueries /\ work.bytes <= MaxBytes
    /\ sent <= 2 * work.subqueries

LEMMA ChargedOK ==
    ASSUME Counters
    PROVE  /\ Charged \in [delegations : Nat, lookups : Nat, subqueries : Nat, bytes : Nat]
           /\ Charged.delegations = work.delegations /\ Charged.lookups = work.lookups
           /\ Charged.subqueries = work.subqueries + 1 /\ Charged.bytes = work.bytes
           /\ Received \in [delegations : Nat, lookups : Nat, subqueries : Nat, bytes : Nat]
           /\ Received.delegations = work.delegations /\ Received.lookups = work.lookups
           /\ Received.subqueries = work.subqueries + 1 /\ Received.bytes = work.bytes + 1
<1>1. work.subqueries + 1 \in Nat
  BY DEF Counters
<1>2. /\ Charged \in [delegations : Nat, lookups : Nat, subqueries : Nat, bytes : Nat]
      /\ Charged.delegations = work.delegations /\ Charged.lookups = work.lookups
      /\ Charged.subqueries = work.subqueries + 1 /\ Charged.bytes = work.bytes
  BY <1>1 DEF Counters, Charged
<1>3. Charged.bytes + 1 \in Nat
  BY <1>2
<1> QED BY <1>2, <1>3 DEF Received

(* How long an exchange takes is a number of ticks, and so is the time after it. *)
LEMMA DurationsAreNat ==
    ASSUME Counters, ~Expired, NEW d \in Durations
    PROVE  d \in Nat
<1>1. AttemptTime \in Nat
  BY LimitsAreNat DEF AttemptTime, Expired, Counters
<1> QED BY <1>1, LimitsAreNat DEF Durations

LEMMA LaterFacts ==
    ASSUME NEW t \in Nat
    PROVE  Later(t) \in 0 .. Past /\ (t >= QueryBudget => Later(t) >= QueryBudget)
BY LimitsAreNat DEF Later, Past

LEMMA ExchangeOK ==
    ASSUME Counters, NEW k \in {1, 2}, NEW d \in Durations, NEW e \in Durations \cup {0},
           Exchange(k, d, e), work' = Charged \/ (work' = Received /\ work.bytes < MaxBytes)
    PROVE  Counters'
<1>1. ~Expired /\ elapsed' = Later(elapsed + d + e) /\ sent' = sent + k
      /\ work.subqueries < MaxSubqueries
  BY DEF Exchange
<1>2. elapsed' \in 0 .. Past
  <2>1. d \in Nat /\ e \in Nat /\ elapsed \in Nat
    BY <1>1, DurationsAreNat DEF Counters
  <2>2. elapsed + d + e \in Nat
    BY <2>1
  <2> QED BY <1>1, <2>2, LaterFacts
<1>3. /\ work.delegations \in Nat /\ work.lookups \in Nat
      /\ work.subqueries \in Nat /\ work.bytes \in Nat
  BY DEF Counters
<1>4. /\ work' \in [delegations : Nat, lookups : Nat, subqueries : Nat, bytes : Nat]
      /\ work'.delegations = work.delegations /\ work'.lookups = work.lookups
      /\ work'.subqueries = work.subqueries + 1
      /\ work'.bytes = work.bytes \/ (work'.bytes = work.bytes + 1 /\ work.bytes < MaxBytes)
  BY <1>3, ChargedOK DEF Counters
<1> QED BY <1>1, <1>2, <1>3, <1>4, LimitsAreNat DEF Counters

(* What the end of a walk does to the clock. *)
LEMMA FinishOK ==
    ASSUME Counters, NEW result, NEW records, Finish(result, records)
    PROVE  Counters' /\ late' = late /\ elapsed' \in elapsed .. Past
<1>1. work' = work /\ sent' = sent /\ late' = late /\ elapsed' \in elapsed .. Past
  BY LimitsAreNat DEF Finish, Counters
<1> QED BY <1>1, LimitsAreNat DEF Counters

(* The actions that only look at the budget and the clock. *)
Silent ==
    LoopStops \/ Ask \/ NobodyAnswered \/ OutOfSubqueries \/ GotEmpty \/ NsDone \/ HostWalk
    \/ (\E n \in Names : GotCname(n)) \/ (\E o, t \in Names : GotDname(o, t))
    \/ \E found \in BOOLEAN : HostPinned(found) \/ HostKnown(found)

Finishing == CachedTarget \/ GotAnswer \/ GotNxdomain \/ GotNodata
Charging == \E d \in Durations :
                NoReply(d) \/ OutOfBytes(d) \/ UselessReply(1, d, 0) \/ GoodReply(1, d, 0)
Retrying == \E d, e \in Durations : UselessReply(2, d, e) \/ GoodReply(2, d, e)
Referring == \E z \in Names, r \in Referrals : GotReferral(z, r)
Forwarding == \E found \in BOOLEAN : HostForward(found)

LEMMA NextSplit ==
    ASSUME Next
    PROVE  Silent \/ Finishing \/ TooLate \/ Charging \/ Retrying \/ Referring \/ NsNext \/ Forwarding
BY DEF Next, Query, Classify, Lookup, Silent, Finishing, Charging, Retrying, Referring, Forwarding

LEMMA SilentFacts ==
    ASSUME Silent
    PROVE  UNCHANGED Wire
BY DEF Silent, LoopStops, Ask, NobodyAnswered, OutOfSubqueries, GotEmpty, NsDone, HostWalk,
       GotCname, GotDname, HostPinned, HostKnown, Wire

(* A step that finishes a walk, or finds that the name is longer than what was
   asked. *)
LEMMA FinishingFacts ==
    ASSUME Finishing
    PROVE  \/ \E result, records : Finish(result, records)
           \/ Deepen /\ UNCHANGED Wire
BY DEF Finishing, CachedTarget, GotAnswer, GotNxdomain, GotNodata

LEMMA CountersInductive ==
    ASSUME Counters, Next
    PROVE  Counters'
<1>1. CASE UNCHANGED Wire
  BY <1>1 DEF Wire, Counters
<1>2. CASE TooLate
  <2>1. work' = Charged /\ UNCHANGED <<elapsed, sent>> /\ work.subqueries < MaxSubqueries
    BY <1>2 DEF TooLate
  <2> QED BY <2>1, ChargedOK, LimitsAreNat DEF Counters
<1>3. CASE NsNext
  <2>1. work.lookups < MaxLookups /\ UNCHANGED <<elapsed, sent>>
        /\ work' = [work EXCEPT !.lookups = @ + 1]
    BY <1>3, LimitsAreNat, SMTT(30) DEF NsNext, NsStops, Counters
  <2>2. work.lookups + 1 \in Nat
    BY DEF Counters
  <2> QED BY <2>1, <2>2, LimitsAreNat DEF Counters
<1>4. CASE Referring
  <2>1. UNCHANGED <<elapsed, sent>>
        /\ (work' = work \/ (work.delegations < MaxDelegations
                              /\ work' = [work EXCEPT !.delegations = @ + 1]))
    BY <1>4, LimitsAreNat DEF Referring, GotReferral, Counters
  <2> QED BY <2>1, LimitsAreNat DEF Counters
<1>5. CASE Charging
  <2>1. PICK d \in Durations :
             NoReply(d) \/ OutOfBytes(d) \/ UselessReply(1, d, 0) \/ GoodReply(1, d, 0)
    BY <1>5 DEF Charging
  <2>2. Exchange(1, d, 0) /\ (work' = Charged \/ (work' = Received /\ work.bytes < MaxBytes))
    BY <2>1 DEF NoReply, OutOfBytes, UselessReply, GoodReply
  <2> QED BY <2>2, ExchangeOK
<1>6. CASE Retrying
  <2>1. PICK d \in Durations, e \in Durations : UselessReply(2, d, e) \/ GoodReply(2, d, e)
    BY <1>6 DEF Retrying
  <2>2. Exchange(2, d, e) /\ work' = Received /\ work.bytes < MaxBytes
    BY <2>1 DEF UselessReply, GoodReply
  <2> QED BY <2>2, ExchangeOK
<1>7. CASE Forwarding
  <2>1. work' = work /\ sent' = sent /\ elapsed' \in elapsed .. Past
    BY <1>7 DEF Forwarding, HostForward
  <2> QED BY <2>1, LimitsAreNat DEF Counters
<1>8. CASE Finishing
  BY <1>1, <1>8, FinishingFacts, FinishOK
<1> QED BY <1>1, <1>2, <1>3, <1>4, <1>5, <1>6, <1>7, <1>8, NextSplit, SilentFacts

LEMMA WalksInductive ==
    ASSUME Walks, Next
    PROVE  Walks'
<1>1. CASE LoopStops \/ CachedTarget
  <2>1. Return("error") \/ Return("answer")
    BY <1>1 DEF LoopStops, CachedTarget, Finish
  <2> QED BY <2>1, ReturnOK
<1> QED BY <1>1, AskOK, QueryOK, ClassifyOK, LookupOK DEF Next

(* Initially nothing is spent and one walk begins. *)
LEMMA WalkStarts == Init => Walks /\ Counters
<1> SUFFICES ASSUME Init
             PROVE  Walks /\ Counters
  OBVIOUS
<1>1. Question \in Names /\ 0 \in Depths
  BY WalkAssumption, LimitsAreNat DEF Depths
<1>2. \A d \in Depths : FrameOK(Fresh(Question), d)
  BY <1>1, FreshOK
<1>3. Walks
  BY <1>1, <1>2 DEF Init, Walks, FrameOK, Depths
<1>4. Counters
  BY LimitsAreNat DEF Init, Counters
<1> QED BY <1>3, <1>4

(* What is asked after the deadline.  Only a level whose name server an upstream
   group is responsible for can still ask, and only for its second address
   type; no level below it has such a name server. *)
Clock ==
    /\ late \in {0, 1}
    /\ late = 1 => Expired
    /\ Expired /\ Me.pc = "host" /\ Me.host \in Routed \ Pinned => Me.rtype = "AAAA" /\ late = 0

(* Whoever goes on after a walk has ended has a name server to be walked for. *)
LEMMA ReturnedTo ==
    ASSUME Walks, NEW result \in {"answer", "negative", "error"}, Return(result)
    PROVE  Me' = Me \/ Me'.host \notin Routed
<1>1. CASE top = 0
  BY <1>1 DEF Return, Me
<1>2. CASE top # 0
  <2> DEFINE up == frame[top - 1]
             g == Looked(up, result = "answer")
  <2>1. top \in Depths /\ top - 1 \in Depths /\ top - 1 < top
    BY <1>2, LimitsAreNat DEF Walks, Depths
  <2>2. up \in Frame /\ up.host \notin Routed
    BY <2>1 DEF Walks, Nesting
  <2>3. Me' = g
    <3>1. top' = top - 1 /\ frame' = [frame EXCEPT ![top] = Fresh(Question), ![top - 1] = g]
      BY <1>2, <2>1 DEF Return, Walks
    <3> HIDE DEF g
    <3> QED BY <2>1, <3>1 DEF Me, Walks
  <2>4. g.host = up.host
    <3> HIDE DEF up
    <3> QED BY <2>2 DEF Looked, Frame
  <2> HIDE DEF g, up
  <2> QED BY <2>2, <2>3, <2>4
<1> QED BY <1>1, <1>2

LEMMA BecomesMe ==
    ASSUME Walks, NEW f, Becomes(f)
    PROVE  Me' = f
BY DEF Becomes, Me, Walks

(* A level that ends was not about to ask for a name server's address. *)
LEMMA ReturnClock ==
    ASSUME Walks, Counters, Counters', Clock, NEW result \in {"answer", "negative", "error"},
           Return(result), Me.pc # "host", late' \in {0, 1}, late' = 1 => Expired'
    PROVE  Clock'
BY ReturnedTo DEF Clock

LEMMA BecomesClock ==
    ASSUME Walks, Clock, NEW f, Becomes(f), f.pc # "host", late' \in {0, 1}, late' = 1 => Expired'
    PROVE  Clock'
BY BecomesMe DEF Clock

LEMMA ExchangeClock ==
    ASSUME Counters, Clock, NEW k \in {1, 2}, NEW d \in Durations, NEW e \in Durations \cup {0},
           Exchange(k, d, e)
    PROVE  late' \in {0, 1} /\ (late' = 1 => Expired')
<1>1. ~Expired /\ elapsed' = Later(elapsed + d + e) /\ late = 0
      /\ late' = Late(k = 2 /\ elapsed + d >= QueryBudget)
  BY DEF Exchange, Clock
<1>2. d \in Nat /\ e \in Nat /\ elapsed \in Nat
  BY <1>1, DurationsAreNat DEF Counters
<1>3. elapsed + d + e \in Nat /\ (elapsed + d >= QueryBudget => elapsed + d + e >= QueryBudget)
  BY <1>2, LimitsAreNat
<1>4. elapsed + d + e >= QueryBudget => Expired'
  BY <1>1, <1>3, LaterFacts DEF Expired
<1> QED BY <1>1, <1>3, <1>4 DEF Late

LEMMA QueryClock ==
    ASSUME Walks, Counters, Counters', Clock, Query
    PROVE  Clock'
<1>1. Me.pc = "query" /\ Me \in Frame
  BY MeOK DEF Query, NobodyAnswered, OutOfSubqueries, TooLate, NoReply, OutOfBytes, UselessReply,
         GoodReply, Exchange, MayAttempt, At
<1>2. Attempted.pc = "query" /\ [Attempted EXCEPT !.att = MaxAttempts].pc = "query"
  BY <1>1 DEF Attempted, Frame
<1>3. /\ NextAttempt(Attempted).pc # "host" /\ Answered.pc # "host"
      /\ NextAttempt([Attempted EXCEPT !.att = MaxAttempts]).pc # "host"
  BY <1>1, <1>2 DEF NextAttempt, Answered, Attempted, Frame
<1>4. CASE NobodyAnswered \/ OutOfSubqueries \/ TooLate
  <2>1. late' = late /\ elapsed' = elapsed
    BY <1>4 DEF NobodyAnswered, OutOfSubqueries, TooLate, Wire
  <2>2. late' \in {0, 1} /\ (late' = 1 => Expired')
    BY <2>1 DEF Clock, Expired
  <2> QED BY <1>1, <1>3, <1>4, <2>2, ReturnClock, BecomesClock
          DEF NobodyAnswered, OutOfSubqueries, TooLate
<1>5. CASE Charging \/ Retrying
  <2>1. late' \in {0, 1} /\ (late' = 1 => Expired')
    BY <1>5, ExchangeClock
    DEF Charging, Retrying, NoReply, OutOfBytes, UselessReply, GoodReply
  <2>2. Becomes(NextAttempt(Attempted)) \/ Becomes(Answered) \/ Return("error")
    BY <1>5 DEF Charging, Retrying, NoReply, OutOfBytes, UselessReply, GoodReply
  <2> QED BY <1>1, <1>3, <2>1, <2>2, ReturnClock, BecomesClock
<1> QED BY <1>4, <1>5 DEF Query, Charging, Retrying

LEMMA ClassifyClock ==
    ASSUME Walks, Counters, Counters', Clock, Classify \/ LoopStops \/ CachedTarget \/ Ask
    PROVE  Clock'
<1>1. Me.pc # "host" /\ Me \in Frame
  BY MeOK DEF Classify, GotAnswer, GotNxdomain, GotNodata, GotEmpty, GotCname, GotDname, GotReferral,
         LoopStops, CachedTarget, Ask, LoopGoesOn, At
<1>2. late' = late /\ elapsed' \in Nat /\ elapsed' >= elapsed
  <2>1. CASE Finishing
    <3>1. late' = late /\ (elapsed' = elapsed \/ elapsed' \in elapsed .. Past)
      BY <2>1, FinishingFacts, FinishOK DEF Wire
    <3> QED BY <3>1, LimitsAreNat DEF Counters
  <2>2. CASE ~Finishing
    <3>1. late' = late /\ elapsed' = elapsed
      BY <2>2 DEF Finishing, Classify, GotEmpty, GotCname, GotDname, GotReferral, LoopStops, Ask, Wire
    <3> QED BY <3>1, LimitsAreNat DEF Counters
  <2> QED BY <2>1, <2>2
<1>3. late' \in {0, 1} /\ (late' = 1 => Expired')
  BY <1>2, LimitsAreNat DEF Clock, Expired, Counters
<1>4. ASSUME NEW result \in {"answer", "negative", "error"}, Return(result)
      PROVE  Clock'
  BY <1>1, <1>3, <1>4, ReturnClock
<1>5. ASSUME NEW f, f.pc # "host", Becomes(f)
      PROVE  Clock'
  BY <1>3, <1>5, BecomesClock
<1>6. ASSUME NEW n, Chase(n) PROVE Clock'
  <2> DEFINE again == ~InZone(n, Me.zone) \/ Me.zone = <<>>
             z == IF again THEN <<>> ELSE Me.zone
             s == IF again THEN Roots ELSE Me.servers
             f == [Me EXCEPT !.pc = "loop", !.qname = <<>>, !.name = n, !.depth = @ + 1,
                             !.zone = z, !.servers = s]
  <2>1. Becomes(f)
    BY <1>6 DEF Chase
  <2> HIDE DEF z, s
  <2>2. f.pc # "host"
    BY <1>1 DEF Frame
  <2> HIDE DEF f
  <2> QED BY <1>5, <2>1, <2>2
<1>7. ASSUME Deepen PROVE Clock'
  <2>1. [Me EXCEPT !.pc = "loop", !.deepen = TRUE].pc # "host"
    BY <1>1 DEF Frame
  <2> QED BY <1>5, <1>7, <2>1 DEF Deepen
<1>8. CASE Ask
  <2> DEFINE q == IF Me.deepen THEN OneLabelMore(Me.name, Me.qname)
                  ELSE IF Minimize THEN OneLabelMore(Me.name, Me.zone) ELSE Me.name
             f == [Me EXCEPT !.pc = "query", !.deepen = FALSE, !.qname = q]
  <2>1. Becomes(f)
    BY <1>8 DEF Ask
  <2> HIDE DEF q
  <2>2. f.pc # "host"
    BY <1>1 DEF Frame
  <2> HIDE DEF f
  <2> QED BY <1>5, <2>1, <2>2
<1>9. CASE Referring
  <2>1. PICK z \in Names, r \in Referrals : GotReferral(z, r)
    BY <1>9 DEF Referring
  <2> DEFINE f == [Me EXCEPT !.refs = @ + 1, !.zone = z, !.qname = <<>>]
             g == [f EXCEPT !.pc = "loop", !.servers = r[3]]
             h == [f EXCEPT !.pc = "ns", !.pend = r[1], !.addrs = 0]
  <2>2. Return("error") \/ Becomes(g) \/ Becomes(h)
    BY <2>1 DEF GotReferral
  <2>3. g.pc # "host" /\ h.pc # "host"
    BY <1>1 DEF Frame
  <2> HIDE DEF g, h
  <2> QED BY <1>4, <1>5, <2>2, <2>3
<1>10. CASE GotAnswer \/ GotNxdomain \/ LoopStops \/ CachedTarget
  <2>1. Return("answer") \/ Return("error") \/ Return("negative")
    BY <1>10 DEF GotAnswer, GotNxdomain, LoopStops, CachedTarget, Finish
  <2> QED BY <1>4, <2>1
<1>11. CASE GotNodata \/ GotEmpty
  <2>1. Deepen \/ Return("negative") \/ Return("error")
    BY <1>11 DEF GotNodata, GotEmpty, Finish
  <2> QED BY <1>4, <1>7, <2>1
<1>12. CASE \E n \in Names : GotCname(n)
  BY <1>6, <1>12 DEF GotCname
<1>13. CASE \E o, t \in Names : GotDname(o, t)
  <2>1. (\E n : Chase(n)) \/ Return("error")
    BY <1>13 DEF GotDname
  <2> QED BY <1>4, <1>6, <2>1
<1> QED BY <1>8, <1>9, <1>10, <1>11, <1>12, <1>13 DEF Classify, Referring

LEMMA LookupClock ==
    ASSUME Walks, Counters, Counters', Clock, Lookup
    PROVE  Clock'
<1>1. Me \in Frame
  BY MeOK
<1>2. CASE NsDone
  <2> DEFINE f == [Me EXCEPT !.pc = "loop", !.servers = Me.addrs, !.pend = <<>>,
                             !.host = <<>>, !.addrs = 0, !.rtype = "A"]
  <2>1. Me.pc # "host" /\ late' = late /\ elapsed' = elapsed /\ (Return("error") \/ Becomes(f))
    BY <1>2 DEF NsDone, At, Wire
  <2>2. f.pc # "host" /\ late' \in {0, 1} /\ (late' = 1 => Expired')
    BY <1>1, <2>1 DEF Frame, Clock, Expired
  <2> HIDE DEF f
  <2> QED BY <2>1, <2>2, ReturnClock, BecomesClock
<1>3. CASE NsNext
  <2>1. ~Expired /\ late' = late /\ elapsed' = elapsed
    BY <1>3 DEF NsNext, NsStops
  <2> QED BY <2>1 DEF Clock, Expired
<1>4. CASE HostWalk
  <2>1. late' = late /\ elapsed' = elapsed /\ top + 1 = top'
        /\ frame' = [frame EXCEPT ![top + 1] = Fresh(Me.host)]
    BY <1>4 DEF HostWalk, Wire
  <2>2. top + 1 \in Depths
    BY <1>4, MeOK, LimitsAreNat DEF HostWalk, At, FrameOK, Walks, Depths
  <2>3. Me'.pc # "host"
    BY <2>1, <2>2 DEF Me, Walks, Fresh
  <2> QED BY <2>1, <2>3 DEF Clock, Expired
<1>5. ASSUME NEW found \in BOOLEAN, HostPinned(found) PROVE Clock'
  <2> DEFINE n == IF found THEN Me.addrs + 1 ELSE Me.addrs
             f == [Me EXCEPT !.pc = "ns", !.addrs = n]
  <2>1. late' = late /\ elapsed' = elapsed /\ Becomes(f)
    BY <1>5 DEF HostPinned, Wire
  <2> HIDE DEF n
  <2>2. f.pc # "host" /\ late' \in {0, 1} /\ (late' = 1 => Expired')
    BY <1>1, <2>1 DEF Frame, Clock, Expired
  <2> HIDE DEF f
  <2> QED BY <2>1, <2>2, BecomesClock
<1>6. ASSUME NEW found \in BOOLEAN, HostKnown(found) \/ HostForward(found) PROVE Clock'
  <2> DEFINE f == Looked(Me, found)
  <2>1. Becomes(f) /\ Me.pc = "host"
    BY <1>6 DEF HostKnown, HostForward, At
  <2>2. Me' = f
    BY <2>1, BecomesMe
  <2>3. f.pc = "ns" \/ (f.pc = "host" /\ f.rtype = "AAAA" /\ f.host = Me.host /\ Me.rtype = "A")
    BY <1>1 DEF Looked, Frame
  <2> HIDE DEF f
  <2>4. CASE HostKnown(found)
    <3>1. late' = late /\ elapsed' = elapsed
      BY <2>4 DEF HostKnown, Wire
    <3>2. late' \in {0, 1} /\ (late' = 1 => Expired') /\ (Expired' <=> Expired)
      BY <3>1 DEF Clock, Expired
    <3>3. CASE f.pc = "ns"
      BY <2>1, <3>2, <3>3, BecomesClock
    <3>4. CASE f.pc # "ns"
      BY <2>1, <2>2, <2>3, <3>1, <3>2, <3>4 DEF Clock
    <3> QED BY <3>3, <3>4
  <2>5. CASE HostForward(found)
    <3>1. Me.host \in Routed \ Pinned /\ late' = Late(Expired) /\ elapsed' \in elapsed .. Past
      BY <2>5 DEF HostForward
    <3>2. Expired => Expired'
      BY <3>1, LimitsAreNat DEF Expired, Counters
    <3>3. CASE Expired
      <4>1. Me.rtype = "AAAA" /\ late = 0
        BY <2>1, <3>1, <3>3 DEF Clock
      <4>2. f.pc = "ns" /\ late' = 1
        BY <2>3, <3>1, <3>3, <4>1 DEF Late
      <4> QED BY <2>1, <3>2, <3>3, <4>2, BecomesClock
    <3>4. CASE ~Expired
      <4>1. late' = 0
        BY <3>1, <3>4 DEF Late, Clock
      <4> QED BY <2>2, <2>3, <4>1 DEF Clock
    <3> QED BY <3>3, <3>4
  <2> QED BY <1>6, <2>4, <2>5
<1> QED BY <1>2, <1>3, <1>4, <1>5, <1>6 DEF Lookup

(* iterative_resolve, query_servers and FetchBudget: whatever the servers say,
   a resolution with all the walks nested in it stays within the limits on
   delegations, name-server lookups, messages and bytes, and sends at most
   two messages for each one it charges.  And attempt_timeout_ms, the checks of
   the deadline and forward_resolve: however long exchanges, forwarded lookups
   and validation take, at most one query is begun after the deadline. *)
THEOREM LimitsAreKept == Spec => []LimitsKept
<1> DEFINE Inv == Walks /\ Counters /\ Clock
<1>1. Init => Inv
  <2>1. Init => late = 0 /\ Me = Fresh(Question)
    BY WalkAssumption, LimitsAreNat DEF Init, Me, Depths
  <2>2. Init => Clock
    BY <2>1 DEF Clock, Fresh
  <2> QED BY <2>2, WalkStarts
<1>2. Inv /\ [Next]_vars => Inv'
  <2> SUFFICES ASSUME Walks, Counters, Clock, [Next]_vars
               PROVE  Walks' /\ Counters' /\ Clock'
    OBVIOUS
  <2>1. CASE Next
    <3>1. Walks' /\ Counters'
      BY <2>1, WalksInductive, CountersInductive
    <3> QED BY <2>1, <3>1, QueryClock, ClassifyClock, LookupClock DEF Next
  <2>2. CASE UNCHANGED vars
    BY <2>2 DEF vars, Walks, Counters, FrameOK, Clock, Expired, Me
  <2> QED BY <2>1, <2>2
<1>3. Inv => LimitsKept
  BY DEF Walks, Counters, Clock, LimitsKept, LateBounded, WorkBounded, WalkTypeOK, FrameOK
<1> QED BY <1>1, <1>2, <1>3, PTL DEF Spec

-----------------------------------------------------------------------------
(* How many steps a resolution takes *)

(* The levels above depth n that have another address type to try. *)
Hopeful(fr, n) == {d \in 0 .. n - 1 : fr[d].rtype = "A"}

LEMMA HopefulFacts ==
    ASSUME NEW fr, NEW n \in Nat
    PROVE  /\ IsFiniteSet(Hopeful(fr, n)) /\ Cardinality(Hopeful(fr, n)) \in Nat
           /\ Cardinality(Hopeful(fr, n + 1)) =
                  Cardinality(Hopeful(fr, n)) + (IF fr[n].rtype = "A" THEN 1 ELSE 0)
<1>1. IsFiniteSet(0 .. n - 1)
  BY FS_Interval
<1>2. IsFiniteSet(Hopeful(fr, n))
  BY <1>1, FS_Subset DEF Hopeful
<1>3. Cardinality(Hopeful(fr, n)) \in Nat
  BY <1>2, FS_CardinalityType
<1>4. CASE fr[n].rtype = "A"
  <2>1. Hopeful(fr, n + 1) = Hopeful(fr, n) \cup {n} /\ n \notin Hopeful(fr, n)
    BY <1>4 DEF Hopeful
  <2> QED BY <1>2, <1>3, <1>4, <2>1, FS_AddElement
<1>5. CASE fr[n].rtype # "A"
  <2>1. Hopeful(fr, n + 1) = Hopeful(fr, n)
    BY <1>5 DEF Hopeful
  <2> QED BY <1>2, <1>3, <1>5, <2>1
<1> QED BY <1>2, <1>3, <1>4, <1>5

(* What is charged so far leaves so much. *)
Unspent(w) == 9 * (MaxSubqueries - w.subqueries) + 9 * (MaxLookups - w.lookups)

LEMMA WeightFacts ==
    ASSUME NEW f \in Frame
    PROVE  /\ Weight(f) \in 1 .. 11
           /\ f.pc = "query" => Weight(f) = 1
           /\ f.pc = "loop" => Weight(f) = 2
           /\ f.pc = "ns" => Weight(f) = 3
           /\ f.pc = "got" => Weight(f) = 4
           /\ f.pc = "host" => Weight(f) = IF f.rtype = "A" THEN 11 ELSE 7
BY DEF Weight, Frame

LEMMA StepsFacts ==
    ASSUME Walks, Counters
    PROVE  /\ Unspent(work) \in Nat /\ Waiting \in Nat /\ top \in Nat
           /\ Waiting = 4 * top + 4 * Cardinality(Hopeful(frame, top))
           /\ outcome = "running" => StepsLeft = Unspent(work) + Waiting + Weight(Me)
           /\ StepsLeft \in Nat
<1>1. top \in Nat
  BY DEF Walks, Depths
<1>2. Waiting = 4 * top + 4 * Cardinality(Hopeful(frame, top))
  BY DEF Waiting, Hopeful
<1>3. Cardinality(Hopeful(frame, top)) \in Nat
  BY <1>1, HopefulFacts
<1>4. Waiting \in Nat
  BY <1>1, <1>2, <1>3
<1>5. Unspent(work) \in Nat
  <2>1. /\ work.subqueries \in Nat /\ work.lookups \in Nat
        /\ work.subqueries <= MaxSubqueries /\ work.lookups <= MaxLookups
    BY DEF Counters
  <2> QED BY <2>1, LimitsAreNat DEF Unspent
<1>6. Weight(Me) \in Nat
  BY MeOK, WeightFacts
<1>7. outcome = "running" => StepsLeft = Unspent(work) + Waiting + Weight(Me)
  BY DEF StepsLeft, Unspent
<1> QED BY <1>1, <1>2, <1>4, <1>5, <1>6, <1>7 DEF StepsLeft

LEMMA UnspentNext ==
    ASSUME Counters'
    PROVE  Unspent(work') \in Nat
<1>1. /\ work'.subqueries \in Nat /\ work'.lookups \in Nat
      /\ work'.subqueries <= MaxSubqueries /\ work'.lookups <= MaxLookups
  BY DEF Counters
<1> QED BY <1>1, LimitsAreNat DEF Unspent

(* A level goes on: what it weighs is what changes. *)
LEMMA BecomesCounts ==
    ASSUME Walks, Counters, Walks', Counters', outcome = "running", NEW f \in Frame, Becomes(f),
           Unspent(work') + Weight(f) < Unspent(work) + Weight(Me)
    PROVE  StepsLeft' \in 0 .. StepsLeft - 1
<1>1. top' = top /\ outcome' = "running" /\ frame' = [frame EXCEPT ![top] = f]
  BY DEF Becomes
<1>2. Me' = f
  BY <1>1 DEF Me, Walks
<1>3. Hopeful(frame', top') = Hopeful(frame, top)
  <2>1. \A d \in 0 .. top - 1 : frame'[d] = frame[d]
    BY <1>1 DEF Walks, Depths
  <2> QED BY <1>1, <2>1 DEF Hopeful
<1>4. Waiting' = Waiting
  BY <1>1, <1>3 DEF Waiting, Hopeful
<1>5. StepsLeft' = Unspent(work') + Waiting' + Weight(f)
  <2>1. outcome' = "running" => StepsLeft' = Unspent(work') + Waiting' + Weight(Me')
    BY DEF StepsLeft, Unspent
  <2> QED BY <1>1, <1>2, <2>1
<1>6. StepsLeft = Unspent(work) + Waiting + Weight(Me) /\ StepsLeft \in Nat
  BY StepsFacts
<1>7. Weight(f) \in Nat /\ Weight(Me) \in Nat /\ Waiting \in Nat /\ Unspent(work) \in Nat
  BY StepsFacts, WeightFacts, MeOK
<1>8. Unspent(work') \in Nat
  BY UnspentNext
<1> HIDE DEF Unspent
<1> QED BY <1>4, <1>5, <1>6, <1>7, <1>8

(* A walk ends: the level above weighs less than it did while it waited, and
   the walk itself nothing. *)
LEMMA ReturnCounts ==
    ASSUME Walks, Counters, Walks', Counters', outcome = "running",
           NEW result \in {"answer", "negative", "error"}, Return(result),
           Unspent(work') <= Unspent(work)
    PROVE  StepsLeft' \in 0 .. StepsLeft - 1
<1>1. StepsLeft = Unspent(work) + Waiting + Weight(Me) /\ Waiting \in Nat /\ Unspent(work) \in Nat
  BY StepsFacts
<1>2. Weight(Me) \in Nat \ {0}
  BY WeightFacts, MeOK
<1>3. Unspent(work') \in Nat
  BY UnspentNext
<1>4. CASE top = 0
  <2>1. outcome' # "running"
    BY <1>4 DEF Return
  <2>2. StepsLeft' = 0
    BY <2>1 DEF StepsLeft
  <2> HIDE DEF Unspent
  <2> QED BY <1>1, <1>2, <2>2
<1>5. CASE top # 0
  <2> DEFINE n == top - 1
             up == frame[n]
             g == Looked(up, result = "answer")
             k == Cardinality(Hopeful(frame, n))
  <2>1. top \in Nat /\ n \in Nat /\ n \in Depths /\ n < top /\ top = n + 1
    BY <1>5, LimitsAreNat DEF Walks, Depths
  <2>2. up \in Frame /\ up.pc = "host"
    BY <2>1 DEF Walks, Nesting
  <2>3. top' = n /\ outcome' = "running" /\ frame' = [frame EXCEPT ![top] = Fresh(Question), ![n] = g]
    BY <1>5, <2>1 DEF Return, Walks
  <2>4. Me' = g
    BY <2>1, <2>3 DEF Me, Walks
  <2>5. Weight(g) \in Nat /\ (up.rtype = "A" => Weight(g) <= 7) /\ (up.rtype # "A" => Weight(g) = 3)
    <3>1. CASE result = "answer"
      <4>1. g.pc = "ns"
        BY <2>2, <3>1 DEF Looked, Frame
      <4> QED BY <4>1 DEF Weight
    <3>2. CASE result # "answer" /\ up.rtype = "A"
      <4>1. g.pc = "host" /\ g.rtype = "AAAA"
        BY <2>2, <3>2 DEF Looked, Frame
      <4> QED BY <3>2, <4>1 DEF Weight
    <3>3. CASE result # "answer" /\ up.rtype # "A"
      <4>1. g.pc = "ns"
        BY <2>2, <3>3 DEF Looked, Frame
      <4> QED BY <4>1 DEF Weight
    <3> QED BY <3>1, <3>2, <3>3
  <2> HIDE DEF g
  <2>6. Hopeful(frame', n) = Hopeful(frame, n)
    <3>1. \A d \in 0 .. n - 1 : d \in Depths /\ d # n /\ d # top
      BY <2>1, LimitsAreNat DEF Depths
    <3> HIDE DEF n
    <3>2. \A d \in 0 .. n - 1 : frame'[d] = frame[d]
      BY <2>3, <3>1 DEF Walks
    <3> QED BY <3>2 DEF Hopeful
  <2>7. Waiting' = 4 * n + 4 * k
    <3>1. Waiting' = 4 * top' + 4 * Cardinality(Hopeful(frame', top'))
      BY DEF Waiting, Hopeful
    <3> QED BY <2>3, <2>6, <3>1
  <2>8. Waiting = 4 * (n + 1) + 4 * (k + (IF up.rtype = "A" THEN 1 ELSE 0)) /\ k \in Nat
    <3>1. Waiting = 4 * top + 4 * Cardinality(Hopeful(frame, top))
      BY StepsFacts
    <3> HIDE DEF n
    <3>2. /\ k \in Nat
          /\ Cardinality(Hopeful(frame, n + 1)) = k + (IF up.rtype = "A" THEN 1 ELSE 0)
      BY <2>1, HopefulFacts
    <3> QED BY <2>1, <3>1, <3>2
  <2>9. StepsLeft' = Unspent(work') + Waiting' + Weight(g)
    <3>1. outcome' = "running" => StepsLeft' = Unspent(work') + Waiting' + Weight(Me')
      BY DEF StepsLeft, Unspent
    <3> QED BY <2>3, <2>4, <3>1
  <2> HIDE DEF n, k, up, Unspent
  <2> QED BY <1>1, <1>2, <1>3, <2>1, <2>5, <2>7, <2>8, <2>9
<1> QED BY <1>4, <1>5

(* A nested walk begins: the level that waits for it weighs so much less. *)
LEMMA HostWalkCounts ==
    ASSUME Walks, Counters, Walks', Counters', HostWalk
    PROVE  StepsLeft' \in 0 .. StepsLeft - 1
<1> DEFINE k == Cardinality(Hopeful(frame, top))
           more == IF Me.rtype = "A" THEN 1 ELSE 0
<1>1. /\ outcome = "running" /\ Me.pc = "host" /\ top' = top + 1 /\ outcome' = outcome
      /\ frame' = [frame EXCEPT ![top + 1] = Fresh(Me.host)] /\ work' = work
  BY DEF HostWalk, At, Wire
<1>2. /\ StepsLeft = Unspent(work) + Waiting + Weight(Me) /\ Waiting \in Nat /\ Unspent(work) \in Nat
      /\ top \in Nat /\ Waiting = 4 * top + 4 * k
  BY <1>1, StepsFacts
<1>3. Weight(Me) = IF Me.rtype = "A" THEN 11 ELSE 7
  BY <1>1, WeightFacts, MeOK
<1>4. top + 1 \in Depths
  BY <1>1 DEF Walks
<1>5. Weight(Me') = 2
  BY <1>1, <1>4 DEF Me, Walks, Fresh, Weight
<1>6. Hopeful(frame', top + 1) = Hopeful(frame, top + 1)
  <2>1. \A d \in 0 .. (top + 1) - 1 : frame'[d] = frame[d]
    BY <1>1, <1>2, <1>4 DEF Walks, Depths
  <2> QED BY <2>1 DEF Hopeful
<1>7. Cardinality(Hopeful(frame, top + 1)) = k + more /\ k \in Nat
  BY <1>2, HopefulFacts DEF Me
<1>8. Waiting' = 4 * (top + 1) + 4 * (k + more)
  <2>1. Waiting' = 4 * top' + 4 * Cardinality(Hopeful(frame', top'))
    BY DEF Waiting, Hopeful
  <2> QED BY <1>1, <1>6, <1>7, <2>1
<1>9. StepsLeft' = Unspent(work') + Waiting' + Weight(Me')
  BY <1>1 DEF StepsLeft, Unspent
<1> HIDE DEF Unspent, k
<1> QED BY <1>1, <1>2, <1>3, <1>5, <1>7, <1>8, <1>9

(* An attempt is charged before its result is known. *)
LEMMA ChargeCounts ==
    ASSUME Walks, Counters, Walks', Counters', At("query"), NEW f \in Frame, Becomes(f),
           f.pc \in {"query", "got"}, work' = Charged \/ work' = Received
    PROVE  StepsLeft' \in 0 .. StepsLeft - 1
<1>1. Unspent(work') = Unspent(work) - 9 /\ Unspent(work) \in Nat
  <2>1. work'.subqueries = work.subqueries + 1 /\ work'.lookups = work.lookups
    BY ChargedOK
  <2>2. work.subqueries \in Nat /\ work.lookups \in Nat
    BY DEF Counters
  <2> QED BY <2>1, <2>2, LimitsAreNat, StepsFacts DEF Unspent
<1>2. Weight(f) <= 4 /\ Weight(f) \in Nat /\ Weight(Me) = 1 /\ outcome = "running"
  BY MeOK, WeightFacts DEF At
<1>3. Unspent(work') + Weight(f) < Unspent(work) + Weight(Me)
  <2> HIDE DEF Unspent
  <2> QED BY <1>1, <1>2
<1> QED BY <1>2, <1>3, BecomesCounts

LEMMA QueryCounts ==
    ASSUME Walks, Counters, Walks', Counters', Query
    PROVE  StepsLeft' \in 0 .. StepsLeft - 1
<1>1. outcome = "running" /\ At("query")
  BY DEF Query, NobodyAnswered, OutOfSubqueries, TooLate, NoReply, OutOfBytes, UselessReply,
         GoodReply, Exchange, MayAttempt, At
<1>2. /\ Charged.subqueries = work.subqueries + 1 /\ Charged.lookups = work.lookups
      /\ work.subqueries \in Nat /\ work.lookups \in Nat
  BY ChargedOK DEF Counters
<1>3. CASE NobodyAnswered \/ OutOfSubqueries
  <2>1. Return("error") /\ work' = work
    BY <1>3 DEF NobodyAnswered, OutOfSubqueries, Wire
  <2>2. Unspent(work') <= Unspent(work)
    BY <2>1, StepsFacts
  <2> QED BY <1>1, <2>1, <2>2, ReturnCounts
<1>4. CASE \E d \in Durations : OutOfBytes(d)
  <2>1. Return("error") /\ work' = Charged
    BY <1>4 DEF OutOfBytes
  <2>2. Unspent(work') <= Unspent(work)
    BY <1>2, <2>1, LimitsAreNat DEF Unspent
  <2> QED BY <1>1, <2>1, <2>2, ReturnCounts
<1>5. ASSUME NEW f, f = Attempted \/ (\E a \in Nat : f = [Attempted EXCEPT !.att = a]), MayAttempt
      PROVE  NextAttempt(f) \in Frame /\ NextAttempt(f).pc = "query"
  <2>1. f \in Frame /\ f.pc = "query" /\ f.tried = Me.tried /\ f.servers = Me.servers
    BY <1>1, <1>5, AttemptedOK, MeOK, ZenonT(60) DEF Attempted, At, Frame
  <2>2. FrameOK(NextAttempt(f), top)
    BY <1>5, <2>1, NextAttemptOK DEF MayAttempt
  <2>3. NextAttempt(f).pc = "query"
    BY <2>1 DEF NextAttempt, Frame
  <2> QED BY <2>2, <2>3 DEF FrameOK
<1>6. CASE TooLate
  <2> DEFINE f == NextAttempt([Attempted EXCEPT !.att = MaxAttempts])
  <2>1. work' = Charged /\ Becomes(f) /\ MayAttempt
    BY <1>6 DEF TooLate
  <2>2. f \in Frame /\ f.pc = "query"
    BY <1>5, <2>1, LimitsAreNat
  <2> HIDE DEF f
  <2> QED BY <1>1, <2>1, <2>2, ChargeCounts
<1>7. CASE \/ \E d \in Durations : NoReply(d) \/ UselessReply(1, d, 0)
           \/ \E d, e \in Durations : UselessReply(2, d, e)
  <2>1. (work' = Charged \/ work' = Received) /\ Becomes(NextAttempt(Attempted)) /\ MayAttempt
    BY <1>7 DEF NoReply, UselessReply, Exchange
  <2>2. NextAttempt(Attempted) \in Frame /\ NextAttempt(Attempted).pc = "query"
    BY <1>5, <2>1
  <2> QED BY <1>1, <2>1, <2>2, ChargeCounts
<1>8. CASE \/ \E d \in Durations : GoodReply(1, d, 0)
           \/ \E d, e \in Durations : GoodReply(2, d, e)
  <2>1. work' = Received /\ Becomes(Answered)
    BY <1>8 DEF GoodReply
  <2>2. Answered \in Frame /\ Answered.pc = "got"
    BY MeOK DEF Answered, Frame
  <2> QED BY <1>1, <2>1, <2>2, ChargeCounts
<1> QED BY <1>3, <1>4, <1>6, <1>7, <1>8 DEF Query

(* Nothing is charged and the level goes on, weighing less. *)
LEMMA FreeCounts ==
    ASSUME Walks, Counters, Walks', Counters', outcome = "running", NEW f \in Frame, Becomes(f),
           work'.subqueries = work.subqueries, work'.lookups = work.lookups, Weight(f) < Weight(Me)
    PROVE  StepsLeft' \in 0 .. StepsLeft - 1
<1>1. Unspent(work') = Unspent(work)
  BY DEF Unspent
<1>2. Unspent(work) \in Nat /\ Weight(f) \in Nat /\ Weight(Me) \in Nat
  BY StepsFacts, WeightFacts, MeOK
<1>3. Unspent(work') + Weight(f) < Unspent(work) + Weight(Me)
  <2> HIDE DEF Unspent
  <2> QED BY <1>1, <1>2
<1> QED BY <1>3, BecomesCounts

LEMMA FreeReturnCounts ==
    ASSUME Walks, Counters, Walks', Counters', outcome = "running",
           NEW result \in {"answer", "negative", "error"}, Return(result),
           work'.subqueries = work.subqueries, work'.lookups = work.lookups
    PROVE  StepsLeft' \in 0 .. StepsLeft - 1
<1>1. Unspent(work') <= Unspent(work)
  BY StepsFacts DEF Unspent
<1> QED BY <1>1, ReturnCounts

(* The frame after a step that sets its program counter. *)
LEMMA NewFrame ==
    ASSUME Walks, Walks', NEW f, Becomes(f)
    PROVE  f \in Frame
BY DEF Becomes, Walks

LEMMA ClassifyCounts ==
    ASSUME Walks, Counters, Walks', Counters', Classify
    PROVE  StepsLeft' \in 0 .. StepsLeft - 1
<1>1. outcome = "running" /\ Me.pc = "got" /\ Weight(Me) = 4 /\ Me \in Frame
  <2>1. At("got")
    BY DEF Classify, GotAnswer, GotNxdomain, GotNodata, GotEmpty, GotCname, GotDname, GotReferral
  <2> QED BY <2>1, MeOK, WeightFacts DEF At
<1>2. work'.subqueries = work.subqueries /\ work'.lookups = work.lookups
  BY DEF Classify, GotAnswer, GotNxdomain, GotNodata, GotEmpty, GotCname, GotDname, GotReferral,
         Finish, Wire, Counters
<1>3. ASSUME NEW f, f.pc \in {"loop", "ns"}, Becomes(f)
      PROVE  StepsLeft' \in 0 .. StepsLeft - 1
  <2>1. f \in Frame
    BY <1>3, NewFrame
  <2>2. Weight(f) < Weight(Me)
    BY <1>1, <1>3, <2>1, WeightFacts
  <2> QED BY <1>1, <1>2, <1>3, <2>1, <2>2, FreeCounts
<1>4. ASSUME NEW n, Chase(n) PROVE StepsLeft' \in 0 .. StepsLeft - 1
  <2>1. PICK f : f.pc = "loop" /\ Becomes(f)
    <3> DEFINE again == ~InZone(n, Me.zone) \/ Me.zone = <<>>
               z == IF again THEN <<>> ELSE Me.zone
               s == IF again THEN Roots ELSE Me.servers
               f == [Me EXCEPT !.pc = "loop", !.qname = <<>>, !.name = n, !.depth = @ + 1,
                               !.zone = z, !.servers = s]
    <3>1. Becomes(f)
      BY <1>4 DEF Chase
    <3> HIDE DEF z, s
    <3>2. f.pc = "loop"
      BY <1>1 DEF Frame
    <3> QED BY <3>1, <3>2
  <2> QED BY <1>3, <2>1
<1>5. ASSUME NEW result \in {"answer", "negative", "error"}, Return(result)
      PROVE  StepsLeft' \in 0 .. StepsLeft - 1
  BY <1>1, <1>2, <1>5, FreeReturnCounts
<1>6. CASE GotAnswer \/ GotNxdomain
  <2>1. Return("answer") \/ Return("error") \/ Return("negative")
    BY <1>6 DEF GotAnswer, GotNxdomain, Finish
  <2> QED BY <1>5, <2>1
<1>7. CASE GotNodata \/ GotEmpty
  <2>1. Deepen \/ Return("negative") \/ Return("error")
    BY <1>7 DEF GotNodata, GotEmpty, Finish
  <2>2. ASSUME Deepen PROVE StepsLeft' \in 0 .. StepsLeft - 1
    <3> DEFINE f == [Me EXCEPT !.pc = "loop", !.deepen = TRUE]
    <3>1. Becomes(f) /\ f.pc = "loop"
      BY <1>1, <2>2 DEF Deepen, Frame
    <3> HIDE DEF f
    <3> QED BY <1>3, <3>1
  <2> QED BY <1>5, <2>1, <2>2
<1>8. CASE \E n \in Names : GotCname(n)
  BY <1>4, <1>8 DEF GotCname
<1>9. ASSUME NEW o \in Names, NEW t \in Names, GotDname(o, t)
      PROVE  StepsLeft' \in 0 .. StepsLeft - 1
  <2> DEFINE n == t \o SubSeq(Me.name, Len(o) + 1, Len(Me.name))
  <2>1. Chase(n) \/ Return("error")
    BY <1>9 DEF GotDname
  <2> HIDE DEF n
  <2> QED BY <1>4, <1>5, <2>1
<1>10. ASSUME NEW z \in Names, NEW r \in Referrals, GotReferral(z, r)
       PROVE  StepsLeft' \in 0 .. StepsLeft - 1
  <2> DEFINE f == [Me EXCEPT !.refs = @ + 1, !.zone = z, !.qname = <<>>]
             g == [f EXCEPT !.pc = "loop", !.servers = r[3]]
             h == [f EXCEPT !.pc = "ns", !.pend = r[1], !.addrs = 0]
  <2>1. Return("error") \/ Becomes(g) \/ Becomes(h)
    BY <1>10 DEF GotReferral
  <2>2. g.pc = "loop" /\ h.pc = "ns"
    BY <1>1 DEF Frame
  <2> HIDE DEF g, h
  <2> QED BY <1>3, <1>5, <2>1, <2>2
<1> QED BY <1>6, <1>7, <1>8, <1>9, <1>10 DEF Classify

LEMMA LookupCounts ==
    ASSUME Walks, Counters, Walks', Counters', Lookup
    PROVE  StepsLeft' \in 0 .. StepsLeft - 1
<1>1. Me \in Frame
  BY MeOK
<1>2. CASE NsDone
  <2> DEFINE f == [Me EXCEPT !.pc = "loop", !.servers = Me.addrs, !.pend = <<>>,
                             !.host = <<>>, !.addrs = 0, !.rtype = "A"]
  <2>1. outcome = "running" /\ Me.pc = "ns" /\ work' = work /\ (Return("error") \/ Becomes(f))
    BY <1>2 DEF NsDone, At, Wire
  <2>2. f.pc = "loop"
    BY <1>1 DEF Frame
  <2> HIDE DEF f
  <2>3. ASSUME Becomes(f) PROVE StepsLeft' \in 0 .. StepsLeft - 1
    <3>1. f \in Frame
      BY <2>3, NewFrame
    <3>2. Weight(f) < Weight(Me)
      BY <1>1, <2>1, <2>2, <3>1, WeightFacts
    <3> QED BY <2>1, <2>3, <3>1, <3>2, FreeCounts
  <2> QED BY <2>1, <2>3, FreeReturnCounts
<1>3. CASE NsNext
  <2> DEFINE f == [Me EXCEPT !.pc = "host", !.host = Head(Me.pend), !.pend = Tail(@), !.rtype = "A"]
  <2>1. /\ outcome = "running" /\ Me.pc = "ns" /\ Becomes(f)
        /\ work' = [work EXCEPT !.lookups = @ + 1]
    BY <1>3 DEF NsNext, At
  <2>2. f \in Frame
    BY <2>1, NewFrame
  <2>3. Unspent(work') = Unspent(work) - 9 /\ Unspent(work) \in Nat
    <3>1. /\ work.subqueries \in Nat /\ work.lookups \in Nat
          /\ work'.subqueries = work.subqueries /\ work'.lookups = work.lookups + 1
      BY <2>1 DEF Counters
    <3> QED BY <3>1, LimitsAreNat, StepsFacts DEF Unspent
  <2> HIDE DEF f, Unspent
  <2>4. Unspent(work') + Weight(f) < Unspent(work) + Weight(Me)
    <3>1. Weight(f) \in 1 .. 11 /\ Weight(Me) = 3
      BY <1>1, <2>1, <2>2, WeightFacts
    <3> QED BY <2>3, <3>1
  <2> QED BY <2>1, <2>2, <2>4, BecomesCounts
<1>4. ASSUME NEW found \in BOOLEAN, HostKnown(found) \/ HostForward(found)
      PROVE  StepsLeft' \in 0 .. StepsLeft - 1
  <2> DEFINE f == Looked(Me, found)
  <2>1. outcome = "running" /\ Me.pc = "host" /\ work' = work /\ Becomes(f)
    BY <1>4 DEF HostKnown, HostForward, At, Wire
  <2>2. f \in Frame
    BY <2>1, NewFrame
  <2>3. f.pc = "ns" \/ (f.pc = "host" /\ f.rtype = "AAAA" /\ Me.rtype = "A")
    BY <1>1 DEF Looked, Frame
  <2> HIDE DEF f
  <2>4. Weight(f) < Weight(Me)
    <3>1. Weight(Me) = IF Me.rtype = "A" THEN 11 ELSE 7
      BY <1>1, <2>1, WeightFacts
    <3>2. Weight(f) = 3 \/ (Weight(f) = 7 /\ Me.rtype = "A")
      BY <2>2, <2>3, WeightFacts
    <3> QED BY <3>1, <3>2
  <2> QED BY <2>1, <2>2, <2>4, FreeCounts
<1>5. ASSUME NEW found \in BOOLEAN, HostPinned(found) PROVE StepsLeft' \in 0 .. StepsLeft - 1
  <2> DEFINE n == IF found THEN Me.addrs + 1 ELSE Me.addrs
             f == [Me EXCEPT !.pc = "ns", !.addrs = n]
  <2>1. outcome = "running" /\ Me.pc = "host" /\ work' = work /\ Becomes(f)
    BY <1>5 DEF HostPinned, At, Wire
  <2>2. f \in Frame
    BY <2>1, NewFrame
  <2> HIDE DEF n
  <2>3. f.pc = "ns"
    BY <1>1 DEF Frame
  <2> HIDE DEF f
  <2>4. Weight(f) < Weight(Me)
    BY <1>1, <2>1, <2>2, <2>3, WeightFacts
  <2> QED BY <2>1, <2>2, <2>4, FreeCounts
<1> QED BY <1>2, <1>3, <1>4, <1>5, HostWalkCounts DEF Lookup

LEMMA LoopCounts ==
    ASSUME Walks, Counters, Walks', Counters', LoopStops \/ CachedTarget \/ Ask
    PROVE  StepsLeft' \in 0 .. StepsLeft - 1
<1>1. outcome = "running" /\ Me.pc = "loop" /\ work' = work
  BY DEF LoopStops, CachedTarget, Ask, LoopGoesOn, At, Finish, Wire
<1>2. CASE LoopStops \/ CachedTarget
  <2>1. Return("error") \/ Return("answer")
    BY <1>2 DEF LoopStops, CachedTarget, Finish
  <2> QED BY <1>1, <2>1, FreeReturnCounts
<1>3. CASE Ask
  <2> DEFINE q == IF Me.deepen THEN OneLabelMore(Me.name, Me.qname)
                  ELSE IF Minimize THEN OneLabelMore(Me.name, Me.zone) ELSE Me.name
             f == [Me EXCEPT !.pc = "query", !.deepen = FALSE, !.qname = q]
  <2>1. Becomes(f)
    BY <1>3 DEF Ask
  <2> HIDE DEF q
  <2>2. f.pc = "query"
    BY MeOK DEF Frame
  <2> HIDE DEF f
  <2>3. f \in Frame
    BY <2>1, NewFrame
  <2>4. Weight(f) < Weight(Me)
    BY <1>1, <2>2, <2>3, MeOK, WeightFacts
  <2> QED BY <1>1, <2>1, <2>3, <2>4, FreeCounts
<1> QED BY <1>2, <1>3

(* iterative_resolve, query_servers and resolve_ns_addresses: each step of a
   resolution leaves fewer steps, a bounded number of which there are at the
   start, so that none goes on for ever whatever the servers say. *)
THEOREM StepsRunOut == Spec => EveryStepCounts
<1>1. Walks /\ Counters /\ [Next]_vars => (Walks /\ Counters)'
  <2> SUFFICES ASSUME Walks, Counters, [Next]_vars
               PROVE  Walks' /\ Counters'
    OBVIOUS
  <2>1. CASE Next
    BY <2>1, WalksInductive, CountersInductive
  <2>2. CASE UNCHANGED vars
    BY <2>2 DEF vars, Walks, Counters, FrameOK
  <2> QED BY <2>1, <2>2
<1>2. Walks /\ Counters /\ (Walks /\ Counters)' /\ [Next]_vars => [StepsLeft' \in 0 .. StepsLeft - 1]_vars
  <2> SUFFICES ASSUME Walks, Counters, Walks', Counters', Next
               PROVE  StepsLeft' \in 0 .. StepsLeft - 1
    OBVIOUS
  <2> QED BY LoopCounts, QueryCounts, ClassifyCounts, LookupCounts DEF Next
<1> QED BY <1>1, <1>2, WalkStarts, PTL DEF Spec, EveryStepCounts

=============================================================================
