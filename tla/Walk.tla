-------------------------------- MODULE Walk --------------------------------
(***************************************************************************)
(* One resolution on the wire (src/resolver.rs: iterative_resolve,         *)
(* resolve_ns_addresses, resolve_host_addresses, query_servers, Deadline;  *)
(* src/engine.rs: classify_response; src/budget.rs: FetchBudget).          *)
(*                                                                         *)
(* The walk goes from the root down along referrals, chases aliases, and   *)
(* for a delegation without usable glue walks again, one level deeper, for *)
(* the addresses of its name servers.  All levels share one deadline and   *)
(* one work budget.  What the servers say is arbitrary.  A name server an  *)
(* upstream group is responsible for is looked up there instead, and what  *)
(* a nested walk finds is validated: neither sees the deadline.            *)
(*                                                                         *)
(* A name is the sequence of its labels, the one next to the root first.   *)
(* Ranking of servers and the contents of records are abstracted; a level  *)
(* knows how many servers it has.  Time passes in exchanges, in forwarded  *)
(* lookups and in validation, and is not told apart past the deadline.     *)
(***************************************************************************)
EXTENDS Integers, FiniteSets, SequencesExt

CONSTANTS
    Names,          \* every name short enough to be one
    Question,       \* the name the client asks for
    Referrals,      \* <<NS names in record order, how many have glue, usable
                    \* glue addresses>> of the delegations upstreams send
    Roots,          \* number of root servers configured
    MaxCname, MaxReferrals, MaxNsDepth,       \* max_cname_depth, max_referrals, max_ns_depth
    MaxServers, MaxAttempts, MaxTotal,        \* max_servers_tried after .max(1),
                                              \* max_attempts_per_server, max_total_attempts
    MaxDelegations, MaxLookups, MaxSubqueries, MaxBytes,  \* FetchLimits
    MaxNs, SmallReferral,                     \* max_ns_names, small_referral_ns
    Enough,         \* endpoints after which no more name servers are resolved: 16
    Routed,         \* names forward_route finds an upstream group for
    Pinned,         \* names in the hosts table
    TcpFallback, Minimize, Dnssec,            \* tcp_fallback, qname_minimization, dnssec
    Timeout, QueryBudget,                     \* timeout_ms, query_budget_ms, in ticks
    Waits           \* bound: blocking calls of one exchange, each of which gets the
                    \* attempt's timeout to itself; the code sets no limit

ASSUME WalkAssumption ==
    /\ Names \subseteq Seq(STRING) /\ <<>> \in Names /\ Question \in Names
    /\ \A r \in Referrals : /\ r = <<r[1], r[2], r[3]>>
                            /\ r[1] \in Seq(Names) /\ r[1] # <<>>
                            /\ r[2] \in Nat /\ r[3] \in Nat /\ (r[2] > 0 => r[3] > 0)
    /\ Routed \subseteq Names /\ Pinned \subseteq Names /\ Question \notin Routed
    /\ {Roots, MaxServers, Timeout, Waits} \subseteq Nat \ {0}
    /\ {MaxCname, MaxReferrals, MaxNsDepth, MaxAttempts, MaxTotal, MaxDelegations, MaxLookups,
        MaxSubqueries, MaxBytes, MaxNs, SmallReferral, Enough, QueryBudget} \subseteq Nat
    /\ TcpFallback \in BOOLEAN /\ Minimize \in BOOLEAN /\ Dnssec \in BOOLEAN

VARIABLES
    frame,     \* frame[d]: the walk at nesting depth d
    top,       \* ns_depth of the walk under way
    work,      \* FetchBudget: what has been spent
    elapsed,   \* time since Deadline::after
    sent,      \* messages query_servers really sent (history)
    late,      \* queries begun once the deadline had passed (history)
    outcome    \* "running", or how the resolution ended

vars == <<frame, top, work, elapsed, sent, late, outcome>>

Depths == 0 .. MaxNsDepth

InZone(n, z) == IsPrefix(z, n)
Below(n, z) == IsStrictPrefix(z, n)

\* minimized_name and deepen_minimized: the ancestor of n one label longer than z.
OneLabelMore(n, z) == SubSeq(n, 1, IF Len(z) < Len(n) THEN Len(z) + 1 ELSE Len(n))

Fresh(n) ==
    [pc |-> "loop", name |-> n, zone |-> <<>>, qname |-> <<>>, deepen |-> FALSE,
     servers |-> Roots, depth |-> 0, refs |-> 0, tried |-> 0, att |-> 0, total |-> 0,
     pend |-> <<>>, host |-> <<>>, addrs |-> 0, rtype |-> "A"]

Init ==
    /\ frame = [d \in Depths |-> Fresh(Question)]
    /\ top = 0
    /\ work = [delegations |-> 0, lookups |-> 0, subqueries |-> 0, bytes |-> 0]
    /\ elapsed = 0 /\ sent = 0 /\ late = 0 /\ outcome = "running"

Me == frame[top]
At(pc) == outcome = "running" /\ Me.pc = pc
Expired == elapsed >= QueryBudget
Past == QueryBudget + 1
Later(t) == IF t < Past THEN t ELSE Past
Late(b) == IF b THEN late + 1 ELSE late
Becomes(f) == frame' = [frame EXCEPT ![top] = f] /\ UNCHANGED <<top, outcome>>
Wire == <<work, elapsed, sent, late>>

-----------------------------------------------------------------------------
(* The end of a walk.  The level above takes the address it found, tries the
   other address type, or goes on to the next name server. *)

\* resolve_host_addresses goes on after the lookup of one type.
Looked(f, found) ==
    IF found THEN [f EXCEPT !.pc = "ns", !.addrs = @ + 1]
    ELSE IF f.rtype = "A" THEN [f EXCEPT !.pc = "host", !.rtype = "AAAA"]
    ELSE [f EXCEPT !.pc = "ns"]

Return(result) ==
    IF top = 0
    THEN outcome' = result /\ UNCHANGED <<frame, top>>
    ELSE /\ top' = top - 1
         /\ frame' = [frame EXCEPT ![top] = Fresh(Question),
                                   ![top - 1] = Looked(@, result = "answer")]
         /\ UNCHANGED outcome

\* resolve_inner after the walk: records are validated, which fetches keys in
\* resolutions of their own and takes any time.  The last walk's are validated
\* after this resolution.
Finish(result, records) ==
    /\ Return(result)
    /\ IF Dnssec /\ records /\ top > 0 THEN elapsed' \in elapsed .. Past ELSE UNCHANGED elapsed
    /\ UNCHANGED <<work, sent, late>>

-----------------------------------------------------------------------------
(* The head of the loop of iterative_resolve *)

LoopStops ==
    /\ At("loop")
    /\ Expired \/ Me.depth > MaxCname \/ Me.refs > MaxReferrals
    /\ Return("error")
    /\ UNCHANGED Wire

LoopGoesOn == At("loop") /\ ~Expired /\ Me.depth <= MaxCname /\ Me.refs <= MaxReferrals

\* The target of an alias is fresh in the cache.
CachedTarget ==
    /\ LoopGoesOn /\ Me.depth > 0
    /\ Finish("answer", TRUE)

Ask ==
    /\ LoopGoesOn
    /\ Becomes([Me EXCEPT
         !.pc = "query", !.deepen = FALSE,
         !.qname = IF Me.deepen THEN OneLabelMore(Me.name, Me.qname)
                   ELSE IF Minimize THEN OneLabelMore(Me.name, Me.zone) ELSE Me.name])
    /\ UNCHANGED Wire

-----------------------------------------------------------------------------
(* query_servers *)

ServersToTry == IF Me.servers < MaxServers THEN Me.servers ELSE MaxServers

\* The attempt did not give an answer: the same server again, or the next one;
\* after MaxTotal attempts no server is asked any more.
NextAttempt(f) ==
    IF f.total >= MaxTotal THEN [f EXCEPT !.tried = ServersToTry, !.att = 0]
    ELSE IF f.att >= MaxAttempts THEN [f EXCEPT !.tried = @ + 1, !.att = 0]
    ELSE f

NobodyAnswered ==
    /\ At("query")
    /\ Me.tried >= ServersToTry \/ (Me.att = 0 /\ Expired) \/ MaxAttempts = 0 \/ MaxTotal = 0
    /\ Return("error")
    /\ UNCHANGED Wire

MayAttempt ==
    /\ At("query") /\ Me.tried < ServersToTry /\ ~(Me.att = 0 /\ Expired)
    /\ MaxAttempts > 0 /\ MaxTotal > 0

OutOfSubqueries ==
    /\ MayAttempt
    /\ work.subqueries >= MaxSubqueries
    /\ Return("error")
    /\ UNCHANGED Wire

\* spend_subquery.
Charged == [work EXCEPT !.subqueries = @ + 1]

Attempted == [Me EXCEPT !.att = @ + 1, !.total = @ + 1]
Answered == [Me EXCEPT !.pc = "got", !.tried = 0, !.att = 0, !.total = 0]

\* Fault: the attempt is given up before it is counted.
TooLateUncounted == MayAttempt /\ Expired /\ UNCHANGED vars

\* The budget of time is gone: charged, not sent, and on to the next server.
TooLate ==
    /\ MayAttempt /\ work.subqueries < MaxSubqueries /\ Expired
    /\ work' = Charged
    /\ Becomes(NextAttempt([Attempted EXCEPT !.att = MaxAttempts]))
    /\ UNCHANGED <<elapsed, sent, late>>

\* attempt_timeout_ms.
AttemptTime == IF QueryBudget - elapsed < Timeout THEN QueryBudget - elapsed ELSE Timeout

\* How long an exchange may take: the socket's timeout is for each recv_from of
\* a datagram, from whatever address, and for connect, write and each read.
Durations == 0 .. Waits * AttemptTime

\* Fault: the second attempt on a server does not look at the time.
ExchangeAnyTime(k, d, e) ==
    /\ MayAttempt /\ work.subqueries < MaxSubqueries
    /\ sent' = sent + k
    /\ late' = IF k = 2 /\ elapsed + d >= QueryBudget THEN Late(Expired) + 1 ELSE Late(Expired)
    /\ elapsed' = Later(elapsed + d + e)

\* An exchange of k messages: the first takes d, and its retry over TCP, which
\* is given the timeout computed before the first, takes e.
Exchange(k, d, e) ==
    /\ MayAttempt /\ work.subqueries < MaxSubqueries /\ ~Expired
    /\ sent' = sent + k
    /\ late' = Late(k = 2 /\ elapsed + d >= QueryBudget)
    /\ elapsed' = Later(elapsed + d + e)

NoReply(d) ==
    /\ Exchange(1, d, 0)
    /\ work' = Charged
    /\ Becomes(NextAttempt(Attempted))

OutOfBytes(d) ==
    /\ Exchange(1, d, 0)
    /\ work.bytes >= MaxBytes
    /\ work' = Charged
    /\ Return("error")

\* spend_bytes; every reply counts as one unit.
Received == [Charged EXCEPT !.bytes = @ + 1]

\* Unreadable, not an answer to this query, a failure code, or no records at
\* all for the full name.
UselessReply(k, d, e) ==
    /\ Exchange(k, d, e)
    /\ k = 1 \/ TcpFallback
    /\ work.bytes < MaxBytes
    /\ work' = Received
    /\ Becomes(NextAttempt(Attempted))

\* A reply to use.  With two messages: a matching reply over TCP, used whatever
\* it says, or the truncated one because the retry gave nothing.
GoodReply(k, d, e) ==
    /\ Exchange(k, d, e)
    /\ k = 1 \/ TcpFallback
    /\ work.bytes < MaxBytes
    /\ work' = Received
    /\ Becomes(Answered)

-----------------------------------------------------------------------------
(* What classify_response makes of the reply *)

GotAnswer ==
    /\ At("got")
    /\ IF InZone(Me.name, Me.zone) THEN Finish("answer", TRUE) ELSE Finish("error", FALSE)

\* The walk goes on for another name, from the root if it has to.
Chase(n) ==
    LET again == ~InZone(n, Me.zone) \/ Me.zone = <<>>
    IN  Becomes([Me EXCEPT !.pc = "loop", !.qname = <<>>,
                           !.name = n, !.depth = @ + 1,
                           !.zone = IF again THEN <<>> ELSE @,
                           !.servers = IF again THEN Roots ELSE @])

GotCname(n) ==
    /\ At("got")
    /\ Chase(n)
    /\ UNCHANGED Wire

\* synthesize_dname_cname; a name that gets too long is an error.
GotDname(owner, target) ==
    LET n == target \o SubSeq(Me.name, Len(owner) + 1, Len(Me.name))
    IN  /\ At("got")
        /\ Below(Me.name, owner)
        /\ IF n \in Names THEN Chase(n) ELSE Return("error")
        /\ UNCHANGED Wire

GotNxdomain ==
    /\ At("got")
    /\ Finish("negative", Me.depth > 0)

Deepen == Becomes([Me EXCEPT !.pc = "loop", !.deepen = TRUE])

GotNodata ==
    /\ At("got")
    /\ IF Me.qname # Me.name THEN Deepen /\ UNCHANGED Wire ELSE Finish("negative", Me.depth > 0)

\* Nothing in the reply bears on the name: records of other names, for one.
GotEmpty ==
    /\ At("got")
    /\ IF Me.qname # Me.name THEN Deepen ELSE Return("error")
    /\ UNCHANGED Wire

\* admit_referral: min_glue_fraction is one half.
Admits(r) ==
    /\ Len(r[1]) <= MaxNs
    /\ Len(r[1]) > SmallReferral => 2 * r[2] >= Len(r[1])

\* A referral to z, a zone below the one the servers are for.
GotReferral(z, r) ==
    LET f == [Me EXCEPT !.refs = @ + 1, !.zone = z, !.qname = <<>>]
    IN  /\ At("got")
        /\ Below(z, Me.zone)
        /\ IF ~Admits(r) \/ work.delegations >= MaxDelegations
           THEN Return("error") /\ UNCHANGED work
           ELSE /\ work' = [work EXCEPT !.delegations = @ + 1]
                /\ IF r[3] > 0 THEN Becomes([f EXCEPT !.pc = "loop", !.servers = r[3]])
                   ELSE IF top < MaxNsDepth
                   THEN Becomes([f EXCEPT !.pc = "ns", !.pend = r[1], !.addrs = 0])
                   ELSE Return("error")
        /\ UNCHANGED <<elapsed, sent, late>>

-----------------------------------------------------------------------------
(* resolve_ns_addresses *)

NsStops == Me.pend = <<>> \/ Expired \/ work.lookups >= MaxLookups \/ Me.addrs >= Enough

NsDone ==
    /\ At("ns") /\ NsStops
    /\ IF Me.addrs = 0 THEN Return("error")
       ELSE Becomes([Me EXCEPT !.pc = "loop", !.servers = Me.addrs, !.pend = <<>>,
                             !.host = <<>>, !.addrs = 0, !.rtype = "A"])
    /\ UNCHANGED Wire

\* Fault: the lookup of a name server's address is not charged.
NsNextUncharged ==
    /\ At("ns") /\ ~NsStops
    /\ Becomes([Me EXCEPT !.pc = "host", !.host = Head(Me.pend), !.pend = Tail(@), !.rtype = "A"])
    /\ UNCHANGED Wire

NsNext ==
    /\ At("ns") /\ ~NsStops
    /\ work' = [work EXCEPT !.lookups = @ + 1]
    /\ Becomes([Me EXCEPT !.pc = "host", !.host = Head(Me.pend), !.pend = Tail(@), !.rtype = "A"])
    /\ UNCHANGED <<elapsed, sent, late>>

\* resolve_host_addresses: a pinned name is never looked up, whatever the table
\* has of it.
HostPinned(found) ==
    /\ At("host") /\ Me.host \in Pinned
    /\ Becomes([Me EXCEPT !.pc = "ns", !.addrs = IF found THEN @ + 1 ELSE @])
    /\ UNCHANGED Wire

\* resolve_inner: fresh in the cache, with an address or without.
HostKnown(found) ==
    /\ At("host") /\ Me.host \notin Pinned
    /\ Becomes(Looked(Me, found))
    /\ UNCHANGED Wire

\* forward_resolve: the group's upstreams are asked whatever the time is, for as
\* long as they take, and nothing is charged.
HostForward(found) ==
    /\ At("host") /\ Me.host \in Routed \ Pinned
    /\ Becomes(Looked(Me, found))
    /\ late' = Late(Expired)
    /\ elapsed' \in elapsed .. Past
    /\ UNCHANGED <<work, sent>>

\* A level that waits for a walk of its own.
Nesting(f) == f.pc = "host" /\ f.host \notin Routed \cup Pinned

HostWalk ==
    /\ At("host") /\ Nesting(Me)
    /\ top' = top + 1
    /\ frame' = [frame EXCEPT ![top + 1] = Fresh(Me.host)]
    /\ UNCHANGED <<outcome, Wire>>

-----------------------------------------------------------------------------
Query ==
    \/ NobodyAnswered \/ OutOfSubqueries \/ TooLate
    \/ \E d \in Durations :
          NoReply(d) \/ OutOfBytes(d) \/ UselessReply(1, d, 0) \/ GoodReply(1, d, 0)
    \/ \E d, e \in Durations : UselessReply(2, d, e) \/ GoodReply(2, d, e)

Classify ==
    \/ GotAnswer \/ GotNxdomain \/ GotNodata \/ GotEmpty
    \/ \E n \in Names : GotCname(n)
    \/ \E o, t \in Names : GotDname(o, t)
    \/ \E z \in Names, r \in Referrals : GotReferral(z, r)

Lookup ==
    \/ NsDone \/ NsNext \/ HostWalk
    \/ \E found \in BOOLEAN : HostPinned(found) \/ HostKnown(found) \/ HostForward(found)

Next == LoopStops \/ CachedTarget \/ Ask \/ Query \/ Classify \/ Lookup

Spec == Init /\ [][Next]_vars

(* The resolving thread is scheduled, and every exchange, forwarded lookup and
   validation returns at some time: the transports set a timeout for each of
   their calls, none for an exchange, and no bound on it is assumed here. *)
FairSpec == Spec /\ WF_vars(Next)

-----------------------------------------------------------------------------
Frame ==
    [pc : {"loop", "query", "got", "ns", "host"}, name : Names, zone : Names,
     qname : Seq(STRING), deepen : BOOLEAN, servers : Nat \ {0}, depth : Nat, refs : Nat,
     tried : Nat, att : Nat, total : Nat, pend : Seq(Names), host : Names,
     addrs : Nat, rtype : {"A", "AAAA"}]

(* Every variable has its type.  A level that is not asking has no server
   behind it, only a level that may nest looks for name servers, and the levels
   above the walk under way wait for the address of one that has to be walked
   for. *)
WalkTypeOK ==
    /\ top \in Depths
    /\ work \in [delegations : Nat, lookups : Nat, subqueries : Nat, bytes : Nat]
    /\ elapsed \in 0 .. Past /\ sent \in Nat /\ late \in Nat
    /\ outcome \in {"running", "answer", "negative", "error"}
    /\ frame \in [Depths -> Frame]
    /\ \A d \in Depths : /\ frame[d].tried <= frame[d].servers
                         /\ frame[d].pc # "query" => frame[d].tried = 0
                         /\ frame[d].pc \in {"ns", "host"} => d < MaxNsDepth
                         /\ d < top => Nesting(frame[d])

(* The budget bounds a whole resolution, walks for name servers included: no
   counter passes its limit, and query_servers sends no message uncharged but
   the retry of a truncated reply over TCP.  A lookup that is forwarded is not
   charged at all. *)
WorkBounded ==
    /\ WalkTypeOK
    /\ work.delegations <= MaxDelegations /\ work.lookups <= MaxLookups
    /\ work.subqueries <= MaxSubqueries /\ work.bytes <= MaxBytes
    /\ sent <= 2 * work.subqueries

(* However long an exchange, a forwarded lookup or a validation takes, at every
   level of nesting, a resolution whose deadline has passed begins one more
   query at most: the retry over TCP of the exchange that outlasted it, or the
   forwarded AAAA lookup after the A lookup that did. *)
LateBounded == late <= 1

(* One resolution keeps to its budget of work, and stops asking at its deadline,
   with all the walks it nests. *)
LimitsKept == WorkBounded /\ LateBounded

(* A bound on the steps the resolution may still take.  A level weighs what
   it can go through before something is charged again, and less while it
   waits for a nested walk; a charge adds at most eight to the weight. *)
Weight(f) ==
    CASE f.pc = "query" -> 1 [] f.pc = "loop" -> 2 [] f.pc = "ns" -> 3 [] f.pc = "got" -> 4
      [] f.pc = "host" -> IF f.rtype = "A" THEN 11 ELSE 7
Waiting == 4 * top + 4 * Cardinality({d \in 0 .. top - 1 : frame[d].rtype = "A"})
StepsLeft ==
    IF outcome # "running" THEN 0
    ELSE 9 * (MaxSubqueries - work.subqueries) + 9 * (MaxLookups - work.lookups) + Waiting + Weight(Me)

(* Whatever the servers say, every step of a resolution uses some of what is
   left to it, which never falls below zero: no series of aliases, referrals,
   minimized names, timeouts and nested walks is longer than nine steps for
   each attempt and each lookup of a name server the budget allows, and two. *)
EveryStepCounts == [][StepsLeft' \in 0 .. StepsLeft - 1]_vars

(* Whatever the servers say, and however fast they say it, the resolution
   ends: aliases, referrals, minimized names and walks for name servers never
   go round in circles. *)
Terminates == <>(outcome # "running")
=============================================================================
