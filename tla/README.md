# RecurseX: TLA+ models, model checking and proofs

RecurseX is a recursive DNS resolver with a tiered cache, background refresh,
DNSSEC validation, fake-IP answers and a multi-threaded front end. This directory
models its stateful parts in TLA+, checks the models with TLC on small instances
and proves the most important properties with TLAPS for every instance. Source
paths below are relative to `src/src/`.

`PROJECT.json` is the machine-readable side: every definition that models code with
the lines it stands for (`map`), the runs, one faulty variant per checked property
(`mutants`), the hazards of the code and the properties that cover them, the
theorems.

## 1. Inventory

### How the parts fit together

A datagram or TCP message enters `Server`, passes the `policy` (rate limit, block
list), and becomes a `QueryKey`. `Resolver::resolve` answers it from the hosts
table, from the fake-IP pool, from the cache (fresh, or stale if the planner says
so), or resolves it. Identical concurrent resolutions are coalesced: one thread
owns the in-flight slot, the others park on it. The owner walks the DNS tree
(`iterative_resolve`) under one deadline and one fetch budget, stores what it learns
in the cache and the alias graph, may validate it (which resolves DNSKEY and DS keys
through the same coalescer, on the same thread), publishes, and leaves. Serving a
stale answer, and the maintenance thread's schedule, start background refreshes,
which are resolutions on threads of their own. The maintenance thread also sweeps
the cache, prunes the alias graph, cleans the fake-IP pool and saves the cache to
disk; a restart loads it again.

All shared state is behind mutexes (`sync.rs`), one per structure. What is hard is
therefore not a data race inside one structure but what happens *between* two
critical sections, when a step fails after an earlier one succeeded, when a
structure is at its limit, and when a thread must eventually be woken.

### Components

| Part | State | Operations | What can go wrong | Module |
|---|---|---|---|---|
| In-flight coalescing (`resolver.rs` Slot, Owner, Inflight, resolve_key) | table key→slot, slot result, mutex | claim, publish, release (try_lock), park, evict | a waiter on a slot nobody fills; a waiter on another key's slot; release by key of somebody else's slot; panic in the owner | `Coalescer` |
| DNSSEC validation control (`dnssec/mod.rs` ValidationGuard, validate_group) | process-wide VALIDATING flag | enter, nested resolve, leave | nested resolution meets a slot of its own thread | `Coalescer` |
| Semantic cache (`cache/mod.rs`) | three tiers, each a map and a score index; NXDOMAIN table | lookup over ECS partitions, insert, rescore, demote, park, sweep | index and map drift apart; a tier outgrows its capacity; a key in two tiers; a broader answer wins over a narrower one | `SemanticCache` over `Bounded` |
| Persistent tier (`cache/persist.rs`) | snapshot file | save, reload entry by entry | restart in the middle; lifetimes lengthened by rounding or reloading | `SemanticCache` |
| Bounded tables (`bounded.rs`) | – | evict_for_capacity in three stages | nothing evicted at the limit | `Bounded` |
| Rate limiter (`policy.rs`) | bucket per client, bounded table | allow | eviction forgives debts; clock set back | `RateLimiter` over `TokenBucket` |
| Background refresh (`resolver.rs`, `cache/mod.rs`, `risk.rs`) | refreshing marks, slot count, budget bucket, threads | mark, take slot, take token, spawn, refresh, dependents | something taken is not given back; two refreshes of one key | `Refresh` over `TokenBucket` |
| Alias graph (`alias.rs`) | forward and reverse edges, counter, last seen | link, prune, closure | directions disagree, counter drifts, live edges pruned | `AliasGraph` |
| Fake-IP pool (`fakeip.rs`) | name↔address maps, cursor, last access | allocate, reverse, reclaim, restore, release, clear | two names on one address; no address found although one is free; a fresh mapping recycled before a stale one | `FakeIp`, contract in `AddressBook` |
| Server (`server.rs`) | work queue, flag, thread handles, connection count | receive, push, pop, accept, serve, shutdown, join | lost wake-up, stranded datagram, join that never returns | `Server` |
| Iterative resolution (`resolver.rs` iterative_resolve, query_servers, …; `engine.rs`) | zone, name, servers, depth, nested walks, deadline | ask, classify, chase, delegate, look up name servers | a loop that advances no counter; work or time beyond the limits | `Walk` |
| Fetch budget (`budget.rs`) | counters per resolution | spend, admit_referral | a level that is not charged | `Walk` |
| Upstream selection (`upstream.rs`, `rendezvous.rs`) | path model per endpoint, bounded table | record, forget, rank, lottery | a new server never tried; an equal pair that flaps with the order of a list; a slower server chosen by the lottery | `Upstream` |
| Forwarding, routing, hosts (`forward.rs`, `routing.rs`, `pattern.rs`, `hosts.rs`, `cidr.rs`) | rules, groups, pins, pool of transports | route, forward, gate, pin | the less specific rule wins; a poisoned answer passes the gate; a pooled transport reused under another TLS name | `Routing`, `Serving` |
| Serving (`resolver.rs` resolve_key, resolve_inner, answer_from_cache; `planner.rs`, `risk.rs`, `provenance.rs`) | cached chain, risk ledger, dependencies | local answer, cached chain, stale decision, forward, file | an expired answer outside the window or the risk budget; a chain trusted more than its weakest link; an answer filed for the wrong network | `Serving` over `Risk`, `Routing` |
| DNS over QUIC (`transports/doq/`) | connection, packet spaces, TLS state, reassembly buffers, cached connection | connect, handshake, receive, acknowledge, probe, query, reuse | traffic before authentication; a reused packet number; spliced handshake data; a forgotten packet; an exchange that never returns | `Doq` over `DoqTls`, `CryptoRx` |
| Wire codec (`name.rs`, `rdata.rs`, `message.rs`, `edns.rs`, `query.rs`) | – | parse, serialise, compress, truncate, match | what is written is not what is read; a truncated message too long or needlessly short | `Codec` over `Message`, `RData`, `Names` |
| DNSSEC validation (`dnssec/mod.rs`) | validation flag, a validation in progress | group, resolve keys and DS, match, judge | a half-signed message counted as verified; an honest answer called bogus | `Dnssec` (control also in `Coalescer`) |

Not modelled and not planned, with the reason, are listed in section 8.

## 2. Modules and how they follow the code

Common conventions. An action is one critical section, or one step between two of
them; everything the code does under one lock is one action. A thread's position
between critical sections is a `pc`. Numbers that stand for order only (keys in
`BTreeMap` order, scores) are small naturals. Clocks are counters with a named bound
(`MaxTime`) that may also be set back where the code reads the wall clock. An
operator whose comment starts with "Fault:" is a faulty variant of the definition
that follows it, used only to show that a property notices.

**Coalescer.** `frame[<<t, n>>]` is the n-th nested `resolve_key` call of thread t,
`table` the in-flight map, `slots` the shared slots, `lock` the table mutex.
`ClaimOwner`/`ClaimWaiter` are `Inflight::claim` (reaping of finished slots and
eviction included), `Publish` is `Owner::publish`, `TryRelease`/`ReleaseBusy` the
release with its `try_lock`, `Panic` the drop of an owner by unwinding,
`EnterValidation`, `NestedResolve`, `LeaveValidation` the re-entrant use by
`validate_group`. A slot is reused when nothing refers to it, as an `Arc` is freed.

**SemanticCache.** A lookup visits partitions and tiers one after another and moves
what it visits, so it is a small loop (`walk`) of visits; the cache mutex is held
over the loop, and nothing else runs meanwhile. `Place`, spill by one step, `Park`
and eviction are operators on a tier, shared by inserts, lookups, rescoring and the
sweep. `SaveCache` replaces the snapshot atomically (write and rename); `Restart`
empties memory at any moment; `RestoreEntry` loads one entry, so that restarts in the
middle of a load are covered. The admission score is arbitrary: any value of
`Scores` may come out of the formula. Time advances in ticks, several to a second, so that
what a snapshot rounds away shows.

**WallClock.** The clock that the rate limiter, the alias graph, the fake-IP pool and the
upstream selector read; it goes forward and is sometimes set back.

**TokenBucket, RateLimiter.** Levels are counted in fractions of a token, which makes
the floating-point refill exact. `born` and `passed` are history variables for the
rate property.

**Refresh.** A caller runs through mark, slot, budget and thread start, each under
its own lock; a runner resolves, stores, follows dependents and releases. The history
variable `lost` remembers marks and slots that a refused thread or an answer stored
under another key left behind, so that the invariants can say that nothing *else* is
ever lost.

**AliasGraph.** `fwd`, `rev`, `edges`, `seen`; `Link` with the cap and the removal of
replaced edges, `Prune`, and `Closure` as a recursive function over a work list.

**FakeIp, AddressBook.** `FakeIp` has the two maps, the cursor and the access times of
one address space. `AddressBook` is the contract the module documentation states: a
mapped name keeps its address, an address has one name, names may be forgotten.
`KeepsContract` states that every step of `FakeIp` is a step of the book or leaves it
alone.

**Server.** One variable per kind of thread. Every blocking call is a step that is
enabled only when it can return (`accept`, `pop`, `recv`, whose 100 ms timeouts make
them return). `bind_udp` has returned before the first step. `Server::new` raises the
queue's capacity to the number of handlers and both to at least one, which is what
`ServerAssumption` says. `accept` may fail, and where `Panics` holds a handler or connection
thread may panic while it answers: the release profile unwinds, so the thread is gone, its
datagram with it or its connection still counted. `MCServer` bounds datagrams and
connections together.

**Walk.** `frame[d]` is the walk at nesting depth d; `top` is the one under way. The
walk is sequential, and all nondeterminism comes from the servers: any reply, any
delay, any referral of `Referrals`, any name of `Names`. The timeout of an attempt holds for
each blocking call of its exchange by itself: connect, write and every read in `tcp.rs`, each
wait for the next datagram in `udp.rs`. So an exchange lasts up to `Waits` timeouts
(`Durations`); the code sets no limit to their number. A name is the sequence of its labels
from the root. Every reply counts one unit of bytes, a lookup of a name server yields one
address. A name server's address comes from the hosts table (`HostPinned`), the cache
(`HostKnown`), an upstream group (`HostForward`, outside budget and deadline) or a nested walk,
as in `resolve_inner`; records are then validated for as long as that takes (`Finish`). Time is
counted up to one tick past the deadline, since nothing distinguishes later moments. The
sub-millisecond floor of `attempt_timeout_ms` is below the tick of the model.

**Doq, DoqTls, CryptoRx.** The client is one thread, so a connection is a record and each
handler an operator from connection to connection; `Then` is the `?` of the code. A
state is what holds between two receives: `Exchange` is the transport's call, which
reuses the cached connection or opens one; `Receive` takes one datagram through
`process_datagram` to its last frame; `Turn` is the rest of a loop turn (acknowledge,
retransmit, send, look at the deadline) and ends the call when it is done. The environment is a server of a given kind (`Servers`) and a network that
may deliver any packet that server could have sent so far, in any order, repeatedly or
never. A packet carries the secret behind its key: Initial keys come from a connection
identifier alone, the client's own or the one a Retry names (`initialCid`), the others from the
handshake; a server's Retry may name any identifier, the client's own included. `left` is the
time left of the call: a turn takes at least one tick of it, and a `Receive` may take one too,
which the inner receive loop, blind to the deadline, does not notice.
`DoqTls` is the TLS 1.3 client from ServerHello to Finished with keys and
signatures as symbols; `CryptoRx` reassembles CRYPTO frames at unit granularity. Where the
code sends in a loop (`flush_acks`, `flush_query_send`, `run_pto`), the model computes the
packets of the whole loop and their numbers at once and `send_packets` sends them: one
thread does it without looking at its socket, so nobody sees the loop half done. The packets
of a datagram, the frames of a packet and the chunks of `drain_pending` are taken one after
the other by recursive functions.

**Names, RData, Message, Codec.** Octets are small numbers and lengths shrunken
constants (`MaxNameLen`, `MaxPointerOffset`, …), so every length check is met on both
sides of its limit. `RData` describes a record type by the fields of its layout and
reads and writes by that description; `Message` has the header, sections and EDNS;
`Codec` is one exchange: a query is written, read, resolved, the response written,
perhaps truncated or damaged, and read by the asker. A response over TCP is read as far as its
16-bit length prefix says (`framed`, with `FrameWrap` for 2^16). Each loop of the code is a function
of the number of its turns, with one operator for a turn (`label_step`, `write_field`,
`section_step`, …); a reader that has met its end or an error stays where it is.

**Routing, Risk, Serving.** `Routing` and `Risk` are operators (patterns, pins, rules,
gate; ledger, dependencies and the stale decision in thousandths). In `Serving` each
thread runs resolve_key: local answers, one step per link of the cached chain (each a
separate lookup, with other threads between), the stale decision against the shared
ledger, the forwarder group and its failover one server at a time, the gate, the walk
(one outcome), filing. A client network is the sequence of its prefix bits, the global one is
empty; a reply declares a scope, `answer_partition` cuts the asker's network to the shorter of
the two, and a lookup sees every network that encloses the asker's (`Enclosing`), the
narrowest first. A *world* is a configuration with its questions and possible
replies. The properties judge an answer by what its thread kept of how it came about
(`hops`, `kept`, `failed`, `via`); `failed` counts exchanges per server, since groups may
share a server and a group may list one twice. The ledger keeps its own clock, the latest
time any caller brought, and a charge is remembered with that time.

**Dnssec.** A validator takes the process-wide flag or goes without, groups the records,
resolves keys and DS of the first signature's signer (each may fail), and judges.
The signatures of one answer may name several zones. Signatures are symbolic: a signature
verifies exactly when the key that made it, the
records it covers, its dates and its label count all fit.

**Upstream.** Costs in tenths of a millisecond and of a percent; the keyed hash that
draws lots is a table `Draw`, with two endpoints sharing an identifier. A sort is the
rearrangement of a list by a strict order of its places (`Arranged`): by cost and then by
place for `sort_by_cost`, by score and then by identifier for the lottery. A candidate's
weight keeps the floor of a thousandth and the case of a path that costs nothing (`Weighed`).

**MC modules.** `MCShared` extends the four tables it checks, whose names are distinct; `MCShared`, `MCThreads`, `MCAnswers` and `MCSemanticCache` put independent components
into one run: a variable that never changes selects the part a behaviour is about, and
the others stay at their initial values; in `MCThreads` each part has the fairness of its own
module. This is a union of state spaces, not a
composition; the components named in one row of section 3 do not interact there.

## 3. Runs

| Run | Instance | What it shows |
|---|---|---|
| `threads` | calls: 2 threads, 2 keys, table of 1, nested validation of one key; refreshes: 2 callers, chained keys, 1 slot, 1 token | a waiter always has an owner, a result is never replaced, every query returns; slots and marks have an owner, marks are taken off |
| `cache` | tiers: 3 keys, 3 scores, tiers of 1; lookups: nested ECS networks, exact, CNAME and NXDOMAIN answers, a question for ANY, a disabled warm tier; restarts: two ticks to the second, restart anywhere | index exact, capacity, one tier per key, most specific live answer, lifetimes never lengthened |
| `shared` | limiter: 3 clients, 2 buckets, half-token refill; alias graph: all graphs on 3 keys, cap 4; fake-IP: 4 names, 4 addresses, 3 mappings, stride 2; upstream: 4 servers, two with one identifier, 2 path models, 3 records | rate kept; both directions and the counter exact, closure exact; bijection, allocation succeeds, fresh mappings go last, contract; no server lost, lots only among equals, choice independent of list order and of servers withdrawn |
| `server_shutdown` | 1 receiver, 2 handlers, queue of 2, 2 listeners, connection limit 1, 3 datagrams and connections in all; accept fails, threads panic or cannot be started | every datagram read is in one place, none is left when join returns unless every handler panicked, connections keep to the limit but for the race of the accept loops; join returns |
| `walk` | 5 names, one of them pinned and one forwarded, 5 referrals, 1 nested level, exchanges of up to two timeouts, validation, every limit within reach | work bounded, one query begun after the deadline at most, every step uses up a bounded number, termination |
| `doq_connection` | 12 kinds of server, one of which echoes the client's identifier in its Retry, 2 exchanges, 2 turns, 1 probe, 4 packets per space | no query before authentication, packet numbers unique under a key unless a Retry echoed the identifier, CRYPTO data in order, no packet forgotten, every exchange returns if the socket falls quiet again and again |
| `answers` | serving: 2 threads, 5 worlds, client networks of 0, 1 and 2 bits and scopes of 0, 1 and 2; validation: 2 validators, 37 messages, with signatures of a second zone in first and in later place; wire: every record type, damaged, framed and truncated messages | stale answers within window and budget, chain as sure as its weakest link, gate, right group, right transport identity, a network that encloses the client's; verified only if all groups are, honest answers verified; written = read, truncation tight |
| `coalescer_selfwait` (violation) | 1 thread; a zone whose DNSKEY answer is signed by itself | the thread parks on its own slot for ever |
| `server_bindrace` (violation) | shutdown during `bind_tcp` | join never returns |
| `server_drain` (violation) | 1 receiver, 1 handler, 1 datagram | a datagram queued before the flag went up is answered after it |
| `doq_reassembly` (violation) | a response in three STREAM frames of which the second comes last | the response is returned with zeros where the second frame, which arrived, should stand |
| `dnssec_anchor` (violation) | as the validation part of `answers` | an answer whose only signing key has no DS that matches counts as verified |

*Bounds.* Each instance is the smallest in which the interesting cases meet: a table
of one with two keys forces eviction of a slot in use; tiers of one force demotion
through all tiers, eviction and parking; a queue of two with three datagrams forces
drops and waits, and a limit of one connection with two accept loops lets both pass the
comparison before either counts; two callers on one slot and one token force each of the give-back
paths; referral lists of one to four name servers reach every branch of the gate.
Two DoQ exchanges reach reuse, reuse of a failed connection and reconnection; two turns
and one probe reach the retransmission, its loss and the give-up; `MaxPn` bounds what a
server that never falls quiet can draw out of the client. In `walk` two calls of a timeout
each let an exchange outlast a deadline of one timeout, and its TCP retry begin after it;
`FrameWrap` is 160, so that most responses of the catalogue fit into a frame and the longest
do not. Four questions in the stale
world are enough for the risk ledger to admit several and refuse one. Clocks run past
the longest lifetime, retention time or prune age of the instance. `CHECK_DEADLOCK FALSE` is set only where the modelled activity ends (calls
return, the server has shut down, the resolution is over) or a bounded clock runs out.

## 4. Fairness

- *Coalescer*: weak fairness of each call's next step (the operating system runs every
  thread) and strong fairness of taking the table mutex, which is held for short,
  non-blocking sections and is contended by finitely many threads.
- *Refresh*: weak fairness of each caller's and each runner's next step; a resolution
  ends, which the Walk run shows.
- *Server*: weak fairness of each receiver, handler and accept loop, whose calls are
  enabled only when they can return; a connection ends once the flag is set, because
  its reads have a 100 ms timeout; the administrator's `join` goes on when it can.
  Arrival of datagrams and connections is not fair.
- *Walk*: weak fairness of the only thread: every call of a transport has a timeout, and
  an exchange, a forwarded lookup and a validation are taken to end at some time. No bound on
  it is assumed; a flood of datagrams from unexpected sources, against which `udp.rs` waits
  without end, is outside.
- *Doq*: none. `ExchangeReturns` has its condition in the formula: if the socket falls quiet
  again and again, so that the thread gets past the inner receive loop to the rest of its
  turn, the exchange returns. No answer need ever come: it rests on the deadline. Without the
  condition it is false of the code, see section 6.

## 5. Proofs

Eight modules, checked by `tlapm`, for arbitrary constants under named assumptions, which
TLC evaluates on each instance: `ConstantsAssumption` and `EnoughSlots` (Coalescer),
`CacheAssumption`, `WalkAssumption`, `FakeIpAssumption`, `LimiterAssumption`,
`AliasAssumption`, `UpstreamAssumption`, `RefreshAssumption`, `DnssecAssumption`, `RiskAssumption`,
`ServerAssumption`, `ServingAssumption`, `NameLimits`, `WireAssumption`, `DoqAssumption` and
`ServersAssumption`. They type the constants and say what the code guarantees of its
configuration: partitions are closed under truncation, a burst is at least one query,
a table may hold at least one entry, groups and answers are lists, client networks are bit strings, rules are sorted as
`NameserverPolicy::new` leaves them, every record type has a lifetime, the default group is
none of the named ones. `WireAssumption` says what the code's types say of queries and
records, that each field of a record can be written as its kind; and that 512, `MinUdp`, is
at least the 11 octets of an OPT record. Of the octets a server receives nothing is assumed.
`ServersAssumption` says what a QUIC server is: it may say the four
messages of its flight in any order, leave some out and repeat others, and may cut its stream
into any chunks, which overlap or leave holes as it likes.

**CoalescerProofs** — `TypeCorrect`, `NoOrphanedWaiter`, `OwnQuestion`,
`ValidationExclusive`, `InflightBounded`, `ResultStable`. "A waiter has an owner" is
not inductive: a new waiter takes its slot from the table, so the invariant `IInv`
adds that every slot in the table is finished or owned (`TableOwned`) and that slots
carry the key they are filed under, and that a call holds a slot exactly between claim
and return (`SlotHeld`, `KeyHeld`), which is also what makes reuse of slots safe.

**SemanticCacheProofs** — `CacheTypeCorrect`, `TiersStaySound` (`RankNeverDrifts` and
`CapacityHolds` together), `OneCopy`, `NxStoreBounded`, `LivesAreCapped`, `NarrowestAnswers`. Lemmas on the tier
operations (insert, remove, evict, place, spill, park) show that each preserves an exact
index, the capacity and the other tiers; `CInv` adds what a lookup in progress and a load
in progress hold in hand: an entry that is being loaded is in no tier. The bound on the
NXDOMAIN store rests on `Bounded`: eviction from a non-empty table removes something.
The last two theorems rest on one more fact about every operation, `Falls`: what is in a
tier afterwards was there before, or one tier above, or is the entry being stored.
`LifeInv` adds to the caps on what is cached the caps on what a snapshot would give back,
rounded down to seconds. `SearchInv` is about a lookup under way: whatever it could still
answer with lies ahead of it (`Ahead`) on a route that goes from narrow to broad partitions
and, within one, down the tiers (`Route`); an entry that the lookup's own visits demote
falls one tier, and so stays ahead.

**WalkProofs** — `LimitsAreKept` and `StepsRunOut`. The invariant has three parts. `Walks`:
every level is well-formed, only a level that may nest looks for name servers, and the levels
above the one under way wait for an address; this keeps the nesting within `MaxNsDepth`.
`Counters`: every message sent was charged and no counter passes its limit. `Clock`: a query is
begun late only once the deadline has passed, and then none of the levels is at a place from
which another can be begun: each looks at the deadline first, apart from a forwarded AAAA lookup
after an A lookup that outlasted the time. How long an exchange lasts is nowhere used: the
theorem holds for any `Waits`.
`StepsRunOut` is what termination rests on: every step of a resolution lowers one natural
number (`StepsLeft`, `EveryStepCounts`), whatever the servers reply: nine for each attempt
and each lookup of a name server the budget still allows, plus the weight of the level under
way, which is what it can go through before something is charged again, and less for each
level that waits. A charge adds at most eight to the weights. Nothing but the taking of steps is then left to fairness.

**TableProofs** — the tables under a wall clock. Fake-IP pool: `MappingsReversible`,
`AllocationNeverFails`, `FreshMappingsGoLast` and `BookImplemented`, the refinement of
`AddressBook` step by step. The invariant is that the two maps are inverse functions; that
allocation succeeds is a pigeonhole argument, one probe more than there are mappings. Rate
limiter: `NobodyExceedsRate`, and `BucketTableBounded` from the three stages of `Bounded`.
Alias graph: `EdgeCounterNeverDrifts`. `RateRespected` and `EdgesExact` are inductive as
they stand: what is still in the bucket is part of the first, the transposed map of the
second. `SearchIsExact`: `closure` finds what is reachable. After n iterations (`Midway`) the
visited keys are reachable, each of them is queued or has its targets visited, and unless the
search is over n keys of those ever queued are done; so as many iterations as there are keys
suffice, and with an empty queue the visited keys are closed under the edges. What the loop
computes is found by counting its iterations (`SearchInTurn`, from `Counting`).
Upstream selector: `OnlyEqualsCompete` and `ChosenForWhatTheyAre`. A list can be arranged in
any strict total order of its places (`SortedExists`: give each place the number of places
before it), so the sorts are permutations in that order; the candidates within the band are an
initial segment of the list by cost (`BandFacts`), and the lottery rearranges that segment
only. Which of two servers comes first then depends on their costs, scores and identifiers
and on the lowest cost (`RankFacts`, `PrecedesIff`), none of which a withdrawn server or
another order of the list changes. That costs are numbers is the invariant `SelectorTypeOK`.
Server: `NothingUnaccounted`. The invariant `ServerInv` says that each datagram is in the
hands of one receiver, in one place of the queue, in the hands of one handler or answered
(`OneReader`, `OnePlace`, `OneHandler`, `Counted`); that a handler leaves only an empty queue
with the flag up or panics, and that `push` refuses under the same lock from then on; that connections
running and starting are counted, and those of them that accept loops have let through but
not counted are one per loop (`ConnInv`); and that `join` waits on the handles of all
receivers and handlers (`JoinInv`). So nothing is left behind when `join` returns, unless every
handler has panicked. A count that a panicked connection leaves behind only lowers the limit.

**RefreshProofs** — `NoSlotLeaks`, `NoMarkIsOrphaned`. The slot count equals the number of
callers and runners that owe a release plus what refused threads left, and every mark is
owned or accounted for in `lost`; both need to know at which step a caller holds what.

**AnswersProofs** — `EveryRRsetIsSigned`, `HonestAnswersVerify`, `TruncationIsTight`. In
`Dnssec`, every validation in progress
satisfies `Good`: what it has still to look at and what it has judged make up the message
(`Trying`), what it calls verified is signed (`Sound`), and an honest answer has not been
found wanting so far (`Complete`), where honest means that the zone named by the first
signature covering a group has a key that signs it. Neither theorem says that the key is anchored, see the
run `dnssec_anchor`.

`TruncationIsTight` is about `fit_sections`, which counts in one pass, over a message with
the TC bit set and all its records, how many records a shorter message with other counts in
its header will have room for. The proof compares two writers. They are `Alike` when they
know the same names at the same offsets and have written equally many octets, and writing
the same question or record with either keeps them so (`NameAlike` for compressed names,
`PayloadAlike`, `PatchAlike` for the length field, `RecordsAlike`); so the length counted
for the first n records is that of the message kept, less its OPT record (`PartWritten`),
and the first record over the budget is the one that would not have fitted (`FirstOver`).
What remains is that every response can be written: the questions it repeats are those that
`parse_message` accepted, of a damaged query too, which are questions whatever the octets
were (`MessageRead`); its records and its own OPT record are by the assumption
(`HandledSendable`). The invariant is `Inflight` beside the property: a query in flight
consists of octets.

**ServingProofs** — `StaleRiskIsBudgeted`, `StaleByWeakestLink`, `BogusIsGated`,
`RightGroupAnswers`, `TransportsKeepIdentity`, `NetworksStayApart`. The invariant has a part
for the shared state (`CacheInv`: what is filed under a network was declared valid for it;
`SetsInv`: transports match the set they are in; `LedgerInv`: the debt covers what was
charged and not drained since) and, for each thread, one part for each thing it carries
along: what it was asked and for which network, the links of the chain with each hop
accounted for in its provenance, which servers failed how often and which are left, and the
identity of the transport in use.

**DoqProofs** — `NumbersNeverRepeat`, `UnacknowledgedIsHeld`, `CryptoStreamIntact`,
`OnlyAuthenticated`, for any server, any loss, repetition and order of datagrams, any
windows and sizes. Two invariants of the connection, each kept by every handler on the way
from a datagram to the last frame in it. `Good` is about packets: a number on the wire is
below its space's next one, where the Initial packets of an older ClientHello do not count
(`WireOK`), since they are under the key of the client's own identifier and the later ones
under that of the Retry's (`KeysOK`), which the theorem's condition says is another; what is held was sent (`SentOK`); data is held or
acknowledged (`HeldOK`). That the packets of a retransmission get different numbers is an
argument about ranks in a finite set (`RankBatch`). `Sound` is about the handshake: each
buffer holds a piece of its stream at its offset and no chunk that could be absorbed
(`RxOK`, `Drained`); either nothing was fed yet (`Begun`), or exactly the ServerHello and the
first k messages of the flight were, which have the types the client expects in that order
(`Heard`), and keys to write with exist only from the fourth on; a connection that may still
be retried has seen nothing of the server (`Untouched`), and nothing but Initial packets was
sent without those keys (`Guarded`). Each stays true also of a connection that fails halfway,
or the connection has failed and is dropped (`Safe`).
The handlers' recursive functions are unfolded by counting: the numbers for which a claim
holds contain zero and every successor (`Counting`, from the well-foundedness of `<`), stated
as a set because the prover cannot instantiate an induction rule with a predicate.

Attempts to prove a property also corrected the statement of four. `RiskWindow` first
spoke of the callers' clocks, and is false of them: a later caller that is refused advances
the ledger's clock, so it speaks of that one. `RightGroup` needed counts instead of sets of
failed servers, and has to allow for equally specific rules. `MostSpecificAnswer` did not
except questions for ANY, which `cache/mod.rs:773` never redirects. `AuthenticatedTraffic`
spoke of a flight of exactly four messages; a server may say more, and a connection stays up
until the fifth is refused.

`TypeOK`, `SlotMatchesKey`, `GuardExclusive`, `TableBounded` (Coalescer), `TypeOK`,
`NxBounded` (SemanticCache), `BucketsBounded` (RateLimiter) and `SelectorTypeOK` (Upstream)
are stated by theorems and lemmas only; no run repeats them.

*Only model-checked*: all liveness (`EveryQueryReturns`, `MarksClear`,
`ShutdownCompletes`, `Terminates`, `ExchangeReturns`), since the prover
has no support for fairness (`Terminates` follows from `EveryStepCounts` and the weak
fairness of the one thread, a step the prover cannot take); and `RoundTrip`, that the
codec's readers invert its writers: it follows compression pointers back through what was
written, record by record and label by label, which needs an induction over the message in
which every claim is about the octets that recursive functions computed.

## 6. Divergences between the code and what it says

Five are runs of their own (`coalescer_selfwait`, `server_bindrace`, `server_drain`,
`doq_reassembly`, `dnssec_anchor`), see the findings in `PROJECT.json`. Others, met while modelling; the
models follow the code:

Resolver, cache, tables and server:

- `resolver.rs:714`: `Owner::release` removes the entry of its key without checking
  that it still holds its own slot. After `publish` a new claimant may have replaced
  the finished slot; the late release then unlinks a live slot, and the next claimant
  becomes a second owner. `resolver.rs:740` says "One thread resolves a key, everyone
  else waits for its result."
- `cache/mod.rs:927`: `park` inserts into the cold tier whatever its capacity, so with
  `cold_capacity` 0 stale entries pile up; `cache/mod.rs:920-922` says the tier "never
  grows past its capacity". `CapacityBound` is about positive capacities.
- `cache/mod.rs:966`: `lookup_cname` puts a NODATA entry it meets back by score whatever
  its age, so an expired entry can climb from the cold tier; `cache/mod.rs:925-926` says
  "never migrated upward".
- `cache/mod.rs:1073`: `insert_negative` keeps the `validated` flag of the positive entry
  it overwrites.
- `policy.rs:135`: buckets idle for the retention time are dropped whatever the burst and
  rate; `policy.rs:31-33` says such a bucket has refilled, which is so only when
  burst / rate is within the retention time, as in the run.
- `cache/mod.rs:1030`: an insert clears the refreshing mark whoever inserts, so a second
  refresh of the key may start while the first runs; `cache/mod.rs:1244-1245` promises
  deduplication.
- `resolver.rs:2685`, `server.rs:351`: the result of starting a thread is discarded; a
  refused thread leaves its refresh slot, mark or connection count behind.
- `resolver.rs:2689`: a refresh whose answer is stored under another partition, or in the
  NXDOMAIN store, leaves its mark behind.
- `alias.rs:134`: the closure compares its size with `max` only between expansions and can
  return more than `max` keys.
- `fakeip.rs:539`: `restore` does not look at the cap. `fakeip.rs:577`: when every mapping
  is fresh, a stride in address order is dropped, not the least recently used.
- `server.rs:313`, `server.rs:353`: a panic in `answer` ends a handler thread, which nothing
  replaces, or leaves a connection counted for ever. `server.rs:351`: `join` does not
  wait for connection threads. `server.rs:345`: the connection limit is checked and
  counted in separate steps, which is safe with one accept loop only.
- `transports/tcp.rs:51-65`, `transports/udp.rs:40-72`: the timeout of an attempt is given anew to
  connect, write and every read, and after each datagram from an unexpected source, so an
  exchange may outlast it; `resolver.rs:2392-2394` says the timeout is clipped "so the last
  exchange cannot run past the deadline". `LimitsKept` therefore says nothing of when the last
  exchange ends, only that at most one more query begins.
- `server.rs:447`: the length of a TCP frame is `response.len() as u16`, which wraps at 65536
  octets; `server.rs:444` says "TCP carries full responses; no truncation." `RoundTrip` is about
  responses a frame can hold (`Framed`).
- `resolver.rs:2451`: the retry over TCP is given the timeout computed before the first
  exchange and may begin after the deadline, is charged neither as a message nor for its
  bytes, and its reply skips the tests for failure codes and empty messages.
- `resolver.rs:2359`: an attempt is charged before the deadline is looked at, so a message
  that is never sent may be charged.
- `resolver.rs:2014`: a referral need only be below the current zone, not towards the name
  asked for.
- `resolver.rs:1816`: an alias target taken from the cache contributes its original TTL,
  not what is left of it.
- Each lookup of a name server charges one, though it may resolve A and AAAA; a nested
  `resolve_inner` may be forwarded without the budget; the key and DS resolutions of a
  validation get budgets and deadlines of their own.
- `cache/persist.rs`: a restored entry's record TTL is recomputed without the cap that the
  entry's own expiry keeps.

DNS over QUIC:

- `quic.rs:553-579`: the inner receive loop looks at neither deadline nor completion while
  datagrams keep arriving; `quic.rs:534-535` says the event loop runs "until `done()` is true,
  the deadline passes, or the peer closes the connection". `ExchangeReturns` names the condition
  under which the deadline is kept.
- `process_retry` (`quic.rs:1018-1027`) takes any identifier a Retry names, derives the
  Initial keys from it and starts the packet numbers again. When it is the client's own
  identifier the keys are the old ones, and number 0 is used twice under one key. No document
  of the repository speaks of it; `NonceUnique` leaves the case out and says so.
- ACK-only packets are counted as ack-eliciting and retransmitted, although the
  documentation says they are not; several ack-eliciting frames are not acknowledged.
- Initial packets stay in `sent` after the handshake is confirmed; a retransmitted Initial
  is not padded, although `quic.rs:607-609` and `quic.rs:640` say an Initial is.
- `CryptoRx` keeps the first of two chunks at one offset, also when the second is longer.
- `conn_used` is reset per query, `peer_max_stream_data` is not reset per stream, and the
  send limit comes from the wrong transport parameter (0x05, not 0x06); a chunk may exceed
  `allow`.
- The server's identifier is learned before the packet is authenticated; a dropped packet
  drops the rest of its datagram; a malformed header fails the whole exchange.
- The transport reuses its connection whatever endpoint is asked for; connect and exchange
  each get the full timeout.

Wire codec:

- `name.rs:148-151` promises nesting by whole labels, but `is_subdomain_of` compares octets
  and takes a length octet inside a label for a boundary.
- `from_ascii` starts its total at 0 and accepts a name one octet longer than `from_wire`.
- `MAX_POINTER_HOPS`: its comment does not hold for chains of pointers; forward pointers
  are accepted.
- `truncate_for_udp` says "a minimal message always fits", which an echo of 16 questions
  need not.
- `Padding(n)` is read as a length (`edns.rs:452`) and written empty (`edns.rs:382`), so the
  length is lost when a message is served on (`RoundTrip` names this); type bitmaps are re-sorted; unknown record data with
  compressed names is served again with stale pointers.
- Parsed responses are lower-cased, so the exact-case (0x20) comparison never
  distinguishes.

Serving, routing and upstream:

- `resolver.rs:1646`: the chain follows the alias of the asker's network but serves the
  record of a second lookup of the plain key, so an answer can hold `a CNAME b` followed
  by the address of c; `resolver.rs:410` says "The answer chain (CNAME/DNAME + final
  records), in order." An alias known only for a network is never usable from the cache.
- Targets of aliases and names of name servers bypass hosts, fake-IP and block rules.
- An AAAA question for a name the fake-IP filter excludes gets NODATA when there is no
  IPv6 range, although excluded names are said to resolve for real.
- `routing.rs`: "outcome never depends on config order" does not hold for two label-wise
  patterns with the same number of labels.
- `upstream.rs`: an unmeasured server does not rank ahead of a measured one whose cost is
  below the assumed round trip.
- When the fallback group fails, the poisoned answer is served and cached. A cached alias
  is served with its original TTL; an answer from the NXDOMAIN store has TTL 0 and keeps
  `validated`.
- A library user who sets `engine.forwarders` only gets a pool that `forward_route` never
  uses.

DNSSEC:

- `validate_rrset` says a key that does not match is Indeterminate; `verify_rrsig` returns
  `Ok(false)` for another algorithm or tag, and the group is Bogus.
- `verify_section` counts signed groups only, so `authority_authenticated` can be
  `Some(true)` with unsigned groups, although its comment says every group. The signatures
  of the authority section are dropped before, and the result is never consulted for AD.
- Only the first signature's signer is looked up (`dnssec/mod.rs:717-736`), and nothing checks
  that it encloses the owner. A signature in first place that names another zone, or one
  without keys, therefore spoils an answer that is properly signed behind it; `HonestIsVerified`
  is about answers whose first covering signature names the zone that signs.
- A forwarded answer is validated twice; the second result wins, and may be Indeterminate
  only because another thread holds the flag.

## 7. Plan

Done: coalescing, cache with its persistent tier, walk with its budget, refresh, rate
limiter, alias graph, fake-IP pool, server, serving with routing and risk, upstream
selection, DNSSEC verdicts, wire codec, DNS over QUIC.

Every safety property of a run is a theorem, apart from `RoundTrip`. Worth proving next: that
every offset the compressor knows is where its name can be read, the invariant of a writer
that `RoundTrip` would rest on.

## 8. Not modelled

- Cryptography and randomness: arithmetic on large words, checked against vectors. In
  `Doq` and `Dnssec` keys, signatures and digests are symbols.
- Statistical models (`estimator.rs`, `stability.rs`, `hazard.rs`, `behavior.rs`,
  `calibration.rs`) and float helpers: real-valued. Where their output decides something,
  the models let any value of a set come out.
- The value of information (`voi.rs`) and the prefetch policy of `planner.rs`: real-valued
  rankings of optional work; which refreshes are scheduled is arbitrary in `Refresh`.
- Configuration: one document read at start-up; its limits are the constants of the models.
- Errors and statistics: counters nothing depends on. Debug formatting and the name tables
  of types and codes.
- UDP, TCP, TLS and HTTP transports: one blocking exchange per call through the operating
  system or an external library; `Walk` and `Serving` model what an exchange may return.
