------------------------------- MODULE Server -------------------------------
(***************************************************************************)
(* The client-facing server (src/server.rs): UDP receivers feed a bounded  *)
(* queue that handler threads empty; each TCP listener has an accept loop  *)
(* that starts a thread per connection; shutdown sets a flag every loop    *)
(* looks at and wakes the accept loops by connecting to them; join waits   *)
(* for the threads it knows.  bind_udp has returned before the first step. *)
(***************************************************************************)
EXTENDS Naturals, Sequences, FiniteSets

CONSTANTS
    Receivers, Handlers,   \* dns-udp-recv and dns-udp-handler threads
    Listeners,             \* TCP listeners, with their dns-tcp-accept threads
    Conns,                 \* identities of dns-tcp threads
    QueueCap,              \* WorkQueue capacity, udp_queue.max(udp_handlers.max(1))
    MaxTcp,                \* max_tcp_connections, 0 for unlimited
    BindRaces,             \* whether shutdown may be called during a bind_tcp
    SpawnFails,            \* whether the system may refuse to start a thread
    Panics,                \* whether answering a query may panic
    MaxDatagrams,          \* bound on the datagrams that arrive
    MaxConnects            \* bound on the connections clients open

ASSUME ServerAssumption ==
    /\ IsFiniteSet(Receivers) /\ IsFiniteSet(Handlers)
    /\ IsFiniteSet(Listeners) /\ IsFiniteSet(Conns)
    /\ Receivers # {} /\ Handlers # {}       \* udp_workers.max(1), udp_handlers.max(1)
    /\ QueueCap \in Nat /\ QueueCap >= Cardinality(Handlers)
    /\ MaxTcp \in Nat
    /\ BindRaces \in BOOLEAN /\ SpawnFails \in BOOLEAN /\ Panics \in BOOLEAN
    /\ MaxDatagrams \in Nat /\ MaxConnects \in Nat

VARIABLES
    flag,       \* the shutdown flag
    queue,      \* WorkQueue: the datagrams waiting for a handler
    arrived,    \* datagrams that have arrived; they are numbered
    receiver,   \* receiver[r]: where it is, and the datagram it read
    handler,    \* handler[h]: where it is, and the datagram it answers
    answered,   \* the datagrams that got a response (history)
    shed,       \* udp_shed
    listener,   \* listener[l]: where the accept loop is
    backlog,    \* backlog[l]: connections waiting in the system's queue
    connects,   \* connections clients have opened so far
    count,      \* tcp_connections
    conn,       \* conn[c]: whether a connection thread is running
    handles,    \* the thread handles join waits for
    addrs,      \* tcp_addrs: the listeners shutdown wakes
    stopper,    \* where the caller of shutdown is
    joiner      \* where the caller of join is, and the handles it took

udp == <<queue, arrived, receiver, handler, answered, shed>>
tcp == <<listener, backlog, connects, count, conn>>
admin == <<flag, handles, addrs, stopper, joiner>>
vars == <<udp, tcp, admin>>

Init ==
    /\ flag = FALSE /\ queue = <<>> /\ arrived = 0
    /\ receiver = [r \in Receivers |-> [pc |-> "check", job |-> 0]]
    /\ handler = [h \in Handlers |-> [pc |-> "pop", job |-> 0]]
    /\ answered = {} /\ shed = 0
    /\ listener = [l \in Listeners |-> "unbound"]
    /\ backlog = [l \in Listeners |-> 0]
    /\ connects = 0 /\ count = 0
    /\ conn = [c \in Conns |-> FALSE]
    /\ handles = Receivers \cup Handlers
    /\ addrs = {} /\ stopper = "idle"
    /\ joiner = [pc |-> "idle", taken |-> {}]

-----------------------------------------------------------------------------
(* UDP *)

\* The top of udp_recv_loop.
Check(r) ==
    /\ receiver[r].pc = "check"
    /\ receiver' = [receiver EXCEPT ![r].pc = IF flag THEN "done" ELSE "recv"]
    /\ UNCHANGED <<queue, arrived, handler, answered, shed, tcp, admin>>

Receive(r) ==
    /\ receiver[r].pc = "recv"
    /\ arrived < MaxDatagrams
    /\ arrived' = arrived + 1
    /\ receiver' = [receiver EXCEPT ![r] = [pc |-> "push", job |-> arrived + 1]]
    /\ UNCHANGED <<queue, handler, answered, shed, tcp, admin>>

\* recv_from returns an error or times out.
ReceiveTimeout(r) ==
    /\ receiver[r].pc = "recv"
    /\ receiver' = [receiver EXCEPT ![r].pc = "check"]
    /\ UNCHANGED <<queue, arrived, handler, answered, shed, tcp, admin>>

\* When push refuses an item.
Refuses == Len(queue) >= QueueCap \/ flag

\* push, under the queue's lock.
Push(r) ==
    /\ receiver[r].pc = "push"
    /\ IF Refuses THEN shed' = shed + 1 /\ UNCHANGED queue
       ELSE queue' = Append(queue, receiver[r].job) /\ UNCHANGED shed
    /\ receiver' = [receiver EXCEPT ![r] = [pc |-> "check", job |-> 0]]
    /\ UNCHANGED <<arrived, handler, answered, tcp, admin>>

\* pop, under the queue's lock: an item goes before the flag.
Pop(h) ==
    /\ handler[h].pc = "pop"
    /\ queue # <<>>
    /\ queue' = Tail(queue)
    /\ handler' = [handler EXCEPT ![h] = [pc |-> "answer", job |-> Head(queue)]]
    /\ UNCHANGED <<arrived, receiver, answered, shed, tcp, admin>>

\* pop returns None; until then it waits, at most 100 ms at a time.
PopNone(h) ==
    /\ handler[h].pc = "pop"
    /\ queue = <<>> /\ flag
    /\ handler' = [handler EXCEPT ![h].pc = "done"]
    /\ UNCHANGED <<queue, arrived, receiver, answered, shed, tcp, admin>>

\* answer and send_to.
Answer(h) ==
    /\ handler[h].pc = "answer"
    /\ answered' = answered \cup {handler[h].job}
    /\ handler' = [handler EXCEPT ![h] = [pc |-> "pop", job |-> 0]]
    /\ UNCHANGED <<queue, arrived, receiver, shed, tcp, admin>>

\* answer panics: the thread unwinds with the datagram, and nobody starts another.
HandlerPanics(h) ==
    /\ Panics
    /\ handler[h].pc = "answer"
    /\ handler' = [handler EXCEPT ![h].pc = "crashed"]
    /\ UNCHANGED <<queue, arrived, receiver, answered, shed, tcp, admin>>

-----------------------------------------------------------------------------
(* TCP *)

ClientConnects(l) ==
    /\ listener[l] # "unbound" /\ listener[l] # "done"
    /\ connects < MaxConnects
    /\ connects' = connects + 1
    /\ backlog' = [backlog EXCEPT ![l] = @ + 1]
    /\ UNCHANGED <<udp, listener, count, conn, admin>>

\* accept returns a stream, and the loop looks at the flag.
Accept(l) ==
    /\ listener[l] = "accept"
    /\ backlog[l] > 0
    /\ backlog' = [backlog EXCEPT ![l] = @ - 1]
    /\ listener' = [listener EXCEPT ![l] = IF flag THEN "done" ELSE "load"]
    /\ UNCHANGED <<udp, connects, count, conn, admin>>

\* accept returns an error, with a connection that was reset or without one: the
\* loop looks at the flag and goes on.
AcceptFails(l) ==
    /\ listener[l] = "accept"
    /\ \E gone \in {0, 1} : gone <= backlog[l] /\ backlog' = [backlog EXCEPT ![l] = @ - gone]
    /\ listener' = [listener EXCEPT ![l] = IF flag THEN "done" ELSE "accept"]
    /\ UNCHANGED <<udp, connects, count, conn, admin>>

\* Fault: one connection too many.
LoadCountLate(l) ==
    /\ listener[l] = "load"
    /\ listener' = [listener EXCEPT ![l] = IF MaxTcp > 0 /\ count > MaxTcp THEN "accept" ELSE "add"]
    /\ UNCHANGED <<udp, backlog, connects, count, conn, admin>>

\* The count is compared with the limit; at the limit the stream is dropped.
LoadCount(l) ==
    /\ listener[l] = "load"
    /\ listener' = [listener EXCEPT ![l] = IF MaxTcp > 0 /\ count >= MaxTcp THEN "accept" ELSE "add"]
    /\ UNCHANGED <<udp, backlog, connects, count, conn, admin>>

AddCount(l) ==
    /\ listener[l] = "add"
    /\ count' = count + 1
    /\ listener' = [listener EXCEPT ![l] = "spawn"]
    /\ UNCHANGED <<udp, backlog, connects, conn, admin>>

SpawnConn(l) ==
    /\ listener[l] = "spawn"
    /\ \E c \in Conns : ~conn[c] /\ conn' = [conn EXCEPT ![c] = TRUE]
    /\ listener' = [listener EXCEPT ![l] = "accept"]
    /\ UNCHANGED <<udp, backlog, connects, count, admin>>

\* The error of spawn is discarded.
SpawnRefused(l) ==
    /\ SpawnFails
    /\ listener[l] = "spawn"
    /\ listener' = [listener EXCEPT ![l] = "accept"]
    /\ UNCHANGED <<udp, backlog, connects, count, conn, admin>>

\* tcp_conn returns: the peer closed, a deadline passed, a write failed or the
\* flag is up.
ConnEnds(c) ==
    /\ conn[c]
    /\ conn' = [conn EXCEPT ![c] = FALSE]
    /\ count' = count - 1
    /\ UNCHANGED <<udp, listener, backlog, connects, admin>>

\* answer panics: the thread unwinds past the fetch_sub.
ConnPanics(c) ==
    /\ Panics
    /\ conn[c]
    /\ conn' = [conn EXCEPT ![c] = FALSE]
    /\ UNCHANGED <<udp, listener, backlog, connects, count, admin>>

-----------------------------------------------------------------------------
(* bind_tcp, shutdown and join *)

\* The accept thread starts and its handle is kept.
Bind(l) ==
    /\ listener[l] = "unbound"
    /\ BindRaces \/ stopper = "idle"
    /\ listener' = [listener EXCEPT ![l] = "accept"]
    /\ handles' = handles \cup {l}
    /\ UNCHANGED <<udp, backlog, connects, count, conn, flag, addrs, stopper, joiner>>

\* Then its address is recorded.
Register(l) ==
    /\ listener[l] # "unbound"
    /\ l \notin addrs
    /\ addrs' = addrs \cup {l}
    /\ UNCHANGED <<udp, tcp, flag, handles, stopper, joiner>>

Shutdown ==
    /\ stopper = "idle"
    /\ BindRaces \/ \A l \in Listeners : listener[l] # "unbound" => l \in addrs
    /\ flag' = TRUE
    /\ stopper' = "wake"
    /\ UNCHANGED <<udp, tcp, handles, addrs, joiner>>

\* Fault: the accept loops are left to find out by themselves.
WakeNobody ==
    /\ stopper = "wake"
    /\ stopper' = "done"
    /\ UNCHANGED <<udp, tcp, flag, handles, addrs, joiner>>

\* The listeners on record are connected to.
Wake ==
    /\ stopper = "wake"
    /\ stopper' = "done"
    /\ backlog' = [l \in Listeners |->
                     IF l \in addrs /\ listener[l] # "done" THEN backlog[l] + 1 ELSE backlog[l]]
    /\ UNCHANGED <<udp, listener, connects, count, conn, flag, handles, addrs, joiner>>

\* join takes the handles there are,
Join ==
    /\ joiner.pc = "idle"
    /\ joiner' = [pc |-> "wait", taken |-> handles]
    /\ handles' = {}
    /\ UNCHANGED <<udp, tcp, flag, addrs, stopper>>

ThreadEnded(t) ==
    /\ t \in Receivers => receiver[t].pc = "done"
    /\ t \in Handlers => handler[t].pc \in {"done", "crashed"}
    /\ t \in Listeners => listener[t] = "done"

\* and waits for each of them; that one panicked is ignored.
Joined ==
    /\ joiner.pc = "wait"
    /\ \A t \in joiner.taken : ThreadEnded(t)
    /\ joiner' = [joiner EXCEPT !.pc = "joined"]
    /\ UNCHANGED <<udp, tcp, flag, handles, addrs, stopper>>

-----------------------------------------------------------------------------
ReceiverStep(r) == Check(r) \/ Receive(r) \/ ReceiveTimeout(r) \/ Push(r)
HandlerStep(h) == Pop(h) \/ PopNone(h) \/ Answer(h)
ListenerStep(l) == Accept(l) \/ LoadCount(l) \/ AddCount(l) \/ SpawnConn(l) \/ SpawnRefused(l)
AdminStep == (\E l \in Listeners : Register(l)) \/ Wake \/ Joined

Next ==
    \/ \E r \in Receivers : ReceiverStep(r)
    \/ \E h \in Handlers : HandlerStep(h) \/ HandlerPanics(h)
    \/ \E l \in Listeners : ClientConnects(l) \/ ListenerStep(l) \/ AcceptFails(l) \/ Bind(l)
    \/ \E c \in Conns : ConnEnds(c) \/ ConnPanics(c)
    \/ AdminStep \/ Shutdown \/ Join

Spec == Init /\ [][Next]_vars

(* Threads are scheduled, and every blocking call of a loop is bounded: reads
   and the queue's wait time out after 100 ms, a resolution has its deadline,
   accept returns once a connection waits.  That it fails, or that a thread
   panics, is never relied on. *)
Fairness ==
    /\ \A r \in Receivers : WF_vars(ReceiverStep(r))
    /\ \A h \in Handlers : WF_vars(HandlerStep(h))
    /\ \A l \in Listeners : WF_vars(ListenerStep(l))
    /\ \A c \in Conns : WF_vars(flag /\ ConnEnds(c))
    /\ WF_vars(AdminStep)

FairSpec == Spec /\ Fairness

-----------------------------------------------------------------------------
\* Receivers with a datagram in hand, handlers with one (those it made panic
\* included), listeners past the limit that have yet to start a thread, and the
\* threads that run.
Reading == {r \in Receivers : receiver[r].pc = "push"}
Answering == {h \in Handlers : handler[h].pc \in {"answer", "crashed"}}
Crashed == {h \in Handlers : handler[h].pc = "crashed"}
Starting == {l \in Listeners : listener[l] = "spawn"}
Running == {c \in Conns : conn[c]}

ServerTypeOK ==
    /\ flag \in BOOLEAN /\ queue \in Seq(Nat) /\ arrived \in Nat /\ shed \in Nat
    /\ receiver \in [Receivers -> [pc : {"check", "recv", "push", "done"}, job : Nat]]
    /\ handler \in [Handlers -> [pc : {"pop", "answer", "done", "crashed"}, job : Nat]]
    /\ answered \subseteq 1 .. arrived
    /\ listener \in [Listeners -> {"unbound", "accept", "load", "add", "spawn", "done"}]
    /\ backlog \in [Listeners -> Nat] /\ connects \in Nat /\ count \in Nat
    /\ conn \in [Conns -> BOOLEAN]
    /\ handles \subseteq Receivers \cup Handlers \cup Listeners /\ addrs \subseteq Listeners
    /\ stopper \in {"idle", "wake", "done"}
    /\ joiner \in [pc : {"idle", "wait", "joined"}, taken : SUBSET (Receivers \cup Handlers \cup Listeners)]

(* Whatever receivers, handlers and a shutdown do at the same time, every
   datagram read is in one hand, in the queue, answered or counted in udp_shed,
   and none twice.  Once join has returned it was answered, counted, or made its
   handler panic, and the queue is empty, no push having slipped in behind the
   last handler, unless every handler had panicked. *)
DatagramsAccounted ==
    /\ Len(queue) <= QueueCap
    /\ arrived = Cardinality(Reading) + Len(queue) + Cardinality(Answering)
                    + Cardinality(answered) + shed
    /\ joiner.pc = "joined" =>
         /\ arrived = Len(queue) + Cardinality(Crashed) + Cardinality(answered) + shed
         /\ queue # <<>> => Crashed = Handlers

(* "Maximum concurrent TCP connections": a single accept loop keeps to it, and
   several, which compare and count in separate steps, pass it by one each at
   most; threads the system refuses to start and threads that panic, whose
   count is never taken back, do not raise it. *)
ConnsBounded ==
    MaxTcp > 0 =>
        Cardinality(Running) + Cardinality(Starting) < MaxTcp + Cardinality(Listeners)

(* What is read and what is accepted is accounted for. *)
Accounted == ServerTypeOK /\ DatagramsAccounted /\ ConnsBounded

(* "Every loop it starts can be stopped ... after which Server::join returns". *)
ShutdownCompletes == (flag /\ joiner.pc = "wait") ~> joiner.pc = "joined"

(* "Queued datagrams ... are dropped: a shutdown is not a drain": with the flag
   up no handler is given a datagram any more. *)
DroppedAtShutdown ==
    [][flag => \A h \in Handlers : handler'[h].job \in {0, handler[h].job}]_vars
=============================================================================
