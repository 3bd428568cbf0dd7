--------------------------------- MODULE Doq ---------------------------------
(***************************************************************************)
(* DNS over QUIC: the transport with its one cached connection             *)
(* (src/transports/doq/mod.rs) and the QUIC client below it                *)
(* (src/transports/doq/quic.rs).                                           *)
(*                                                                         *)
(* The client is one thread: it receives datagrams until its socket is     *)
(* quiet for ten milliseconds, then acknowledges, retransmits and sends,   *)
(* and looks at its deadline.  The connection is a record, and a handler   *)
(* is an operator from connection to connection; `err` is the `?` of the   *)
(* code.  The server and the network are the environment: whatever an      *)
(* honest or broken server could have sent in answer to the packets on the *)
(* wire may arrive, in any order, any number of times, or never.           *)
(***************************************************************************)
EXTENDS Integers, FiniteSets, DoqTls, CryptoRx

CONSTANTS
    Servers,     \* the server behaviours the environment may choose from
    SendsFail,   \* whether the socket may refuse to send during a turn
    QueryLen,    \* units of a framed query
    RespLen,     \* units of a framed response
    MaxChunk,    \* MAX_CHUNK, in units
    MaxResponse, \* MAX_RESPONSE_BUFFER, in units
    Window,      \* the receive windows the client starts with
    MaxPto,      \* MAX_PTO_COUNT
    MaxTurns,    \* loop turns before a deadline: timeout_ms / 10 ms
    MaxCalls,    \* exchanges the callers make
    MaxPn        \* bound on the packets sent in a space while datagrams keep coming

ASSUME DoqAssumption ==
    /\ {QueryLen, RespLen, MaxChunk, MaxResponse, Window, MaxPto, MaxTurns, MaxPn} \subseteq Nat \ {0}
    /\ MaxCalls \in Nat /\ RespLen <= MaxResponse
    /\ {Verify, HostChecked, SendsFail} \subseteq BOOLEAN

\* A server says handshake messages in some order, and cuts its stream in chunks.
ASSUME ServersAssumption ==
    \A s \in Servers :
        /\ s.order \in Seq({"EE", "CERT", "CV", "FIN"})
        /\ \A k \in s.chunks : {k.off, k.len} \subseteq Nat

VARIABLES
    srv,     \* the server the transport talks to (never changes)
    conn,    \* DoqTransport.conn
    pc,      \* what the thread holding the connection's mutex is doing
    left,    \* time left before the deadline, in turns; below zero it has passed
    calls,   \* exchanges begun
    results  \* what each exchange returned

vars == << srv, conn, pc, left, calls, results >>

-----------------------------------------------------------------------------
Spaces == {"Initial", "Handshake", "Application"}
NoConn == [live |-> FALSE]

\* Connection identifiers: the one the client invents for the server, the
\* server's own, and one a Retry may ask for.  Nothing keeps a server from asking
\* for the identifier it was addressed by.
OriginalDcid == 1
ServerScid == 2
RetryScid == 3

PerSpace(x) == [sp \in Spaces |-> x]

Frame(t) == [t |-> t]
CryptoFrame(msg, n) == [t |-> "CRYPTO", msg |-> msg, n |-> n]
StreamFrame(id, off, len, fin) == [t |-> "STREAM", id |-> id, off |-> off, len |-> len, fin |-> fin]

-----------------------------------------------------------------------------
(* Acknowledgement ranges *)

\* The runs of consecutive numbers of a set, the highest first.
Runs(pns) ==
    LET tops == {n \in pns : n + 1 \notin pns}
        Low(n) == CHOOSE l \in pns : l <= n /\ l..n \subseteq pns /\ (l = 0 \/ l - 1 \notin pns)
    IN  [i \in 1..Cardinality(tops) |->
            LET top == SetToSortSeq(tops, >)[i] IN [low |-> Low(top), len |-> top - Low(top) + 1]]

\* build_ack_frame: (gap, length - 1) pairs below the largest number.
build_ack_frame(pns) ==
    LET runs == Runs(pns)
    IN  [largest |-> runs[1].low + runs[1].len - 1,
         ranges  |-> [i \in DOMAIN runs |->
            [gap |-> IF i = 1 THEN 0 ELSE runs[i - 1].low - (runs[i].low + runs[i].len - 1) - 2,
             len |-> runs[i].len - 1]]]

Sub(a, b) == IF a > b THEN a - b ELSE 0

\* The packet numbers on_ack recovers from the pairs.
Acked(ack) ==
    LET Top(low, i) == IF i = 1 THEN ack.largest ELSE Sub(low, ack.ranges[i].gap + 2)
        low[i \in 0..Len(ack.ranges)] ==
            IF i = 0 THEN ack.largest + 1 ELSE Sub(Top(low[i - 1], i), ack.ranges[i].len)
    IN  UNION {low[i]..Top(low[i - 1], i) : i \in DOMAIN ack.ranges}

-----------------------------------------------------------------------------
(* Sending *)

Failed(c) == [c EXCEPT !.err = TRUE]
Closed(c) == [c EXCEPT !.err = TRUE, !.closed = TRUE]
Then(c, Op(_)) == IF c.err THEN c ELSE Op(c)

HasKey(c, space) ==
    \/ space = "Initial"
    \/ space = "Handshake" /\ "hsWrite" \in c.keys
    \/ space = "Application" /\ "app" \in c.keys

\* Fault: a Retry leaves the Initial keys those of the first identifier.
WriteKeyStale(c, space) == IF space = "Initial" THEN OriginalDcid ELSE c.hello

\* The secret behind the packet key of a space: Initial keys come from an
\* identifier alone, the others from the handshake a ClientHello began.
WriteKey(c, space) == IF space = "Initial" THEN c.initialCid ELSE c.hello

(***************************************************************************)
(* send_packet, for several packets at once: each has the next number of   *)
(* its space, and every packet with a frame (an ACK too) is remembered for *)
(* retransmission.                                                         *)
(***************************************************************************)
send_packets(c, ps) ==
    IF ~c.up \/ \E p \in ps : ~HasKey(c, p.space) THEN Failed(c)
    ELSE [c EXCEPT
            !.wire = @ \cup {[space |-> p.space, key |-> WriteKey(c, p.space), hello |-> c.hello,
                              pn |-> p.pn, frame |-> p.frame, padded |-> p.padded] : p \in ps},
            !.nextPn = [sp \in Spaces |-> c.nextPn[sp] + Cardinality({p \in ps : p.space = sp})],
            !.sent = @ \cup {[space |-> p.space, pn |-> p.pn, frame |-> p.frame] : p \in ps}]

Numbered(space, pn, frame, pad) == [space |-> space, pn |-> pn, frame |-> frame, padded |-> pad]

send_packet(c, space, frame, pad) ==
    send_packets(c, {Numbered(space, c.nextPn[space], frame, pad)})

\* flush_acks: a space's pending numbers are forgotten whether or not the
\* packet could be sent, and the closed Initial space sends none.
flush_acks(c) ==
    LET due == {sp \in Spaces : /\ c.pending[sp] # {} /\ HasKey(c, sp)
                                /\ ~(sp = "Initial" /\ c.confirmed)}
        cleared == [c EXCEPT !.pending = PerSpace({})]
        sending == send_packets(cleared, {Numbered(sp, c.nextPn[sp], Frame("ACK"), sp = "Initial") :
                                            sp \in due})
    IN  IF sending.err THEN cleared ELSE sending

\* flush_query_send: what the peer's limits allow, in chunks, of which one starts
\* wherever less than that was sent; the chunk that reaches the end of the query
\* carries FIN.
flush_query_send(c) ==
    LET room == Min({Sub(c.maxData, c.used), Sub(c.maxStreamData, c.offset), QueryLen - c.offset})
        count == Cardinality({i \in 0..(QueryLen - 1) : i * MaxChunk < room})
        end == Min({c.offset + count * MaxChunk, QueryLen})
        Piece(i) ==
            LET off == c.offset + i * MaxChunk
                take == Min({QueryLen - off, MaxChunk})
            IN  StreamFrame(c.stream, off, take, off + take = QueryLen)
    IN  IF ~c.asking \/ c.finSent \/ room = 0 THEN c
        ELSE send_packets(
                [c EXCEPT !.offset = end, !.used = @ + (end - c.offset), !.finSent = end = QueryLen],
                {Numbered("Application", c.nextPn["Application"] + i, Piece(i), FALSE) :
                    i \in 0..(count - 1)})

(***************************************************************************)
(* run_pto: when the probe timer fired, everything unacknowledged is sent  *)
(* again in its old order, under fresh numbers and without padding.        *)
(***************************************************************************)
run_pto(c, fired) ==
    LET Before(p) == {q \in c.sent : q.space = p.space /\ q.pn < p.pn}
    IN  IF c.sent = {} THEN c
        ELSE IF c.pto >= MaxPto THEN Closed(c)
        ELSE IF ~fired THEN c
        ELSE send_packets(
                [c EXCEPT !.sent = {}, !.pto = @ + 1],
                {Numbered(p.space, c.nextPn[p.space] + Cardinality(Before(p)), p.frame, FALSE) :
                    p \in c.sent})

-----------------------------------------------------------------------------
(* Receiving *)

\* Fault: an acknowledgement removes packets of every space.
AckAnySpace(c, space, ack) ==
    LET hit == {p \in c.sent : p.pn \in Acked(ack)}
    IN  [c EXCEPT !.sent = @ \ hit, !.pto = IF hit # {} THEN 0 ELSE @]

\* on_ack forgets the acknowledged packets of its space; a round-trip sample
\* also ends the back-off.
on_ack(c, space, ack) ==
    LET hit == {p \in c.sent : p.space = space /\ p.pn \in Acked(ack)}
    IN  [c EXCEPT !.sent = @ \ hit, !.pto = IF hit # {} THEN 0 ELSE @]

\* validate_server_transport_params: identifiers are compared when the server
\* sent them, limits replace the defaults when they are not zero.
validate_server_transport_params(c) ==
    LET p == c.tls.params
    IN  IF \/ ~p.present
           \/ p.odcid \notin {NoCid, OriginalDcid}
           \/ p.iscid \notin {NoCid, c.cid}
           \/ c.retried /\ p.rscid \notin {NoCid, c.initialCid}
        THEN Failed(c)
        ELSE [c EXCEPT !.maxData = IF p.maxData > 0 THEN p.maxData ELSE @,
                       !.maxStreamData = IF p.maxStreamData > 0 THEN p.maxStreamData ELSE @,
                       !.maxStreams = IF p.maxStreams > 0 THEN p.maxStreams ELSE @]

\* What on_crypto does with one complete handshake message.
FeedMessage(c, msg) ==
    LET f == feed(c.tls, msg)
        fed == [c EXCEPT !.tls = f.t]
        keyed == validate_server_transport_params([fed EXCEPT !.keys = @ \cup {"hsWrite", "app"}])
    IN  IF ~f.ok THEN Failed(c)
        ELSE IF f.completed
        THEN Then(keyed, LAMBDA d :
                Then(send_packet(d, "Handshake", CryptoFrame("FIN", c.hello), FALSE),
                     LAMBDA e : [e EXCEPT !.confirmed = TRUE, !.pto = 0]))
        ELSE IF "handshake" \in f.t.secrets THEN [fed EXCEPT !.keys = @ \cup {"hsRead"}]
        ELSE fed

\* on_crypto: reassemble, then feed every message that is now complete.  A
\* stream holds at most five messages.
FeedNext(c, space) ==
    IF c.err \/ ~HasMessage(c.rx[space]) THEN c
    ELSE FeedMessage([c EXCEPT !.rx[space] = pop_message(@)], TopMessage(c.rx[space]))

on_crypto(c, space, off, data) ==
    LET Feed(r) == FeedNext(r, space)
    IN  IF space = "Application" THEN c
        ELSE IF Overflows(c.rx[space], data) THEN Failed(c)
        ELSE Feed(Feed(Feed(Feed(Feed([c EXCEPT !.rx[space] = insert(@, off, data)])))))

\* A window more than half used is doubled and advertised.
Replenish(c, used, window, frame) ==
    IF c.err \/ used * 2 <= c.win[window] THEN c
    ELSE Then(send_packet(c, "Application", Frame(frame), FALSE),
              LAMBDA d : [d EXCEPT !.win[window] = 2 * @])

maybe_replenish_windows(c) ==
    Replenish(Replenish(c, Len(c.buf), "stream", "MAX_STREAM_DATA"), c.consumed, "conn", "MAX_DATA")

\* The server opens one unidirectional stream, the DoQ session stream.
maybe_replenish_uni(c) ==
    Replenish(Replenish(c, c.uniUsed, "uni", "MAX_STREAM_DATA"), c.uniOpened, "unis", "MAX_STREAMS")

Zero(id) == [q |-> id, k |-> 0]

(***************************************************************************)
(* on_stream: a server's unidirectional stream is drained, a stream that   *)
(* is not the query's is reset, and response data lands at its offset: a   *)
(* gap is filled with zeros, and of data that starts before the end only   *)
(* what lies past it is kept.                                              *)
(***************************************************************************)
on_stream(c, f) ==
    LET have == Len(c.buf)
        end == f.off + Len(f.data)
        grown == IF f.off > have
                 THEN c.buf \o [i \in 1..(f.off - have) |-> Zero(f.id)] \o f.data
                 ELSE c.buf \o SubSeq(f.data, have - f.off + 1, Len(f.data))
        stored == [c EXCEPT !.buf = grown, !.fin = @ \/ f.fin,
                            !.heard = @ \cup {f.off + i : i \in DOMAIN f.data},
                            !.consumed = Max({@, Len(grown)})]
    IN  IF f.uni THEN maybe_replenish_uni([c EXCEPT !.uniOpened = Max({@, f.id + 1}),
                                                    !.uniUsed = Max({@, end})])
        ELSE IF f.id # c.stream THEN send_packet(c, "Application", Frame("RESET_STREAM"), FALSE)
        ELSE IF Max({have, end}) > MaxResponse THEN Closed(c)
        ELSE maybe_replenish_windows(stored)

\* process_plaintext, one frame.
process_frame(c, space, f) ==
    IF c.err THEN c
    ELSE IF f.t = "ACK"
         THEN [on_ack(c, space, f.ack) EXCEPT !.acked = @ \cup {<< space, pn >> : pn \in Acked(f.ack)}]
    ELSE IF f.t = "CRYPTO" THEN on_crypto(c, space, f.off, f.data)
    ELSE IF f.t = "STREAM" THEN on_stream(c, f)
    ELSE IF f.t = "MAX_DATA" THEN [c EXCEPT !.maxData = Max({@, f.n})]
    ELSE IF f.t = "MAX_STREAM_DATA" /\ f.id = c.stream THEN [c EXCEPT !.maxStreamData = Max({@, f.n})]
    ELSE IF f.t = "MAX_STREAMS" THEN [c EXCEPT !.maxStreams = Max({@, f.n})]
    ELSE IF f.t = "CONNECTION_CLOSE" THEN Closed(c)
    ELSE IF f.t \in {"PATH_CHALLENGE", "NEW_CONNECTION_ID"}
         THEN send_packet(c, "Application", Frame("REPLY"), FALSE)
    ELSE IF f.t = "RESET_STREAM" /\ f.id = c.stream /\ ~c.fin THEN Closed(c)
    ELSE c

\* The connection after each of the first frames of a packet.
AfterFrames(c, space, frames) ==
    LET r[i \in 0..Len(frames)] ==
            IF i = 0 THEN c ELSE process_frame(r[i - 1], space, frames[i])
    IN  r

process_plaintext(c, space, pn, frames) ==
    LET done == AfterFrames(c, space, frames)[Len(frames)]
        eliciting == \E i \in DOMAIN frames : frames[i].t \in {"PING", "CRYPTO", "STREAM"}
    IN  IF done.err \/ ~eliciting THEN done ELSE [done EXCEPT !.pending[space] = @ \cup {pn}]

(***************************************************************************)
(* process_retry: honoured once, before anything of the server was seen;   *)
(* it starts the Initial space again under keys of the identifier it names *)
(* and with a new ClientHello.  Any other Retry closes the connection.     *)
(***************************************************************************)
Retried(c, scid) ==
    [c EXCEPT !.cid = scid, !.initialCid = scid, !.retried = TRUE, !.hello = @ + 1,
              !.nextPn["Initial"] = 0, !.pending["Initial"] = {},
              !.rx["Initial"] = EmptyRx,
              !.sent = {p \in @ : p.space # "Initial"},
              !.tls = client_hello(ClientHandshake(c.hello + 1))]

process_retry(c, scid) ==
    IF c.retried \/ c.confirmed \/ c.sawScid THEN Closed(c)
    ELSE send_packet(Retried(c, scid), "Initial", CryptoFrame("CH", c.tls.hello + 1), TRUE)

\* parse_header refuses a truncated or foreign header: an error, not a drop.
parse_header(p) == p.kind \in {"packet", "retry"}

\* The packet's keys exist and are the ones its sender used.
Opens(c, p) == p.hello = c.tls.hello

Dropped(c, p) ==
    \/ p.space = "Handshake" /\ "hsRead" \notin c.keys
    \/ p.space = "Application" /\ "app" \notin c.keys
    \/ p.space = "Initial" /\ c.confirmed

(***************************************************************************)
(* process_datagram: the packets of a datagram in order.  A dropped packet *)
(* drops the rest of its datagram, and the server's identifier is learned  *)
(* from the first long header, before the packet is authenticated.         *)
(***************************************************************************)
process_packet(c, p) ==
    LET learned == IF p.space # "Application" /\ ~c.sawScid
                   THEN [c EXCEPT !.cid = p.scid, !.sawScid = TRUE] ELSE c
        Stop(d) == [c |-> d, stop |-> TRUE]
    IN  IF c.err THEN Stop(c)
        ELSE IF p.kind = "version" THEN Stop(Closed(c))
        ELSE IF ~parse_header(p) THEN Stop(Failed(c))
        ELSE IF p.kind = "retry" THEN Stop(process_retry(c, p.scid))
        ELSE IF Dropped(c, p) THEN Stop(c)
        ELSE IF ~Opens(learned, p) THEN Stop(learned)
        ELSE [c |-> process_plaintext(learned, p.space, p.pn, p.frames), stop |-> FALSE]

process_datagram(c, dg) ==
    LET r[i \in 0..Len(dg)] ==
            IF i = 0 THEN [c |-> c, stop |-> FALSE]
            ELSE IF r[i - 1].stop THEN r[i - 1] ELSE process_packet(r[i - 1].c, dg[i])
    IN  r[Len(dg)].c

-----------------------------------------------------------------------------
(* The server and the network (not part of the repository) *)

Length(m) == IF m.type = "CERT" THEN 2 ELSE 1
UnitsOf(m) == [k \in 1..Length(m) |-> [msg |-> m, k |-> k, length |-> Length(m)]]

\* The CRYPTO stream of a list of messages.
Units(msgs) ==
    LET r[i \in 0..Len(msgs)] == IF i = 0 THEN << >> ELSE r[i - 1] \o UnitsOf(msgs[i])
    IN  r[Len(msgs)]

ServerHello(s, n) ==
    [type |-> "SH", hello |-> n, wellFormed |-> TRUE, helloRetry |-> FALSE,
     suite |-> s.suite, tls13 |-> TRUE, x25519 |-> TRUE]

\* What a server says next, when it has seen these messages; what it signs is
\* what it saw.
Message(s, kind, seen) ==
    IF kind = "EE" THEN [type |-> "EE", params |-> s.params]
    ELSE IF kind = "CERT" THEN [type |-> "CERT", chain |-> s.chain]
    ELSE IF kind = "CV" THEN [type |-> "CV", scheme |-> s.scheme, over |-> seen]
    ELSE [type |-> "FIN", over |-> seen]

\* What the two sides say in one handshake.
Said(s, n) ==
    LET r[i \in 0..Len(s.order)] ==
            IF i = 0 THEN << [type |-> "CH", hello |-> n], ServerHello(s, n) >>
            ELSE Append(r[i - 1], Message(s, s.order[i], r[i - 1]))
    IN  r[Len(s.order)]

\* The transcripts and the two CRYPTO streams of every server.
Transcripts == [s \in Servers |-> [n \in 1..2 |-> Said(s, n)]]
Streams == [s \in Servers |-> [n \in 1..2 |->
              [Initial   |-> Units(<< ServerHello(s, n) >>),
               Handshake |-> Units(SubSeq(Transcripts[s][n], 3, Len(Transcripts[s][n])))]]]

Packet(space, n, pn, frame) ==
    [kind |-> "packet", space |-> space, hello |-> n, pn |-> pn, scid |-> ServerScid,
     frames |-> << frame >>]
Other(kind) == [kind |-> kind]

Chunk(stream, off, len) ==
    [t |-> "CRYPTO", off |-> off, data |-> SubSeq(stream, off + 1, Min({off + len, Len(stream)}))]

Response(id) == [k \in 1..RespLen |-> [q |-> id, k |-> k]]
ResponseFrame(id, r) ==
    [t |-> "STREAM", uni |-> FALSE, id |-> id, off |-> r.off,
     data |-> SubSeq(Response(id), r.off + 1, Min({r.off + r.len, RespLen})),
     fin |-> r.off + r.len >= RespLen]

\* A server drops an Initial datagram that is not padded.
Greeted(c, n) == \E w \in c.wire : w.padded /\ w.frame = CryptoFrame("CH", n)
Finished(c) == \E w \in c.wire : w.frame.t = "CRYPTO" /\ w.frame.msg = "FIN"
\* The streams whose query has arrived to the last unit.
Asked(c) ==
    {id \in 0..(calls - 1) :
        \A k \in 0..(QueryLen - 1) : \E w \in c.wire :
            w.frame.t = "STREAM" /\ w.frame.id = id /\ k \in w.frame.off..(w.frame.off + w.frame.len - 1)}

Acks(c, n) ==
    LET Received(sp) == {w.pn : w \in {v \in c.wire : v.space = sp /\ v.hello = n}}
    IN  {Packet(sp, n, 0, [t |-> "ACK", ack |-> build_ack_frame(Received(sp))]) :
            sp \in {s \in Spaces : Received(s) # {}}}

Datagrams(c) ==
    LET n == IF srv.retry THEN 2 ELSE 1
        hello == Packet("Initial", n, 0, Chunk(Streams[srv][n].Initial, 0, 1))
        flight == {Packet("Handshake", n, k.pn, Chunk(Streams[srv][n].Handshake, k.off, k.len)) : k \in srv.chunks}
        noise == UNION {
            IF f \in {"version", "malformed"} THEN {Other(f)}
            ELSE IF f = "close" THEN {Packet("Initial", n, 9, Frame("CONNECTION_CLOSE"))}
            ELSE IF ~Finished(c) THEN {}
            ELSE IF f = "session" THEN {Packet("Application", n, 8,
                    [t |-> "STREAM", uni |-> TRUE, id |-> 0, off |-> 0, data |-> << 0 >>, fin |-> FALSE])}
            ELSE IF f = "reset" THEN {Packet("Application", n, 9, [t |-> "RESET_STREAM", id |-> 0])}
            ELSE IF f = "streams" THEN {Packet("Application", n, 9, [t |-> "MAX_STREAMS", n |-> 2])}
            ELSE IF f = "data" THEN {Packet("Application", n, 9, [t |-> "MAX_DATA", n |-> QueryLen]),
                                     Packet("Application", n, 9, [t |-> "MAX_STREAM_DATA", id |-> 0, n |-> QueryLen])}
            ELSE IF \E w \in c.wire : w.frame = Frame("REPLY") THEN {}
            ELSE {Packet("Application", n, 9, Frame(f))} : f \in srv.noise}
    IN  {<< p >> : p \in
            (IF srv.retry /\ Greeted(c, 1) THEN {[kind |-> "retry", scid |-> srv.retryScid]} ELSE {})
            \cup (IF Greeted(c, n) THEN {hello} \cup flight \cup noise \cup Acks(c, n) ELSE {})
            \cup {Packet("Application", n, 10 * id + r.pn, ResponseFrame(id, r)) :
                    id \in Asked(c), r \in srv.resp}}
        \cup (IF Greeted(c, n) THEN {<< hello, p >> : p \in flight} ELSE {})

-----------------------------------------------------------------------------
(* The transport *)

NewConn(up) ==
    [ live |-> TRUE, up |-> up, err |-> FALSE, closed |-> FALSE,
      cid |-> OriginalDcid, initialCid |-> OriginalDcid, sawScid |-> FALSE, retried |-> FALSE, hello |-> 1,
      tls |-> client_hello(ClientHandshake(1)),
      keys |-> {}, confirmed |-> FALSE,
      nextPn |-> PerSpace(0), pending |-> PerSpace({}), rx |-> PerSpace(EmptyRx),
      sent |-> {}, pto |-> 0,
      wire |-> {}, acked |-> {},   \* history: all packets sent, all acknowledged
      asking |-> FALSE, stream |-> 0, opened |-> 0, offset |-> 0, used |-> 0, finSent |-> FALSE,
      buf |-> << >>, fin |-> FALSE,
      heard |-> {},                \* history: the places of the response that arrived
      maxData |-> QueryLen, maxStreamData |-> QueryLen, maxStreams |-> 1,
      win |-> [w \in {"stream", "conn", "uni", "unis"} |-> Window],
      consumed |-> 0, uniOpened |-> 0, uniUsed |-> 0 ]

Sendable == IF SendsFail THEN BOOLEAN ELSE {TRUE}

\* QuicConnection::connect up to its event loop: the padded first Initial.
connect(up) == send_packet(NewConn(up), "Initial", CryptoFrame("CH", 1), TRUE)

\* exchange_query up to its event loop: a fresh stream and the first chunks.
exchange_query(c) ==
    IF ~c.confirmed \/ c.closed \/ c.opened >= c.maxStreams THEN Failed(c)
    ELSE flush_query_send(
            [c EXCEPT !.stream = c.opened, !.opened = @ + 1, !.asking = TRUE, !.offset = 0,
                      !.used = 0, !.finSent = FALSE, !.buf = << >>, !.fin = FALSE, !.heard = {}])

is_open(c) == c.live /\ ~c.closed

\* deframe_response: the length prefix, the first unit, counts the response.
deframe_response(buf) == Len(buf) = RespLen /\ buf[1].k = 1

Return(result) ==
    /\ results' = Append(results, result)
    /\ pc' = "idle"
    /\ left' = 0

\* An error of the connection drops it, so that the next caller reconnects.
Drop == conn' = NoConn /\ Return([ok |-> FALSE, answer |-> << >>, heard |-> {}])

\* A socket that refused to send may accept the next time.
Keep(c) == conn' = [c EXCEPT !.up = TRUE]

Begin(c, stage) ==
    IF c.err THEN Drop
    ELSE Keep(c) /\ pc' = stage /\ left' = MaxTurns /\ UNCHANGED results

\* DoqTransport::exchange: the connection is reused while it is open.
Exchange ==
    /\ pc = "idle" /\ calls < MaxCalls
    /\ calls' = calls + 1
    /\ \E up \in Sendable :
        IF is_open(conn) THEN Begin(exchange_query([conn EXCEPT !.up = up]), "exchange")
        ELSE Begin(connect(up), "connect")
    /\ UNCHANGED srv

\* What is left of the time when a datagram arrived within ten milliseconds;
\* how far the deadline lies back is not counted.
Waited(turns) == {turns, Max({turns - 1, 0})}

\* The inner loop of drive_until: a datagram is there before the socket has
\* been quiet for ten milliseconds.  The loop does not look at the deadline.
Receive ==
    /\ pc # "idle"
    /\ \A sp \in Spaces : conn.nextPn[sp] < MaxPn
    /\ \E dg \in Datagrams(conn), up \in Sendable :
        LET c == process_datagram([conn EXCEPT !.up = up], dg)
        IN  IF c.err THEN Drop
            ELSE Keep([c EXCEPT !.pto = 0]) /\ left' \in Waited(left) /\ UNCHANGED << pc, results >>
    /\ UNCHANGED << srv, calls >>

Done(c) == IF pc = "connect" THEN c.tls.done ELSE c.fin

\* Fault: the deadline is taken anew from the clock of the turn.
DeadlineMoves(turns) == IF turns = MaxTurns THEN MaxTurns + 1 ELSE MaxTurns

\* A turn lasts at least the ten milliseconds the socket was quiet.
Remaining(turns) == turns - 1

(***************************************************************************)
(* The rest of a turn of drive_until, once the socket is quiet:            *)
(* acknowledgements, the probe timer, the query, and the loop condition.   *)
(***************************************************************************)
Turn ==
    /\ pc # "idle"
    /\ \E fired \in BOOLEAN, up \in Sendable :
        LET probed == run_pto(flush_acks([conn EXCEPT !.up = up]), fired)
            c == IF probed.err \/ ~probed.confirmed THEN probed ELSE flush_query_send(probed)
        IN  IF c.err THEN Drop
            ELSE IF Done(c)
            THEN IF pc = "connect" THEN Begin(exchange_query(c), "exchange")
                 ELSE Keep(c) /\ Return([ok |-> deframe_response(c.buf), answer |-> c.buf, heard |-> c.heard])
            ELSE IF c.closed \/ left <= 1 THEN Drop
            ELSE Keep(c) /\ left' = Remaining(left) /\ UNCHANGED << pc, results >>
    /\ UNCHANGED << srv, calls >>

Init ==
    /\ srv \in Servers
    /\ conn = NoConn /\ pc = "idle" /\ left = 0 /\ calls = 0 /\ results = << >>

Finish == pc = "idle" /\ calls = MaxCalls /\ UNCHANGED vars

Next == Exchange \/ Receive \/ Turn \/ Finish

Spec == Init /\ [][Next]_vars

-----------------------------------------------------------------------------
(* Properties *)

\* Queries and the client's Finished leave only after the server's whole flight
\* was verified against this very ClientHello, whatever was replayed, reordered
\* or restarted by a Retry before: on_crypto confirms through feed.
AuthenticatedTraffic ==
    conn.live /\ (\E w \in conn.wire : w.space # "Initial" /\ w.frame.t # "ACK")
        => /\ Verify => srv.chain.trusted /\ srv.chain.serverAuth /\ (HostChecked => srv.chain.named)
           /\ IsPrefix(<< "EE", "CERT", "CV", "FIN" >>, srv.order)
           /\ Len(conn.tls.transcript) >= 6
           /\ IsPrefix(conn.tls.transcript, Transcripts[srv][conn.hello])

\* send_packet never uses a packet number twice under one key, over probe
\* retransmissions and the restart of the numbers a Retry causes, provided the
\* Retry named another identifier than the one the client began with: Initial
\* keys come from the identifier alone, and process_retry does not compare the two.
NonceUnique ==
    conn.live /\ (conn.retried => conn.initialCid # OriginalDcid)
    => \A v, w \in conn.wire :
        (v.space = w.space /\ v.key = w.key /\ v.pn = w.pn) => v = w

\* CryptoRx hands TLS the server's stream as it was sent: whatever was lost,
\* repeated, re-split or reordered, the buffer continues exactly where the last
\* popped message ended, and no chunk that could be absorbed is left pending.
CryptoInOrder ==
    conn.live => \A sp \in {"Initial", "Handshake"} :
        LET rx == conn.rx[sp]
        IN  /\ rx.buf = SubSeq(Streams[srv][conn.hello][sp], rx.start + 1, ContiguousEnd(rx))
            /\ \A off \in DOMAIN rx.pending : off > ContiguousEnd(rx)

\* The data a server never acknowledged is still held for retransmission, so
\* that a lost packet can be sent again: on_ack, run_pto and process_retry drop a
\* packet only for an acknowledgement of its own space or for a newer ClientHello.
NothingForgotten ==
    conn.live => \A w \in conn.wire :
        (w.frame.t \in {"CRYPTO", "STREAM"} /\ (w.space = "Initial" => w.hello = conn.hello))
        => \/ \E p \in conn.sent : p.frame = w.frame
           \/ \E v \in conn.wire : v.frame = w.frame /\ << v.space, v.pn >> \in conn.acked

\* Every exchange returns, with an answer or an error, as long as the socket falls
\* quiet again and again while it lasts, so that the thread gets past recv_from to
\* the rest of its turn: drive_until then gives up at its deadline, whatever the
\* server and the network say.  Against a socket that is never quiet for ten
\* milliseconds nothing of the kind holds.
ExchangeReturns ==
    []<><<Turn>>_vars => (pc # "idle" ~> pc = "idle")

\* What on_stream was handed for a place of the response is what stands there in
\* the answer the transport returns, whatever the order the pieces came in.
ResponseIntact ==
    \A i \in DOMAIN results :
        results[i].ok => \A k \in results[i].heard :
            k <= Len(results[i].answer) /\ results[i].answer[k].k = k

=============================================================================
