------------------------------ MODULE DoqProofs ------------------------------
(***************************************************************************)
(* Machine-checked proofs about Doq, for any servers, sizes, windows and   *)
(* limits: a packet number is never used twice under one key, what the     *)
(* server has not acknowledged is still held for retransmission, TLS is    *)
(* handed the server's handshake stream as it was sent, and nothing but    *)
(* Initial packets leaves before the server was authenticated.             *)
(***************************************************************************)
EXTENDS Doq, FiniteSetTheorems, SequenceTheorems, WellFoundedInduction, TLAPS

(* The fields of a connection. *)
Fields ==
    {"live", "up", "err", "closed", "cid", "initialCid", "sawScid", "retried", "hello", "tls", "keys",
     "confirmed", "nextPn", "pending", "rx", "sent", "pto", "wire", "acked", "asking",
     "stream", "opened", "offset", "used", "finSent", "buf", "fin", "heard", "maxData",
     "maxStreamData", "maxStreams", "win", "consumed", "uniOpened", "uniUsed"}

(* The keys on the wire: the first ClientHello's Initial packets have those of the
   identifier the client invented, a Retry's those of the identifier it named. *)
KeysOK(c) ==
    /\ ~c.retried => c.initialCid = OriginalDcid /\ c.hello = 1
    /\ \A w \in c.wire :
         /\ w.space # "Initial" => w.key = w.hello
         /\ w.space = "Initial" => w.key = IF w.hello = c.hello THEN c.initialCid ELSE OriginalDcid
         /\ w.hello # c.hello => c.retried /\ w.hello = 1

(* Every packet on the wire has a number its space has used up, counted anew for
   the Initial packets of a new ClientHello, and no two share a number. *)
WireOK(c) ==
    /\ \A w \in c.wire :
         /\ w.space \in Spaces /\ w.hello \in Nat /\ w.hello <= c.hello /\ w.pn \in Nat
         /\ w.space # "Initial" \/ w.hello = c.hello => w.pn < c.nextPn[w.space]
    /\ \A v, w \in c.wire : v.space = w.space /\ v.hello = w.hello /\ v.pn = w.pn => v = w

(* What is held for retransmission was sent under its number. *)
SentOK(c) ==
    /\ IsFiniteSet(c.sent)
    /\ \A p \in c.sent : \E w \in c.wire :
         /\ w.space = p.space /\ w.pn = p.pn /\ w.frame = p.frame
         /\ w.space = "Initial" => w.hello = c.hello
    /\ \A p, q \in c.sent : p.space = q.space /\ p.pn = q.pn => p = q

(* Data is held until it is acknowledged, in its own space. *)
Held(c, w) ==
    \/ \E p \in c.sent : p.space = w.space /\ p.frame = w.frame
    \/ \E v \in c.wire : v.frame = w.frame /\ << v.space, v.pn >> \in c.acked

HeldOK(c) ==
    \A w \in c.wire :
        w.frame.t \in {"CRYPTO", "STREAM"} /\ (w.space = "Initial" => w.hello = c.hello) => Held(c, w)

Shape(c) == Fields \subseteq DOMAIN c /\ c.hello \in Nat /\ c.nextPn \in [Spaces -> Nat]

Good(c) == Shape(c) /\ WireOK(c) /\ KeysOK(c) /\ SentOK(c) /\ HeldOK(c)

(* The same packets, numbers and keys. *)
Same(d, c) ==
    /\ DOMAIN d = DOMAIN c
    /\ d.wire = c.wire /\ d.sent = c.sent /\ d.nextPn = c.nextPn /\ d.hello = c.hello
    /\ d.acked = c.acked /\ d.retried = c.retried /\ d.initialCid = c.initialCid

LEMMA SameGood ==
    ASSUME NEW c, NEW d, Good(c), Same(d, c) PROVE Good(d)
  <1>1. Shape(d)  BY DEF Same, Good, Shape
  <1>2. WireOK(d)  BY DEF Same, Good, WireOK
  <1>3. SentOK(d)  BY DEF Same, Good, SentOK
  <1>4. \A w : Held(c, w) => Held(d, w)  BY DEF Same, Held
  <1>5. HeldOK(d)  BY <1>4 DEF Same, Good, HeldOK
  <1>6. KeysOK(d)  BY DEF Same, Good, KeysOK
  <1> QED BY <1>1, <1>2, <1>3, <1>5, <1>6 DEF Good

LEMMA FailedGood ==
    ASSUME NEW c, Good(c) PROVE Good(Failed(c)) /\ Good(Closed(c))
  <1>1. Same(Failed(c), c) /\ Same(Closed(c), c)
    BY DEF Failed, Closed, Same, Good, Shape, Fields
  <1> QED BY <1>1, SameGood

-----------------------------------------------------------------------------
(* Sending *)

(* Packets numbered from the next number of each space on, without a gap. *)
Batch(c, ps) ==
    /\ IsFiniteSet(ps)
    /\ \A p \in ps : /\ p.space \in Spaces /\ p.pn \in Nat
                     /\ c.nextPn[p.space] <= p.pn
                     /\ p.pn < c.nextPn[p.space] + Cardinality({q \in ps : q.space = p.space})
    /\ \A p, q \in ps : p.space = q.space /\ p.pn = q.pn => p = q

LEMMA SendFacts ==
    ASSUME NEW c, Shape(c), NEW ps, ~(~c.up \/ \E p \in ps : ~HasKey(c, p.space))
    PROVE  LET d == send_packets(c, ps)
           IN  /\ DOMAIN d = DOMAIN c /\ d.hello = c.hello /\ d.acked = c.acked /\ d.err = c.err
               /\ d.retried = c.retried /\ d.initialCid = c.initialCid
               /\ d.wire = c.wire \cup {[space |-> p.space, key |-> WriteKey(c, p.space), hello |-> c.hello,
                                         pn |-> p.pn, frame |-> p.frame, padded |-> p.padded] : p \in ps}
               /\ d.sent = c.sent \cup {[space |-> p.space, pn |-> p.pn, frame |-> p.frame] : p \in ps}
               /\ d.nextPn = [sp \in Spaces |-> c.nextPn[sp] + Cardinality({p \in ps : p.space = sp})]
  BY DEF send_packets, Shape, Fields

(* A batch that is sent keeps the connection good, and takes over what it sends
   again. *)
LEMMA ResentGood ==
    ASSUME NEW c, Shape(c), WireOK(c), KeysOK(c), SentOK(c), NEW ps, Batch(c, ps),
           ~(~c.up \/ \E p \in ps : ~HasKey(c, p.space)),
           \A w \in c.wire :
              w.frame.t \in {"CRYPTO", "STREAM"} /\ (w.space = "Initial" => w.hello = c.hello)
              => Held(c, w) \/ \E p \in ps : p.space = w.space /\ p.frame = w.frame
    PROVE  Good(send_packets(c, ps))
  <1> DEFINE d == send_packets(c, ps)
             Wired(p) == [space |-> p.space, key |-> WriteKey(c, p.space), hello |-> c.hello,
                          pn |-> p.pn, frame |-> p.frame, padded |-> p.padded]
             Kept(p) == [space |-> p.space, pn |-> p.pn, frame |-> p.frame]
             count == [sp \in Spaces |-> Cardinality({p \in ps : p.space = sp})]
  <1>1. /\ DOMAIN d = DOMAIN c /\ d.hello = c.hello /\ d.acked = c.acked
        /\ d.retried = c.retried /\ d.initialCid = c.initialCid
        /\ d.wire = c.wire \cup {Wired(p) : p \in ps}
        /\ d.sent = c.sent \cup {Kept(p) : p \in ps}
        /\ d.nextPn = [sp \in Spaces |-> c.nextPn[sp] + count[sp]]
    <2>1. d.nextPn = [sp \in Spaces |-> c.nextPn[sp] + Cardinality({p \in ps : p.space = sp})]
      BY SendFacts
    <2>2. /\ DOMAIN d = DOMAIN c /\ d.hello = c.hello /\ d.acked = c.acked
          /\ d.retried = c.retried /\ d.initialCid = c.initialCid
          /\ d.wire = c.wire \cup {Wired(p) : p \in ps}
          /\ d.sent = c.sent \cup {Kept(p) : p \in ps}
      BY SendFacts, ZenonT(60)
    <2> HIDE DEF d
    <2>3. d.nextPn = [sp \in Spaces |-> c.nextPn[sp] + count[sp]]
      BY <2>1
    <2> QED BY <2>2, <2>3
  <1>2. count \in [Spaces -> Nat]
    <2>1. \A sp \in Spaces : Cardinality({p \in ps : p.space = sp}) \in Nat
      <3>1. TAKE sp \in Spaces
      <3>2. IsFiniteSet({p \in ps : p.space = sp})
        BY FS_Subset DEF Batch
      <3> QED BY <3>2, FS_CardinalityType
    <2> QED BY <2>1
  <1>3. \A p \in ps : /\ p.space \in Spaces /\ p.pn \in Nat /\ c.nextPn[p.space] <= p.pn
                      /\ p.pn < c.nextPn[p.space] + count[p.space]
    BY DEF Batch
  <1>4. \A p \in ps : /\ Wired(p).space = p.space /\ Wired(p).hello = c.hello
                      /\ Wired(p).key = WriteKey(c, p.space) /\ Wired(p).pn = p.pn /\ Wired(p).frame = p.frame
                      /\ Kept(p).space = p.space /\ Kept(p).pn = p.pn /\ Kept(p).frame = p.frame
    OBVIOUS
  <1>5. \A p, q \in ps : p.space = q.space /\ p.pn = q.pn => p = q
    BY DEF Batch
  <1>6. IsFiniteSet({Kept(p) : p \in ps})
    <2>1. IsFiniteSet(ps)  BY DEF Batch
    <2>2. [p \in ps |-> Kept(p)] \in Surjection(ps, {Kept(p) : p \in ps})
      BY DEF Surjection
    <2> QED BY <2>1, <2>2, FS_Surjection
  <1> HIDE DEF Wired, Kept, count, d
  <1>7. Shape(d)
    BY <1>1, <1>2 DEF Shape
  <1>8. \A sp \in Spaces : c.nextPn[sp] \in Nat /\ d.nextPn[sp] \in Nat /\ c.nextPn[sp] <= d.nextPn[sp]
    BY <1>1, <1>2 DEF Shape
  <1>9. WireOK(d)
    <2>1. ASSUME NEW w \in d.wire
          PROVE  /\ w.space \in Spaces /\ w.hello \in Nat /\ w.hello <= d.hello /\ w.pn \in Nat
                 /\ w.space # "Initial" \/ w.hello = d.hello => w.pn < d.nextPn[w.space]
      <3>1. CASE w \in c.wire
        BY <3>1, <1>1, <1>8 DEF WireOK, Shape
      <3>2. CASE \E p \in ps : w = Wired(p)
        BY <3>2, <1>1, <1>3, <1>4 DEF Shape
      <3> QED BY <3>1, <3>2, <1>1
    <2>2. ASSUME NEW v \in d.wire, NEW w \in d.wire, v.space = w.space, v.hello = w.hello, v.pn = w.pn
          PROVE  v = w
      <3>1. CASE v \in c.wire /\ w \in c.wire
        BY <3>1, <2>2 DEF WireOK
      <3>2. ASSUME NEW x \in c.wire, NEW p \in ps, x.space = p.space, x.hello = c.hello
            PROVE  x.pn # p.pn
        BY <3>2, <1>3, <1>8 DEF WireOK
      <3>3. CASE v \in c.wire /\ w \notin c.wire
        BY <3>3, <2>2, <3>2, <1>1, <1>4
      <3>4. CASE v \notin c.wire /\ w \in c.wire
        BY <3>4, <2>2, <3>2, <1>1, <1>4
      <3>5. CASE v \notin c.wire /\ w \notin c.wire
        BY <3>5, <2>2, <1>1, <1>4, <1>5
      <3> QED BY <3>1, <3>3, <3>4, <3>5
    <2> QED BY <2>1, <2>2 DEF WireOK
  <1>10. SentOK(d)
    <2>1. IsFiniteSet(d.sent)
      <3>1. IsFiniteSet(c.sent)  BY DEF SentOK
      <3>2. IsFiniteSet(c.sent \cup {Kept(p) : p \in ps})  BY <3>1, <1>6, FS_Union
      <3> QED BY <3>2, <1>1
    <2>2. ASSUME NEW p \in d.sent
          PROVE  \E w \in d.wire : /\ w.space = p.space /\ w.pn = p.pn /\ w.frame = p.frame
                                   /\ w.space = "Initial" => w.hello = d.hello
      <3>1. CASE p \in c.sent
        BY <3>1, <1>1 DEF SentOK
      <3>2. CASE \E q \in ps : p = Kept(q)
        BY <3>2, <1>1, <1>4
      <3> QED BY <3>1, <3>2, <1>1
    <2>3. ASSUME NEW p \in d.sent, NEW q \in d.sent, p.space = q.space, p.pn = q.pn
          PROVE  p = q
      <3>1. CASE p \in c.sent /\ q \in c.sent
        BY <3>1, <2>3 DEF SentOK
      <3>2. ASSUME NEW x \in c.sent, NEW y \in ps, x.space = y.space
            PROVE  x.pn # y.pn
        <4>1. PICK w \in c.wire : /\ w.space = x.space /\ w.pn = x.pn
                                  /\ w.space = "Initial" => w.hello = c.hello
          BY DEF SentOK
        <4> QED BY <3>2, <4>1, <1>3, <1>8 DEF WireOK
      <3>3. CASE p \in c.sent /\ q \notin c.sent
        BY <3>3, <2>3, <3>2, <1>1, <1>4
      <3>4. CASE p \notin c.sent /\ q \in c.sent
        BY <3>4, <2>3, <3>2, <1>1, <1>4
      <3>5. CASE p \notin c.sent /\ q \notin c.sent
        BY <3>5, <2>3, <1>1, <1>4, <1>5
      <3> QED BY <3>1, <3>3, <3>4, <3>5
    <2> QED BY <2>1, <2>2, <2>3 DEF SentOK
  <1>11. HeldOK(d)
    <2> SUFFICES ASSUME NEW w \in d.wire, w.frame.t \in {"CRYPTO", "STREAM"},
                        w.space = "Initial" => w.hello = d.hello
                 PROVE  Held(d, w)
      BY DEF HeldOK
    <2>1. CASE w \in c.wire
      <3>1. CASE Held(c, w)
        BY <3>1, <1>1 DEF Held
      <3>2. CASE \E p \in ps : p.space = w.space /\ p.frame = w.frame
        BY <3>2, <1>1, <1>4 DEF Held
      <3> QED BY <2>1, <3>1, <3>2, <1>1
    <2>2. CASE \E p \in ps : w = Wired(p)
      BY <2>2, <1>1, <1>4 DEF Held
    <2> QED BY <2>1, <2>2, <1>1
  <1>12. KeysOK(d)
    <2>1. ASSUME NEW w \in d.wire
          PROVE  /\ w.space # "Initial" => w.key = w.hello
                 /\ w.space = "Initial" => w.key = IF w.hello = d.hello THEN d.initialCid ELSE OriginalDcid
                 /\ w.hello # d.hello => d.retried /\ w.hello = 1
      <3>1. CASE w \in c.wire
        BY <3>1, <1>1 DEF KeysOK
      <3>2. CASE \E p \in ps : w = Wired(p)
        BY <3>2, <1>1, <1>4 DEF WriteKey
      <3> QED BY <3>1, <3>2, <1>1
    <2> QED BY <2>1, <1>1 DEF KeysOK
  <1> QED BY <1>7, <1>9, <1>10, <1>11, <1>12 DEF Good, d

LEMMA SentGood ==
    ASSUME NEW c, Good(c), NEW ps, Batch(c, ps)
    PROVE  Good(send_packets(c, ps))
  <1>1. CASE ~c.up \/ \E p \in ps : ~HasKey(c, p.space)
    BY <1>1, FailedGood DEF send_packets
  <1>2. CASE ~(~c.up \/ \E p \in ps : ~HasKey(c, p.space))
    BY <1>2, ResentGood DEF Good, HeldOK
  <1> QED BY <1>1, <1>2

LEMMA SentPacketGood ==
    ASSUME NEW c, Good(c), NEW space \in Spaces, NEW frame, NEW pad
    PROVE  Good(send_packet(c, space, frame, pad))
  <1> DEFINE p == Numbered(space, c.nextPn[space], frame, pad)
             ps == {p}
  <1>1. /\ p.space = space /\ p.pn = c.nextPn[space] /\ c.nextPn[space] \in Nat
    BY DEF Numbered, Good, Shape
  <1>2. IsFiniteSet(ps) /\ Cardinality(ps) = 1
    BY FS_Singleton
  <1>3. \A q \in ps : {r \in ps : r.space = q.space} = ps
    OBVIOUS
  <1>4. \A q \in ps : Cardinality({r \in ps : r.space = q.space}) = 1
    BY <1>2, <1>3
  <1> HIDE DEF p
  <1>5. \A q \in ps : /\ q.space \in Spaces /\ q.pn \in Nat
                      /\ c.nextPn[q.space] <= q.pn /\ q.pn < c.nextPn[q.space] + 1
    BY <1>1
  <1>6. \A q, r \in ps : q = r
    OBVIOUS
  <1> HIDE DEF ps
  <1>7. Batch(c, ps)
    BY <1>2, <1>4, <1>5, <1>6 DEF Batch
  <1> QED BY <1>7, SentGood DEF send_packet, p, ps

LEMMA FlushedAcksGood ==
    ASSUME NEW c, Good(c)
    PROVE  Good(flush_acks(c))
  <1> DEFINE due == {sp \in Spaces : /\ c.pending[sp] # {} /\ HasKey(c, sp)
                                     /\ ~(sp = "Initial" /\ c.confirmed)}
             cleared == [c EXCEPT !.pending = PerSpace({})]
             Num(sp) == Numbered(sp, c.nextPn[sp], Frame("ACK"), sp = "Initial")
             ps == {Num(sp) : sp \in due}
             sending == send_packets(cleared, ps)
  <1>1. Same(cleared, c)
    BY DEF Same, Good, Shape, Fields
  <1>2. Good(cleared) /\ cleared.nextPn = c.nextPn
    BY <1>1, SameGood DEF Same
  <1>3. \A sp \in due : sp \in Spaces /\ Num(sp).space = sp /\ Num(sp).pn = c.nextPn[sp] /\ c.nextPn[sp] \in Nat
    BY DEF Numbered, Good, Shape
  <1>4. IsFiniteSet(ps)
    <2>1. IsFiniteSet(Spaces)
      <3>1. IsFiniteSet({"Initial"} \cup {"Handshake"})
        BY FS_Singleton, FS_AddElement
      <3>2. IsFiniteSet(({"Initial"} \cup {"Handshake"}) \cup {"Application"})
        BY <3>1, FS_AddElement
      <3>3. Spaces = ({"Initial"} \cup {"Handshake"}) \cup {"Application"}
        BY DEF Spaces
      <3> QED BY <3>2, <3>3
    <2>2. IsFiniteSet(due)
      BY <2>1, FS_Subset
    <2> HIDE DEF due
    <2>3. [sp \in due |-> Num(sp)] \in Surjection(due, ps)
      BY DEF Surjection
    <2> QED BY <2>2, <2>3, FS_Surjection
  <1> HIDE DEF Num, due
  <1>5. \A p \in ps : {q \in ps : q.space = p.space} = {p}
    BY <1>3
  <1>6. \A p \in ps : Cardinality({q \in ps : q.space = p.space}) = 1
    BY <1>5, FS_Singleton
  <1>7. Batch(cleared, ps)
    BY <1>2, <1>3, <1>4, <1>6 DEF Batch
  <1>8. Good(sending)
    BY <1>2, <1>7, SentGood
  <1> QED BY <1>2, <1>8 DEF flush_acks, Num, due

(* The next n numbers of a space. *)
LEMMA RangeBatch ==
    ASSUME NEW c, Shape(c), NEW space \in Spaces, NEW n \in Nat, NEW ps, NEW F,
           F \in Bijection(0..(n - 1), ps),
           \A i \in 0..(n - 1) : F[i].space = space /\ F[i].pn = c.nextPn[space] + i
    PROVE  Batch(c, ps)
  <1>1. \A p \in ps : \E i \in 0..(n - 1) : p = F[i]
    BY DEF Bijection, Surjection
  <1>2. IsFiniteSet(0..(n - 1)) /\ Cardinality(0..(n - 1)) = n
    <2>1. IsFiniteSet(0..(n - 1)) /\ Cardinality(0..(n - 1)) = IF 0 > n - 1 THEN 0 ELSE (n - 1) - 0 + 1
      BY FS_Interval
    <2> QED BY <2>1
  <1>3. IsFiniteSet(ps) /\ Cardinality(ps) = n
    BY <1>2, FS_Bijection DEF ExistsBijection
  <1>4. \A p \in ps : {q \in ps : q.space = p.space} = ps
    BY <1>1
  <1>5. c.nextPn[space] \in Nat
    BY DEF Shape
  <1>6. \A p \in ps : p.space = space /\ p.pn \in Nat /\ c.nextPn[space] <= p.pn /\ p.pn < c.nextPn[space] + n
    BY <1>1, <1>5
  <1>7. ASSUME NEW p \in ps, NEW q \in ps, p.pn = q.pn PROVE p = q
    <2>1. PICK i \in 0..(n - 1) : p = F[i]  BY <1>1
    <2>2. PICK j \in 0..(n - 1) : q = F[j]  BY <1>1
    <2>3. c.nextPn[space] + i = c.nextPn[space] + j  BY <1>7, <2>1, <2>2
    <2> QED BY <1>5, <2>1, <2>2, <2>3
  <1> QED BY <1>3, <1>4, <1>6, <1>7 DEF Batch

LEMMA FlushedQueryGood ==
    ASSUME NEW c, Good(c)
    PROVE  Good(flush_query_send(c))
  <1> DEFINE room == Min({Sub(c.maxData, c.used), Sub(c.maxStreamData, c.offset), QueryLen - c.offset})
             count == Cardinality({i \in 0..(QueryLen - 1) : i * MaxChunk < room})
             end == Min({c.offset + count * MaxChunk, QueryLen})
             off(i) == c.offset + i * MaxChunk
             take(i) == Min({QueryLen - off(i), MaxChunk})
             Piece(i) == StreamFrame(c.stream, off(i), take(i), off(i) + take(i) = QueryLen)
             d == [c EXCEPT !.offset = end, !.used = @ + (end - c.offset), !.finSent = end = QueryLen]
             Num(i) == Numbered("Application", c.nextPn["Application"] + i, Piece(i), FALSE)
             ps == {Num(i) : i \in 0..(count - 1)}
             F == [i \in 0..(count - 1) |-> Num(i)]
  <1>1. flush_query_send(c) = IF ~c.asking \/ c.finSent \/ room = 0 THEN c ELSE send_packets(d, ps)
    BY DEF flush_query_send
  <1>2. count \in Nat
    <2>1. QueryLen \in Nat  BY DoqAssumption
    <2>2. IsFiniteSet(0..(QueryLen - 1))  BY <2>1, FS_Interval
    <2> HIDE DEF room
    <2>3. IsFiniteSet({i \in 0..(QueryLen - 1) : i * MaxChunk < room})  BY <2>2, FS_Subset
    <2> QED BY <2>3, FS_CardinalityType
  <1> HIDE DEF room, count, end, Piece
  <1>3. Same(d, c)
    BY DEF Same, Good, Shape, Fields
  <1>4. Good(d) /\ d.nextPn = c.nextPn /\ Shape(d)
    BY <1>3, SameGood DEF Same, Good
  <1> HIDE DEF d
  <1>5. \A i \in 0..(count - 1) : Num(i).space = "Application" /\ Num(i).pn = d.nextPn["Application"] + i
    BY <1>4 DEF Numbered
  <1>6. d.nextPn["Application"] \in Nat /\ "Application" \in Spaces
    BY <1>4 DEF Shape, Spaces
  <1> HIDE DEF Num
  <1>7. F \in Bijection(0..(count - 1), ps)
    <2>1. ASSUME NEW i \in 0..(count - 1), NEW j \in 0..(count - 1), Num(i) = Num(j)
          PROVE  i = j
      <3>1. d.nextPn["Application"] + i = d.nextPn["Application"] + j
        BY <1>5, <2>1
      <3> QED BY <1>2, <1>6, <3>1
    <2>2. F \in [0..(count - 1) -> ps] /\ \A q \in ps : \E i \in 0..(count - 1) : F[i] = q
      OBVIOUS
    <2>3. \A i, j \in 0..(count - 1) : F[i] = F[j] => i = j
      BY <2>1
    <2> HIDE DEF F, ps
    <2> QED BY <2>2, <2>3 DEF Bijection, Injection, Surjection, IsInjective
  <1>8. \A i \in 0..(count - 1) : F[i].space = "Application" /\ F[i].pn = d.nextPn["Application"] + i
    BY <1>5
  <1> HIDE DEF F, ps
  <1>9. Batch(d, ps)
    BY <1>2, <1>4, <1>6, <1>7, <1>8, RangeBatch
  <1> QED BY <1>1, <1>4, <1>9, SentGood

(* Packets of a space have different ranks in it, below their number. *)
Before(S, p) == {q \in S : q.space = p.space /\ q.pn < p.pn}
Rank(S, p) == Cardinality(Before(S, p))

LEMMA RanksDiffer ==
    ASSUME NEW S, IsFiniteSet(S), \A p \in S : p.pn \in Nat,
           NEW p \in S
    PROVE  /\ Rank(S, p) \in Nat
           /\ Rank(S, p) < Cardinality({q \in S : q.space = p.space})
           /\ \A q \in S : q.space = p.space /\ p.pn < q.pn => Rank(S, p) < Rank(S, q)
  <1>1. ASSUME NEW T \in SUBSET S, Before(S, p) \subseteq T, p \in T
        PROVE  /\ Cardinality(Before(S, p)) \in Nat /\ Cardinality(T) \in Nat
               /\ Cardinality(Before(S, p)) < Cardinality(T)
    <2>1. IsFiniteSet(T)  BY FS_Subset
    <2>2. p \notin Before(S, p)  BY DEF Before
    <2>3. Before(S, p) # T  BY <1>1, <2>2
    <2>4. /\ IsFiniteSet(Before(S, p)) /\ Cardinality(Before(S, p)) <= Cardinality(T)
          /\ Cardinality(T) = Cardinality(Before(S, p)) => T = Before(S, p)
      BY <1>1, <2>1, FS_Subset
    <2>5. Cardinality(Before(S, p)) \in Nat /\ Cardinality(T) \in Nat
      BY <2>1, <2>4, FS_CardinalityType
    <2> QED BY <2>3, <2>4, <2>5
  <1>2. Rank(S, p) \in Nat /\ Rank(S, p) < Cardinality({q \in S : q.space = p.space})
    <2> DEFINE T == {q \in S : q.space = p.space}
    <2>1. T \in SUBSET S /\ Before(S, p) \subseteq T /\ p \in T  BY DEF Before
    <2> HIDE DEF T
    <2>2. Cardinality(Before(S, p)) \in Nat /\ Cardinality(Before(S, p)) < Cardinality(T)
      BY <1>1, <2>1
    <2> QED BY <2>2 DEF Rank, T
  <1>3. ASSUME NEW q \in S, q.space = p.space, p.pn < q.pn
        PROVE  Rank(S, p) < Rank(S, q)
    <2>1. Before(S, q) \in SUBSET S /\ Before(S, p) \subseteq Before(S, q) /\ p \in Before(S, q)
      BY <1>3 DEF Before
    <2> QED BY <1>1, <2>1 DEF Rank
  <1> QED BY <1>2, <1>3

LEMMA RankBatch ==
    ASSUME NEW c, Good(c), NEW d, d.nextPn = c.nextPn
    PROVE  Batch(d, {Numbered(p.space, c.nextPn[p.space] + Rank(c.sent, p), p.frame, FALSE) :
                        p \in c.sent})
  <1> DEFINE S == c.sent
             Num(p) == Numbered(p.space, c.nextPn[p.space] + Rank(S, p), p.frame, FALSE)
             ps == {Num(p) : p \in S}
             At(sp) == {p \in S : p.space = sp}
             NumAt(sp) == {q \in ps : q.space = sp}
  <1>1. IsFiniteSet(S)  BY DEF Good, SentOK
  <1>2. \A p \in S : p.pn \in Nat /\ p.space \in Spaces
    BY DEF Good, SentOK, WireOK
  <1>3. \A p \in S : c.nextPn[p.space] \in Nat
    BY <1>2 DEF Good, Shape
  <1>4. \A p, q \in S : p.space = q.space /\ p.pn = q.pn => p = q
    BY DEF Good, SentOK
  <1>5. \A p \in S : Num(p).space = p.space /\ Num(p).pn = c.nextPn[p.space] + Rank(S, p)
    BY DEF Numbered
  <1> HIDE DEF Num, S
  <1>6. \A p \in S : Rank(S, p) \in Nat /\ Rank(S, p) < Cardinality(At(p.space))
    BY <1>1, <1>2, RanksDiffer
  <1>7. ASSUME NEW p \in S, NEW q \in S, p.space = q.space, Rank(S, p) = Rank(S, q)
        PROVE  p = q
    <2>0. Rank(S, p) \in Nat /\ Rank(S, q) \in Nat  BY <1>6
    <2>1. ~(p.pn < q.pn)
      <3>1. p.pn < q.pn => Rank(S, p) < Rank(S, q)  BY <1>1, <1>2, <1>7, RanksDiffer
      <3> QED BY <2>0, <1>7, <3>1
    <2>2. ~(q.pn < p.pn)
      <3>1. q.pn < p.pn => Rank(S, q) < Rank(S, p)  BY <1>1, <1>2, <1>7, RanksDiffer
      <3> QED BY <2>0, <1>7, <3>1
    <2>3. p.pn = q.pn  BY <1>2, <2>1, <2>2
    <2> QED BY <1>4, <1>7, <2>3
  <1>8. ASSUME NEW p \in S, NEW q \in S, p.space = q.space, Num(p).pn = Num(q).pn
        PROVE  p = q
    <2>1. c.nextPn[p.space] + Rank(S, p) = c.nextPn[p.space] + Rank(S, q)  BY <1>5, <1>8
    <2>2. Rank(S, p) \in Nat /\ Rank(S, q) \in Nat /\ c.nextPn[p.space] \in Nat  BY <1>3, <1>6
    <2>3. Rank(S, p) = Rank(S, q)  BY <2>1, <2>2
    <2> QED BY <1>7, <1>8, <2>3
  <1>9. ASSUME NEW sp
        PROVE  Cardinality(NumAt(sp)) = Cardinality(At(sp))
    <2> DEFINE F == [p \in At(sp) |-> Num(p)]
    <2>1. IsFiniteSet(At(sp))  BY <1>1, FS_Subset
    <2>2. F \in [At(sp) -> NumAt(sp)]  BY <1>5
    <2>3. \A q \in NumAt(sp) : \E p \in At(sp) : F[p] = q  BY <1>5
    <2>4. \A p, q \in At(sp) : F[p] = F[q] => p = q  BY <1>8
    <2> HIDE DEF F, At, NumAt
    <2>5. F \in Bijection(At(sp), NumAt(sp))
      BY <2>2, <2>3, <2>4 DEF Bijection, Injection, Surjection, IsInjective
    <2> QED BY <2>1, <2>5, FS_Bijection DEF ExistsBijection
  <1>10. IsFiniteSet(ps)
    <2>1. [p \in S |-> Num(p)] \in Surjection(S, ps)  BY DEF Surjection
    <2> QED BY <1>1, <2>1, FS_Surjection
  <1>11. ASSUME NEW q \in ps
         PROVE  /\ q.space \in Spaces /\ q.pn \in Nat /\ d.nextPn[q.space] <= q.pn
                /\ q.pn < d.nextPn[q.space] + Cardinality(NumAt(q.space))
    <2>1. PICK p \in S : q = Num(p)  OBVIOUS
    <2>2. Cardinality(NumAt(q.space)) = Cardinality(At(p.space))  BY <1>5, <1>9, <2>1, ZenonT(60)
    <2>3. Cardinality(At(p.space)) \in Nat
      <3>1. IsFiniteSet(At(p.space))  BY <1>1, FS_Subset
      <3> QED BY <3>1, FS_CardinalityType
    <2> HIDE DEF At, NumAt
    <2> QED BY <1>2, <1>3, <1>5, <1>6, <2>1, <2>2, <2>3
  <1>12. \A p, q \in ps : p.space = q.space /\ p.pn = q.pn => p = q
    BY <1>5, <1>8
  <1>13. Batch(d, ps)
    BY <1>10, <1>11, <1>12 DEF Batch
  <1> QED BY <1>13 DEF S, Num

LEMMA ProbedGood ==
    ASSUME NEW c, Good(c), NEW fired
    PROVE  run_pto(c, fired).err \/ Good(run_pto(c, fired))
  <1> DEFINE d == [c EXCEPT !.sent = {}, !.pto = @ + 1]
             ps == {Numbered(p.space, c.nextPn[p.space] + Rank(c.sent, p), p.frame, FALSE) : p \in c.sent}
  <1>1. \/ run_pto(c, fired) = c
        \/ run_pto(c, fired) = Closed(c)
        \/ run_pto(c, fired) = send_packets(d, ps)
    BY DEF run_pto, Rank, Before
  <1>2. /\ DOMAIN d = DOMAIN c /\ d.wire = c.wire /\ d.sent = {} /\ d.nextPn = c.nextPn
        /\ d.hello = c.hello /\ d.acked = c.acked
        /\ d.retried = c.retried /\ d.initialCid = c.initialCid
    BY DEF Good, Shape, Fields
  <1>3. Batch(d, ps)
    BY <1>2, RankBatch
  <1>4. "err" \in DOMAIN d
    BY <1>2 DEF Good, Shape, Fields
  <1>5. ASSUME NEW p \in c.sent
        PROVE  \E q \in ps : q.space = p.space /\ q.frame = p.frame
    <2> DEFINE q == Numbered(p.space, c.nextPn[p.space] + Rank(c.sent, p), p.frame, FALSE)
    <2>1. q.space = p.space /\ q.frame = p.frame  BY DEF Numbered
    <2>2. q \in ps  OBVIOUS
    <2> HIDE DEF q
    <2> QED BY <2>1, <2>2
  <1> HIDE DEF d, ps
  <1>6. CASE ~d.up \/ \E p \in ps : ~HasKey(d, p.space)
    <2>1. send_packets(d, ps).err
      BY <1>4, <1>6 DEF send_packets, Failed
    <2> QED BY <2>1, <1>1, FailedGood
  <1>7. CASE ~(~d.up \/ \E p \in ps : ~HasKey(d, p.space))
    <2>1. Shape(d)  BY <1>2 DEF Good, Shape
    <2>2. WireOK(d)  BY <1>2 DEF Good, WireOK
    <2>3. SentOK(d)  BY <1>2, FS_EmptySet DEF SentOK
    <2>4. ASSUME NEW w \in d.wire, w.frame.t \in {"CRYPTO", "STREAM"},
                 w.space = "Initial" => w.hello = d.hello
          PROVE  Held(d, w) \/ \E p \in ps : p.space = w.space /\ p.frame = w.frame
      <3>1. Held(c, w)  BY <1>2, <2>4 DEF Good, HeldOK
      <3> QED BY <1>2, <1>5, <3>1 DEF Held
    <2>5. KeysOK(d)  BY <1>2 DEF Good, KeysOK
    <2>6. Good(send_packets(d, ps))
      BY <1>3, <1>7, <2>1, <2>2, <2>3, <2>4, <2>5, ResentGood
    <2> QED BY <2>6, <1>1, FailedGood
  <1> QED BY <1>6, <1>7

-----------------------------------------------------------------------------
(* Receiving *)

LEMMA FedGood ==
    ASSUME NEW c, Good(c), NEW msg
    PROVE  Good(FeedMessage(c, msg))
  <1> DEFINE f == feed(c.tls, msg)
             fed == [c EXCEPT !.tls = f.t]
             read == [fed EXCEPT !.keys = @ \cup {"hsRead"}]
             keys == [fed EXCEPT !.keys = @ \cup {"hsWrite", "app"}]
             keyed == validate_server_transport_params(keys)
             fin == send_packet(keyed, "Handshake", CryptoFrame("FIN", c.hello), FALSE)
             done == [fin EXCEPT !.confirmed = TRUE, !.pto = 0]
  <1>1. FeedMessage(c, msg) \in {Failed(c), fed, read, keyed, fin, done}
    BY DEF FeedMessage, Then
  <1> HIDE DEF f
  <1>2. Same(fed, c) /\ Same(read, c) /\ Same(keys, c)
    BY DEF Same, Good, Shape, Fields
  <1>3. Good(fed) /\ Good(read) /\ Good(keys)
    BY <1>2, SameGood
  <1> HIDE DEF fed, read, keys
  <1>4. Good(keyed)
    <2>1. Same(keyed, keys) \/ keyed = Failed(keys)
      BY <1>3 DEF validate_server_transport_params, Same, Good, Shape, Fields
    <2> QED BY <1>3, <2>1, SameGood, FailedGood
  <1> HIDE DEF keyed
  <1>5. Good(fin)
    BY <1>4, SentPacketGood DEF Spaces
  <1> HIDE DEF fin
  <1>6. Same(done, fin)
    BY <1>5 DEF Same, Good, Shape, Fields
  <1>7. Good(done)
    BY <1>5, <1>6, SameGood
  <1> QED BY <1>1, <1>3, <1>4, <1>5, <1>7, FailedGood

LEMMA CryptoGood ==
    ASSUME NEW c, Good(c), NEW space, NEW off, NEW data
    PROVE  Good(on_crypto(c, space, off, data))
  <1>1. ASSUME NEW d, Good(d) PROVE Good(FeedNext(d, space))
    <2> DEFINE e == [d EXCEPT !.rx[space] = pop_message(@)]
    <2>1. Same(e, d)
      BY <1>1 DEF Same, Good, Shape, Fields
    <2>2. Good(e)
      BY <1>1, <2>1, SameGood
    <2> HIDE DEF e
    <2>3. \A m : Good(FeedMessage(e, m))
      BY <2>2, FedGood
    <2> QED BY <1>1, <2>3 DEF FeedNext, e
  <1> DEFINE e == [c EXCEPT !.rx[space] = insert(@, off, data)]
  <1>2. Same(e, c)
    BY DEF Same, Good, Shape, Fields
  <1>3. Good(e)
    BY <1>2, SameGood
  <1>4. on_crypto(c, space, off, data) \in
            {c, Failed(c),
             FeedNext(FeedNext(FeedNext(FeedNext(FeedNext(e, space), space), space), space), space)}
    BY DEF on_crypto
  <1> HIDE DEF e
  <1>5. Good(FeedNext(FeedNext(FeedNext(FeedNext(FeedNext(e, space), space), space), space), space))
    BY <1>1, <1>3
  <1> QED BY <1>4, <1>5, FailedGood

LEMMA ReplenishedGood ==
    ASSUME NEW c, Good(c), NEW used, NEW window, NEW frame
    PROVE  Good(Replenish(c, used, window, frame))
  <1> DEFINE d == send_packet(c, "Application", Frame(frame), FALSE)
             e == [d EXCEPT !.win[window] = 2 * @]
  <1>1. Replenish(c, used, window, frame) \in {c, d, e}
    BY DEF Replenish, Then
  <1>2. Good(d)
    BY SentPacketGood DEF Spaces
  <1> HIDE DEF d
  <1>3. Same(e, d)
    BY <1>2 DEF Same, Good, Shape, Fields
  <1> QED BY <1>1, <1>2, <1>3, SameGood

LEMMA StreamGood ==
    ASSUME NEW c, Good(c), NEW f
    PROVE  Good(on_stream(c, f))
  <1> DEFINE end == f.off + Len(f.data)
             have == Len(c.buf)
             grown == IF f.off > have
                      THEN c.buf \o [i \in 1..(f.off - have) |-> Zero(f.id)] \o f.data
                      ELSE c.buf \o SubSeq(f.data, have - f.off + 1, Len(f.data))
             stored == [c EXCEPT !.buf = grown, !.fin = @ \/ f.fin,
                                 !.heard = @ \cup {f.off + i : i \in DOMAIN f.data},
                                 !.consumed = Max({@, Len(grown)})]
             uni == [c EXCEPT !.uniOpened = Max({@, f.id + 1}), !.uniUsed = Max({@, end})]
             reset == send_packet(c, "Application", Frame("RESET_STREAM"), FALSE)
  <1>1. on_stream(c, f) \in {maybe_replenish_uni(uni), reset, Closed(c), maybe_replenish_windows(stored)}
    BY DEF on_stream
  <1> HIDE DEF end, grown
  <1>2. Same(stored, c) /\ Same(uni, c)
    BY DEF Same, Good, Shape, Fields
  <1>3. Good(stored) /\ Good(uni)
    BY <1>2, SameGood
  <1> HIDE DEF stored, uni
  <1>4. Good(maybe_replenish_uni(uni))
    BY <1>3, ReplenishedGood DEF maybe_replenish_uni
  <1>5. Good(maybe_replenish_windows(stored))
    BY <1>3, ReplenishedGood DEF maybe_replenish_windows
  <1>6. Good(reset)
    BY SentPacketGood DEF Spaces
  <1> QED BY <1>1, <1>4, <1>5, <1>6, FailedGood

(* What an acknowledgement removes has been acknowledged. *)
LEMMA AckGood ==
    ASSUME NEW c, Good(c), NEW space, NEW ack
    PROVE  Good([on_ack(c, space, ack) EXCEPT !.acked = @ \cup {<< space, pn >> : pn \in Acked(ack)}])
  <1> DEFINE hit == {p \in c.sent : p.space = space /\ p.pn \in Acked(ack)}
             d == [on_ack(c, space, ack) EXCEPT !.acked = @ \cup {<< space, pn >> : pn \in Acked(ack)}]
  <1>1. /\ DOMAIN d = DOMAIN c /\ d.wire = c.wire /\ d.sent = c.sent \ hit
        /\ d.nextPn = c.nextPn /\ d.hello = c.hello
        /\ d.retried = c.retried /\ d.initialCid = c.initialCid
        /\ d.acked = c.acked \cup {<< space, pn >> : pn \in Acked(ack)}
    BY DEF on_ack, Good, Shape, Fields
  <1> HIDE DEF d
  <1>2. Shape(d)  BY <1>1 DEF Good, Shape
  <1>3. WireOK(d)  BY <1>1 DEF Good, WireOK
  <1>4. SentOK(d)
    <2>1. IsFiniteSet(d.sent)
      <3>1. IsFiniteSet(c.sent)  BY DEF Good, SentOK
      <3>2. IsFiniteSet(c.sent \ hit)  BY <3>1, FS_Subset
      <3> QED BY <3>2, <1>1
    <2> QED BY <1>1, <2>1 DEF Good, SentOK
  <1>5. HeldOK(d)
    <2> SUFFICES ASSUME NEW w \in d.wire, w.frame.t \in {"CRYPTO", "STREAM"},
                        w.space = "Initial" => w.hello = d.hello
                 PROVE  Held(d, w)
      BY DEF HeldOK
    <2>1. Held(c, w)
      BY <1>1 DEF Good, HeldOK
    <2>2. CASE \E p \in c.sent : p.space = w.space /\ p.frame = w.frame
      <3>1. PICK p \in c.sent : p.space = w.space /\ p.frame = w.frame  BY <2>2
      <3>2. CASE p \in hit
        <4>1. PICK v \in c.wire : v.space = p.space /\ v.pn = p.pn /\ v.frame = p.frame
          BY DEF Good, SentOK
        <4>2. << v.space, v.pn >> \in d.acked  BY <1>1, <3>2, <4>1
        <4> QED BY <1>1, <3>1, <4>1, <4>2 DEF Held
      <3>3. CASE p \notin hit
        BY <1>1, <3>1, <3>3 DEF Held
      <3> QED BY <3>2, <3>3
    <2>3. CASE \E v \in c.wire : v.frame = w.frame /\ << v.space, v.pn >> \in c.acked
      BY <1>1, <2>3 DEF Held
    <2> QED BY <2>1, <2>2, <2>3 DEF Held
  <1>6. KeysOK(d)  BY <1>1 DEF Good, KeysOK
  <1> QED BY <1>2, <1>3, <1>4, <1>5, <1>6 DEF Good, d

LEMMA FrameGood ==
    ASSUME NEW c, Good(c), NEW space, NEW f
    PROVE  Good(process_frame(c, space, f))
  <1> DEFINE data == [c EXCEPT !.maxData = Max({@, f.n})]
             stream == [c EXCEPT !.maxStreamData = Max({@, f.n})]
             streams == [c EXCEPT !.maxStreams = Max({@, f.n})]
             reply == send_packet(c, "Application", Frame("REPLY"), FALSE)
             acked == [on_ack(c, space, f.ack) EXCEPT
                          !.acked = @ \cup {<< space, pn >> : pn \in Acked(f.ack)}]
  <1>1. process_frame(c, space, f) \in
            {c, acked, on_crypto(c, space, f.off, f.data), on_stream(c, f), data, stream, streams,
             Closed(c), reply}
    BY DEF process_frame
  <1>2. Same(data, c) /\ Same(stream, c) /\ Same(streams, c)
    BY DEF Same, Good, Shape, Fields
  <1>3. Good(data) /\ Good(stream) /\ Good(streams)
    BY <1>2, SameGood
  <1>4. Good(reply)
    BY SentPacketGood DEF Spaces
  <1>5. Good(acked)
    BY AckGood
  <1>6. Good(on_crypto(c, space, f.off, f.data)) /\ Good(on_stream(c, f))
    BY CryptoGood, StreamGood
  <1>7. Good(Closed(c))
    BY FailedGood
  <1> HIDE DEF data, stream, streams, reply, acked
  <1> QED BY <1>1, <1>3, <1>4, <1>5, <1>6, <1>7

(* A set of numbers that holds zero and every successor holds them all. *)
LEMMA Counting ==
    ASSUME NEW T \in SUBSET Nat, 0 \in T, \A k \in T : k + 1 \in T
    PROVE  T = Nat
  <1> DEFINE R == {p \in Nat \X Nat : p[1] < p[2]}
             Rest == Nat \ T
  <1>1. IsWellFoundedOn(R, Nat)
    BY NatLessThanWellFounded, Zenon DEF OpToRel
  <1>2. \A j, m \in Nat : j < m => << j, m >> \in R
    OBVIOUS
  <1> HIDE DEF R
  <1>3. ASSUME Rest # {} PROVE FALSE
    <2>1. PICK m \in Rest : \A j \in Rest : << j, m >> \notin R
      BY <1>1, <1>3, WFMin
    <2>2. m \in Nat /\ m # 0 /\ m - 1 \in Nat /\ m - 1 < m  BY <2>1
    <2>3. m - 1 \in T  BY <1>2, <2>1, <2>2
    <2>4. (m - 1) + 1 \in T  BY <2>3
    <2> QED BY <2>1, <2>2, <2>4
  <1> QED BY <1>3

(* The frames of a packet are processed one after the other. *)
LEMMA FramesInTurn ==
    ASSUME NEW c, NEW space, NEW frames, Len(frames) \in Nat
    PROVE  LET r == AfterFrames(c, space, frames)
           IN  /\ r[0] = c
               /\ \A i \in 1..Len(frames) : r[i] = process_frame(r[i - 1], space, frames[i])
  <1> DEFINE n == Len(frames)
             Step(d, i) == process_frame(d, space, frames[i])
             Run(k, g) == g = [i \in 0..k |-> IF i = 0 THEN c ELSE Step(g[i - 1], i)]
             T == {k \in Nat : \E g : Run(k, g)}
             r == AfterFrames(c, space, frames)
  <1>1. r = CHOOSE g : Run(n, g)
    BY DEF AfterFrames
  <1> HIDE DEF Step
  <1>2. 0 \in T
    <2> DEFINE g == [i \in 0..0 |-> c]
    <2>1. Run(0, g)  OBVIOUS
    <2> HIDE DEF g, Run
    <2> QED BY <2>1
  <1>3. ASSUME NEW k \in T PROVE k + 1 \in T
    <2>1. k \in Nat  OBVIOUS
    <2>2. PICK g : Run(k, g)  BY <1>3
    <2> DEFINE h == [i \in 0..(k + 1) |-> IF i = k + 1 THEN Step(g[k], k + 1) ELSE g[i]]
               e == [i \in 0..(k + 1) |-> IF i = 0 THEN c ELSE Step(h[i - 1], i)]
    <2>3. \A i \in 0..k : g[i] = IF i = 0 THEN c ELSE Step(g[i - 1], i)  BY <2>2
    <2>4. \A i \in 0..k : h[i] = g[i]  BY <2>1
    <2>5. h[k + 1] = Step(h[k], k + 1)  BY <2>1, <2>4
    <2>6. \A i \in 0..k : i # 0 => h[i] = Step(h[i - 1], i)
      <3>1. TAKE i \in 0..k
      <3>2. i # 0 => i - 1 \in 0..k  BY <2>1
      <3> HIDE DEF h
      <3> QED BY <2>3, <2>4, <3>2
    <2>7. h[0] = c  BY <2>1, <2>3, <2>4
    <2>8. \A i \in 0..(k + 1) : h[i] = IF i = 0 THEN c ELSE Step(h[i - 1], i)
      <3> HIDE DEF h
      <3>1. TAKE i \in 0..(k + 1)
      <3>2. CASE i = k + 1
        <4>1. i - 1 = k /\ i # 0  BY <2>1, <3>2
        <4> QED BY <2>5, <3>2, <4>1
      <3>3. CASE i \in 0..k
        BY <2>6, <2>7, <3>3
      <3> QED BY <2>1, <3>2, <3>3
    <2>9. h = e
      <3>1. h = [i \in 0..(k + 1) |-> h[i]]  OBVIOUS
      <3> HIDE DEF h
      <3> QED BY <2>8, <3>1
    <2>10. Run(k + 1, h)  BY <2>9
    <2> HIDE DEF h, Run
    <2> QED BY <2>1, <2>10
  <1>4. T = Nat
    <2> HIDE DEF Run
    <2>1. T \in SUBSET Nat  OBVIOUS
    <2> HIDE DEF T
    <2> QED BY <1>2, <1>3, <2>1, Counting
  <1>5. Run(n, r)
    <2> HIDE DEF Run, r
    <2>1. \E g : Run(n, g)  BY <1>4
    <2> QED BY <1>1, <2>1
  <1> HIDE DEF r
  <1>6. r[0] = c /\ \A i \in 1..n : r[i] = Step(r[i - 1], i)
    BY <1>5
  <1> QED BY <1>6 DEF r, Step

LEMMA PlaintextGood ==
    ASSUME NEW c, Good(c), NEW space, NEW pn, NEW frames, Len(frames) \in Nat
    PROVE  Good(process_plaintext(c, space, pn, frames))
  <1> DEFINE r == AfterFrames(c, space, frames)
             n == Len(frames)
             T == {k \in Nat : k <= n => Good(r[k])}
             d == r[n]
             e == [d EXCEPT !.pending[space] = @ \cup {pn}]
  <1>1. r[0] = c /\ \A i \in 1..n : r[i] = process_frame(r[i - 1], space, frames[i])
    BY FramesInTurn
  <1> HIDE DEF r
  <1>2. 0 \in T  BY <1>1
  <1>3. ASSUME NEW k \in T PROVE k + 1 \in T
    <2>1. CASE k + 1 <= n
      <3>1. Good(r[k])  BY <2>1
      <3>2. k + 1 \in 1..n /\ (k + 1) - 1 = k  BY <2>1
      <3>3. r[k + 1] = process_frame(r[k], space, frames[k + 1])  BY <1>1, <3>2
      <3> QED BY <3>1, <3>3, FrameGood
    <2> QED BY <2>1
  <1>4. T = Nat
    <2>1. T \in SUBSET Nat  OBVIOUS
    <2> HIDE DEF T
    <2> QED BY <1>2, <1>3, <2>1, Counting
  <1>5. Good(d)  BY <1>4
  <1>6. process_plaintext(c, space, pn, frames) \in {d, e}
    BY DEF process_plaintext, r
  <1> HIDE DEF d
  <1>7. Same(e, d)
    BY <1>5 DEF Same, Good, Shape, Fields
  <1> QED BY <1>5, <1>6, <1>7, SameGood

LEMMA RetryGood ==
    ASSUME NEW c, Good(c), NEW scid
    PROVE  Good(process_retry(c, scid))
  <1> DEFINE d == Retried(c, scid)
  <1>1. /\ DOMAIN d = DOMAIN c /\ d.wire = c.wire /\ d.hello = c.hello + 1 /\ d.acked = c.acked
        /\ d.retried /\ d.initialCid = scid
        /\ d.sent = {p \in c.sent : p.space # "Initial"}
        /\ d.nextPn = [c.nextPn EXCEPT !["Initial"] = 0]
    BY DEF Retried, Good, Shape, Fields
  <1> HIDE DEF d
  <1>2. Shape(d)
    <2>1. c.hello + 1 \in Nat /\ [c.nextPn EXCEPT !["Initial"] = 0] \in [Spaces -> Nat]
      <3>1. c.hello \in Nat /\ c.nextPn \in [Spaces -> Nat]  BY DEF Good, Shape
      <3>2. [c.nextPn EXCEPT !["Initial"] = 0] \in [Spaces -> Nat]  BY <3>1
      <3> QED BY <3>1, <3>2
    <2> QED BY <1>1, <2>1 DEF Good, Shape
  <1>3. \A w \in c.wire : w.hello # d.hello /\ w.hello <= d.hello
    BY <1>1 DEF Good, WireOK, Shape
  <1>4. WireOK(d)
    BY <1>1, <1>3 DEF Good, WireOK, Shape
  <1>5. SentOK(d)
    <2>1. IsFiniteSet(d.sent)
      <3>1. IsFiniteSet(c.sent)  BY DEF Good, SentOK
      <3> QED BY <1>1, <3>1, FS_Subset
    <2> QED BY <1>1, <2>1 DEF Good, SentOK
  <1>6. HeldOK(d)
    <2> SUFFICES ASSUME NEW w \in d.wire, w.frame.t \in {"CRYPTO", "STREAM"},
                        w.space = "Initial" => w.hello = d.hello
                 PROVE  Held(d, w)
      BY DEF HeldOK
    <2>1. w.space # "Initial"  BY <1>1, <1>3
    <2>2. Held(c, w)  BY <1>1, <2>1 DEF Good, HeldOK
    <2> QED BY <1>1, <2>1, <2>2 DEF Held
  <1>7. ~c.retried => KeysOK(d)
    <2> SUFFICES ASSUME ~c.retried, NEW w \in c.wire
                 PROVE  /\ w.space # "Initial" => w.key = w.hello
                        /\ w.space = "Initial" => w.key = OriginalDcid
                        /\ w.hello = 1
      BY <1>1, <1>3 DEF KeysOK
    <2>1. w.hello = c.hello /\ c.hello = 1 /\ c.initialCid = OriginalDcid  BY DEF Good, KeysOK
    <2> QED BY <2>1 DEF Good, KeysOK
  <1>8. ~c.retried => Good(d)
    BY <1>2, <1>4, <1>5, <1>6, <1>7 DEF Good
  <1>9. \A frame, pad : ~c.retried => Good(send_packet(d, "Initial", frame, pad))
    BY <1>8, SentPacketGood DEF Spaces
  <1> QED BY <1>9, FailedGood DEF process_retry, d

(* A datagram is made of packets, and a packet of frames. *)
Formed(dg) ==
    /\ Len(dg) \in Nat
    /\ \A i \in 1..Len(dg) : dg[i].kind = "packet" => Len(dg[i].frames) \in Nat

LEMMA PacketGood ==
    ASSUME NEW c, Good(c), NEW p, p.kind = "packet" => Len(p.frames) \in Nat
    PROVE  Good(process_packet(c, p).c)
  <1> DEFINE new == [c EXCEPT !.cid = p.scid, !.sawScid = TRUE]
             learned == IF p.space # "Application" /\ ~c.sawScid THEN new ELSE c
             opened == process_plaintext(learned, p.space, p.pn, p.frames)
  <1>1. \/ process_packet(c, p).c \in {c, Closed(c), Failed(c), process_retry(c, p.scid), learned}
        \/ p.kind = "packet" /\ process_packet(c, p).c = opened
    BY DEF process_packet, parse_header
  <1>2. Same(new, c)
    BY DEF Same, Good, Shape, Fields
  <1>3. Good(learned)
    BY <1>2, SameGood
  <1> HIDE DEF learned
  <1>4. p.kind = "packet" => Good(opened)
    BY <1>3, PlaintextGood
  <1> QED BY <1>1, <1>3, <1>4, FailedGood, RetryGood

(* The packets of a datagram are processed one after the other. *)
LEMMA PacketsInTurn ==
    ASSUME NEW c, NEW dg, Len(dg) \in Nat
    PROVE  \E g : /\ g[0] = [c |-> c, stop |-> FALSE]
                  /\ \A i \in 1..Len(dg) :
                      g[i] = IF g[i - 1].stop THEN g[i - 1] ELSE process_packet(g[i - 1].c, dg[i])
                  /\ process_datagram(c, dg) = g[Len(dg)].c
  <1> DEFINE n == Len(dg)
             s0 == [c |-> c, stop |-> FALSE]
             Step(d, i) == IF d.stop THEN d ELSE process_packet(d.c, dg[i])
             Run(k, g) == g = [i \in 0..k |-> IF i = 0 THEN s0 ELSE Step(g[i - 1], i)]
             T == {k \in Nat : \E g : Run(k, g)}
             r == CHOOSE g : Run(n, g)
  <1>1. process_datagram(c, dg) = r[n].c
    BY DEF process_datagram
  <1> HIDE DEF Step, s0
  <1>2. 0 \in T
    <2> DEFINE g == [i \in 0..0 |-> s0]
    <2>1. Run(0, g)  OBVIOUS
    <2> HIDE DEF g, Run
    <2> QED BY <2>1
  <1>3. ASSUME NEW k \in T PROVE k + 1 \in T
    <2>1. k \in Nat  OBVIOUS
    <2>2. PICK g : Run(k, g)  BY <1>3
    <2> DEFINE h == [i \in 0..(k + 1) |-> IF i = k + 1 THEN Step(g[k], k + 1) ELSE g[i]]
               e == [i \in 0..(k + 1) |-> IF i = 0 THEN s0 ELSE Step(h[i - 1], i)]
    <2>3. \A i \in 0..k : g[i] = IF i = 0 THEN s0 ELSE Step(g[i - 1], i)  BY <2>2
    <2>4. \A i \in 0..k : h[i] = g[i]  BY <2>1
    <2>5. h[k + 1] = Step(h[k], k + 1)  BY <2>1, <2>4
    <2>6. \A i \in 0..k : i # 0 => h[i] = Step(h[i - 1], i)
      <3>1. TAKE i \in 0..k
      <3>2. i # 0 => i - 1 \in 0..k  BY <2>1
      <3> HIDE DEF h
      <3> QED BY <2>3, <2>4, <3>2
    <2>7. h[0] = s0  BY <2>1, <2>3, <2>4
    <2>8. \A i \in 0..(k + 1) : h[i] = IF i = 0 THEN s0 ELSE Step(h[i - 1], i)
      <3> HIDE DEF h
      <3>1. TAKE i \in 0..(k + 1)
      <3>2. CASE i = k + 1
        <4>1. i - 1 = k /\ i # 0  BY <2>1, <3>2
        <4> QED BY <2>5, <3>2, <4>1
      <3>3. CASE i \in 0..k
        BY <2>6, <2>7, <3>3
      <3> QED BY <2>1, <3>2, <3>3
    <2>9. h = e
      <3>1. h = [i \in 0..(k + 1) |-> h[i]]  OBVIOUS
      <3> HIDE DEF h
      <3> QED BY <2>8, <3>1
    <2>10. Run(k + 1, h)  BY <2>9
    <2> HIDE DEF h, Run
    <2> QED BY <2>1, <2>10
  <1>4. T = Nat
    <2> HIDE DEF Run
    <2>1. T \in SUBSET Nat  OBVIOUS
    <2> HIDE DEF T
    <2> QED BY <1>2, <1>3, <2>1, Counting
  <1>5. Run(n, r)
    <2> HIDE DEF Run, r
    <2>1. \E g : Run(n, g)  BY <1>4
    <2> QED BY <2>1 DEF r
  <1> HIDE DEF r
  <1>6. r[0] = s0 /\ \A i \in 1..n : r[i] = Step(r[i - 1], i)
    BY <1>5
  <1>7. \A i \in 1..n : r[i] = IF r[i - 1].stop THEN r[i - 1] ELSE process_packet(r[i - 1].c, dg[i])
    BY <1>6 DEF Step
  <1>8. r[0] = [c |-> c, stop |-> FALSE]
    BY <1>6 DEF s0
  <1> QED BY <1>1, <1>7, <1>8, Zenon

LEMMA DatagramGood ==
    ASSUME NEW c, Good(c), NEW dg, Formed(dg)
    PROVE  Good(process_datagram(c, dg))
  <1>1. PICK r : /\ r[0] = [c |-> c, stop |-> FALSE]
                 /\ \A i \in 1..Len(dg) :
                      r[i] = IF r[i - 1].stop THEN r[i - 1] ELSE process_packet(r[i - 1].c, dg[i])
                 /\ process_datagram(c, dg) = r[Len(dg)].c
    <2>1. Len(dg) \in Nat  BY DEF Formed
    <2> QED BY <2>1, PacketsInTurn, Zenon
  <1> DEFINE n == Len(dg)
             T == {k \in Nat : k <= n => Good(r[k].c)}
  <1>2. 0 \in T
    <2>1. r[0].c = c  BY <1>1
    <2> QED BY <2>1
  <1>3. ASSUME NEW k \in T PROVE k + 1 \in T
    <2>1. CASE k + 1 <= n
      <3>1. Good(r[k].c)  BY <2>1 DEF Formed
      <3>2. k + 1 \in 1..n /\ (k + 1) - 1 = k  BY <2>1 DEF Formed
      <3>3. r[k + 1] = IF r[k].stop THEN r[k] ELSE process_packet(r[k].c, dg[k + 1])
        BY <1>1, <3>2
      <3>4. Good(process_packet(r[k].c, dg[k + 1]).c)
        BY <3>1, <3>2, PacketGood DEF Formed
      <3> QED BY <3>1, <3>3, <3>4
    <2> QED BY <2>1
  <1>4. T = Nat
    <2>1. T \in SUBSET Nat  OBVIOUS
    <2> HIDE DEF T
    <2> QED BY <1>2, <1>3, <2>1, Counting
  <1> QED BY <1>1, <1>4 DEF Formed

-----------------------------------------------------------------------------
(* The transport *)

LEMMA DatagramsFormed ==
    ASSUME NEW c, NEW dg \in Datagrams(c)
    PROVE  Formed(dg)
  <1> DEFINE Plain(p) == p.kind = "packet" => Len(p.frames) \in Nat
             n == IF srv.retry THEN 2 ELSE 1
             hello == Packet("Initial", n, 0, Chunk(Streams[srv][n].Initial, 0, 1))
             flight == {Packet("Handshake", n, k.pn, Chunk(Streams[srv][n].Handshake, k.off, k.len)) : k \in srv.chunks}
             Noise(f) ==
                IF f \in {"version", "malformed"} THEN {Other(f)}
                ELSE IF f = "close" THEN {Packet("Initial", n, 9, Frame("CONNECTION_CLOSE"))}
                ELSE IF ~Finished(c) THEN {}
                ELSE IF f = "session" THEN {Packet("Application", n, 8,
                        [t |-> "STREAM", uni |-> TRUE, id |-> 0, off |-> 0, data |-> << 0 >>, fin |-> FALSE])}
                ELSE IF f = "reset" THEN {Packet("Application", n, 9, [t |-> "RESET_STREAM", id |-> 0])}
                ELSE IF f = "streams" THEN {Packet("Application", n, 9, [t |-> "MAX_STREAMS", n |-> 2])}
                ELSE IF f = "data" THEN {Packet("Application", n, 9, [t |-> "MAX_DATA", n |-> QueryLen]),
                                         Packet("Application", n, 9, [t |-> "MAX_STREAM_DATA", id |-> 0, n |-> QueryLen])}
                ELSE IF \E w \in c.wire : w.frame = Frame("REPLY") THEN {}
                ELSE {Packet("Application", n, 9, Frame(f))}
             noise == UNION {Noise(f) : f \in srv.noise}
             answers == {Packet("Application", n, 10 * id + r.pn, ResponseFrame(id, r)) :
                            id \in Asked(c), r \in srv.resp}
             single == (IF srv.retry /\ Greeted(c, 1) THEN {[kind |-> "retry", scid |-> srv.retryScid]} ELSE {})
                       \cup (IF Greeted(c, n) THEN {hello} \cup flight \cup noise \cup Acks(c, n) ELSE {})
                       \cup answers
  <1>1. Datagrams(c) = {<< p >> : p \in single} \cup (IF Greeted(c, n) THEN {<< hello, p >> : p \in flight} ELSE {})
    BY DEF Datagrams
  <1>2. \A sp, k, pn, f : Plain(Packet(sp, k, pn, f))
    BY DEF Packet
  <1>3. Plain([kind |-> "retry", scid |-> srv.retryScid]) /\ Plain(Other("version")) /\ Plain(Other("malformed"))
    BY DEF Other
  <1> HIDE DEF Plain, n
  <1>4. Plain(hello) /\ \A p \in flight : Plain(p)
    BY <1>2
  <1>5. \A f : \A p \in Noise(f) : Plain(p)
    BY <1>2, <1>3
  <1>6. \A p \in noise : Plain(p)
    <2> HIDE DEF Noise
    <2> QED BY <1>5
  <1>7. \A p \in Acks(c, n) \cup answers : Plain(p)
    <2>1. ASSUME NEW p \in answers PROVE Plain(p)
      <3>1. PICK id \in Asked(c), r \in srv.resp :
                p = Packet("Application", n, 10 * id + r.pn, ResponseFrame(id, r))
        OBVIOUS
      <3> QED BY <1>2, <3>1
    <2>2. ASSUME NEW p \in Acks(c, n) PROVE Plain(p)
      <3>1. \E sp, f : p = Packet(sp, n, 0, f)
        BY DEF Acks
      <3> QED BY <1>2, <3>1
    <2> QED BY <2>1, <2>2
  <1> HIDE DEF hello, flight, noise, answers
  <1>8. \A p \in single : Plain(p)
    BY <1>3, <1>4, <1>6, <1>7
  <1> HIDE DEF single
  <1>9. CASE \E p \in single : dg = << p >>
    BY <1>8, <1>9 DEF Formed, Plain
  <1>10. CASE \E p \in flight : dg = << hello, p >>
    <2>1. PICK p \in flight : dg = << hello, p >>  BY <1>10
    <2>2. Len(dg) = 2 /\ dg[1] = hello /\ dg[2] = p  BY <2>1
    <2>3. Plain(dg[1]) /\ Plain(dg[2])  BY <1>4, <2>2
    <2> QED BY <2>2, <2>3 DEF Formed, Plain
  <1> QED BY <1>1, <1>9, <1>10

(* While a thread is in its loop there is a connection, and it is good. *)
ConnGood ==
    /\ conn = NoConn \/ Good(conn)
    /\ pc # "idle" => Good(conn)

LEMMA KeptGood ==
    ASSUME NEW c, Good(c), NEW up
    PROVE  Good([c EXCEPT !.up = up])
  <1>1. Same([c EXCEPT !.up = up], c)
    BY DEF Same, Good, Shape, Fields
  <1> QED BY <1>1, SameGood

LEMMA ConnectGood ==
    ASSUME NEW up
    PROVE  Good(connect(up))
  <1> DEFINE c == NewConn(up)
  <1>1. /\ DOMAIN c = Fields /\ c.hello = 1 /\ c.wire = {} /\ c.sent = {}
        /\ c.nextPn = [sp \in Spaces |-> 0] /\ c.initialCid = OriginalDcid
    BY DEF NewConn, Fields, PerSpace
  <1> HIDE DEF c
  <1>2. Good(c)
    BY <1>1, FS_EmptySet DEF Good, Shape, WireOK, KeysOK, SentOK, HeldOK
  <1> QED BY <1>2, SentPacketGood DEF connect, c, Spaces

LEMMA ExchangeGood ==
    ASSUME NEW c, Good(c)
    PROVE  Good(exchange_query(c))
  <1> DEFINE d == [c EXCEPT !.stream = c.opened, !.opened = @ + 1, !.asking = TRUE, !.offset = 0,
                            !.used = 0, !.finSent = FALSE, !.buf = << >>, !.fin = FALSE, !.heard = {}]
  <1>1. exchange_query(c) \in {Failed(c), flush_query_send(d)}
    BY DEF exchange_query
  <1>2. Same(d, c)
    BY DEF Same, Good, Shape, Fields
  <1>3. Good(d)
    BY <1>2, SameGood
  <1> HIDE DEF d
  <1> QED BY <1>1, <1>3, FailedGood, FlushedQueryGood

LEMMA BegunGood ==
    ASSUME NEW c, c.err \/ Good(c), NEW stage, Begin(c, stage)
    PROVE  ConnGood'
  <1>1. CASE c.err
    BY <1>1 DEF Begin, Drop, Return, ConnGood
  <1>2. CASE ~c.err
    <2>1. Good(conn')
      BY <1>2, KeptGood DEF Begin, Keep
    <2> QED BY <2>1 DEF ConnGood
  <1> QED BY <1>1, <1>2

LEMMA ConnGoodInvariant == Spec => []ConnGood
  <1>1. Init => ConnGood
    BY DEF Init, ConnGood
  <1>2. ConnGood /\ [Next]_vars => ConnGood'
    <2> SUFFICES ASSUME ConnGood, [Next]_vars PROVE ConnGood'
      OBVIOUS
    <2>1. CASE Exchange
      <3>1. PICK up \in Sendable :
              IF is_open(conn) THEN Begin(exchange_query([conn EXCEPT !.up = up]), "exchange")
              ELSE Begin(connect(up), "connect")
        BY <2>1 DEF Exchange
      <3>2. CASE is_open(conn)
        <4>1. conn # NoConn  BY <3>2 DEF is_open, NoConn
        <4>2. Good(exchange_query([conn EXCEPT !.up = up]))
          BY <4>1, KeptGood, ExchangeGood DEF ConnGood
        <4> QED BY <3>1, <3>2, <4>2, BegunGood
      <3>3. CASE ~is_open(conn)
        BY <3>1, <3>3, ConnectGood, BegunGood
      <3> QED BY <3>2, <3>3
    <2>2. CASE Receive
      <3>1. PICK dg \in Datagrams(conn), up \in Sendable :
              LET c == process_datagram([conn EXCEPT !.up = up], dg)
              IN  IF c.err THEN Drop
                  ELSE Keep([c EXCEPT !.pto = 0]) /\ left' \in Waited(left) /\ UNCHANGED << pc, results >>
        BY <2>2 DEF Receive
      <3> DEFINE c == process_datagram([conn EXCEPT !.up = up], dg)
                 d == [c EXCEPT !.pto = 0]
      <3>2. Good(conn)
        BY <2>2 DEF Receive, ConnGood
      <3>3. Good(c)
        <4>1. Good([conn EXCEPT !.up = up]) /\ Formed(dg)
          BY <3>2, KeptGood, DatagramsFormed
        <4> QED BY <4>1, DatagramGood
      <3>4. IF c.err THEN Drop ELSE Keep(d) /\ UNCHANGED << pc, results >>
        BY <3>1
      <3> HIDE DEF c
      <3>5. CASE c.err
        BY <3>4, <3>5 DEF Drop, Return, ConnGood
      <3>6. CASE ~c.err
        <4>1. Same(d, c)
          BY <3>3 DEF Same, Good, Shape, Fields
        <4>2. Good(d)
          BY <3>3, <4>1, SameGood
        <4> HIDE DEF d
        <4>3. Good(conn')
          BY <3>4, <3>6, <4>2, KeptGood DEF Keep
        <4> QED BY <4>3 DEF ConnGood
      <3> QED BY <3>5, <3>6
    <2>3. CASE Turn
      <3> DEFINE acks(up) == flush_acks([conn EXCEPT !.up = up])
                 probed(fired, up) == run_pto(acks(up), fired)
                 cc(fired, up) == IF probed(fired, up).err \/ ~probed(fired, up).confirmed
                                  THEN probed(fired, up) ELSE flush_query_send(probed(fired, up))
      <3>1. PICK fired \in BOOLEAN, up \in Sendable :
              IF cc(fired, up).err THEN Drop
              ELSE IF Done(cc(fired, up))
              THEN IF pc = "connect" THEN Begin(exchange_query(cc(fired, up)), "exchange")
                   ELSE Keep(cc(fired, up)) /\ Return([ok |-> deframe_response(cc(fired, up).buf), answer |-> cc(fired, up).buf,
                                                               heard |-> cc(fired, up).heard])
              ELSE IF cc(fired, up).closed \/ left <= 1 THEN Drop
              ELSE Keep(cc(fired, up)) /\ left' = Remaining(left) /\ UNCHANGED << pc, results >>
        BY <2>3 DEF Turn
      <3>2. Good(conn)
        BY <2>3 DEF Turn, ConnGood
      <3>3. Good(acks(up))
        <4>1. Good([conn EXCEPT !.up = up])  BY <3>2, KeptGood
        <4> QED BY <4>1, FlushedAcksGood
      <3> HIDE DEF acks
      <3>4. probed(fired, up).err \/ Good(probed(fired, up))
        BY <3>3, ProbedGood
      <3> HIDE DEF probed
      <3> DEFINE c == cc(fired, up)
      <3>5. c.err \/ Good(c)
        BY <3>4, FlushedQueryGood
      <3>6. \/ c.err /\ Drop
            \/ ~c.err /\ Begin(exchange_query(c), "exchange")
            \/ ~c.err /\ Keep(c)
            \/ Drop
        BY <3>1
      <3> HIDE DEF c
      <3>7. CASE Drop
        BY <3>7 DEF Drop, Return, ConnGood
      <3>8. CASE ~c.err /\ Begin(exchange_query(c), "exchange")
        <4>1. Good(exchange_query(c))  BY <3>5, <3>8, ExchangeGood
        <4> QED BY <3>8, <4>1, BegunGood
      <3>9. CASE ~c.err /\ Keep(c)
        <4>1. Good(conn')  BY <3>5, <3>9, KeptGood DEF Keep
        <4> QED BY <4>1 DEF ConnGood
      <3> QED BY <3>6, <3>7, <3>8, <3>9
    <2>4. CASE Finish
      BY <2>4 DEF Finish, vars, ConnGood
    <2>5. CASE UNCHANGED vars
      BY <2>5 DEF vars, ConnGood
    <2> QED BY <2>1, <2>2, <2>3, <2>4, <2>5 DEF Next
  <1> QED BY <1>1, <1>2, PTL DEF Spec

(* send_packet never protects two packets with the same key and packet number, in
   any connection with any server: not when the probe timer sends again what is
   unacknowledged, and not when a Retry restarts the numbers of the Initial space,
   provided it named another identifier, and so other keys, than the client had. *)
THEOREM NumbersNeverRepeat == Spec => []NonceUnique
  <1>1. ConnGood => NonceUnique
    <2> SUFFICES ASSUME Good(conn), conn.retried => conn.initialCid # OriginalDcid,
                        NEW v \in conn.wire, NEW w \in conn.wire,
                        v.space = w.space, v.key = w.key, v.pn = w.pn
                 PROVE  v = w
      BY DEF ConnGood, NonceUnique, NoConn
    <2>1. v.hello = w.hello
      BY DEF Good, KeysOK
    <2> QED BY <2>1 DEF Good, WireOK
  <1> QED BY <1>1, ConnGoodInvariant, PTL

(* Handshake data and query data leave the retransmission queue only when a packet
   that carried them was acknowledged in its own space, or with the ClientHello a
   Retry replaces: whatever on_ack, run_pto and process_retry do in between. *)
THEOREM UnacknowledgedIsHeld == Spec => []NothingForgotten
  <1>1. ConnGood => NothingForgotten
    <2> SUFFICES ASSUME Good(conn), NEW w \in conn.wire, w.frame.t \in {"CRYPTO", "STREAM"},
                        w.space = "Initial" => w.hello = conn.hello
                 PROVE  \/ \E p \in conn.sent : p.frame = w.frame
                        \/ \E v \in conn.wire : v.frame = w.frame /\ << v.space, v.pn >> \in conn.acked
      BY DEF ConnGood, NothingForgotten, NoConn
    <2>1. Held(conn, w)  BY DEF Good, HeldOK
    <2> QED BY <2>1 DEF Held
  <1> QED BY <1>1, ConnGoodInvariant, PTL

-----------------------------------------------------------------------------
(* Reassembly *)

(* A piece of a stream, from an offset on. *)
PieceOf(d, S, off) ==
    /\ d \in Seq(ToSet(S))
    /\ \A i \in 1..Len(d) : d[i] = S[off + i] /\ off + i <= Len(S)

RxOK(rx, S) ==
    /\ DOMAIN rx = {"buf", "start", "pending"}
    /\ rx.start \in Nat /\ rx.start <= Len(S)
    /\ PieceOf(rx.buf, S, rx.start)
    /\ IsFiniteSet(DOMAIN rx.pending) /\ DOMAIN rx.pending \subseteq Nat
    /\ \A off \in DOMAIN rx.pending : PieceOf(rx.pending[off], S, off)

Drained(rx) == \A off \in DOMAIN rx.pending : off > ContiguousEnd(rx)

LEMMA LeastOf ==
    ASSUME NEW T \in SUBSET Nat, T # {}
    PROVE  Min(T) \in T /\ \A j \in T : Min(T) <= j
  <1> DEFINE R == {p \in Nat \X Nat : p[1] < p[2]}
  <1>1. IsWellFoundedOn(R, Nat)
    BY NatLessThanWellFounded, Zenon DEF OpToRel
  <1>2. \A j, m \in Nat : << j, m >> \notin R => m <= j
    OBVIOUS
  <1> HIDE DEF R
  <1>3. PICK m \in T : \A j \in T : << j, m >> \notin R
    BY <1>1, WFMin
  <1>4. \A j \in T : m <= j
    BY <1>2, <1>3
  <1> QED BY <1>4 DEF Min

(* What a chunk has past the end of a piece continues it. *)
LEMMA Continued ==
    ASSUME NEW S, Len(S) \in Nat, NEW d, NEW o \in Nat, PieceOf(d, S, o),
           NEW e, NEW off \in Nat, PieceOf(e, S, off), off <= o + Len(d)
    PROVE  PieceOf(d \o SubSeq(e, (o + Len(d)) - off + 1, Len(e)), S, o)
  <1> DEFINE m == (o + Len(d)) - off + 1
             n == Len(e)
             f == SubSeq(e, m, n)
             X == ToSet(S)
  <1>1. d \in Seq(X) /\ e \in Seq(X) /\ Len(d) \in Nat /\ n \in Nat /\ m \in Nat /\ m >= 1
    BY DEF PieceOf
  <1> HIDE DEF X
  <1>2. \A i \in m..n : e[i] \in X
    BY <1>1
  <1>3. /\ f \in Seq(X) /\ Len(f) = IF m <= n THEN n - m + 1 ELSE 0
        /\ \A i \in 1..(n - m + 1) : f[i] = e[m + i - 1]
    BY <1>1, <1>2, SubSeqProperties
  <1> HIDE DEF f
  <1>4. \A i \in 1..Len(f) : i \in 1..(n - m + 1) /\ m + i - 1 \in 1..n
    BY <1>1, <1>3
  <1>5. \A i \in 1..Len(f) : f[i] = S[o + (Len(d) + i)] /\ o + (Len(d) + i) <= Len(S)
    <2>1. TAKE i \in 1..Len(f)
    <2>2. f[i] = e[m + i - 1]  BY <1>3, <1>4
    <2>3. e[m + i - 1] = S[off + (m + i - 1)] /\ off + (m + i - 1) <= Len(S)  BY <1>4 DEF PieceOf
    <2>4. off + (m + i - 1) = o + (Len(d) + i)  BY <1>1
    <2> QED BY <2>2, <2>3, <2>4
  <1>6. /\ d \o f \in Seq(X) /\ Len(d \o f) = Len(d) + Len(f)
        /\ \A i \in 1..(Len(d) + Len(f)) : (d \o f)[i] = IF i <= Len(d) THEN d[i] ELSE f[i - Len(d)]
    BY <1>1, <1>3, ConcatProperties
  <1>7. Len(f) \in Nat  BY <1>3
  <1>8. ASSUME NEW i \in 1..Len(d \o f)
        PROVE  (d \o f)[i] = S[o + i] /\ o + i <= Len(S)
    <2>1. CASE i <= Len(d)
      <3>1. i \in 1..Len(d)  BY <1>1, <2>1, <1>6, <1>7
      <3> QED BY <1>6, <3>1, <2>1 DEF PieceOf
    <2>2. CASE ~(i <= Len(d))
      <3>1. i - Len(d) \in 1..Len(f) /\ Len(d) + (i - Len(d)) = i  BY <1>1, <1>6, <1>7, <2>2
      <3> QED BY <1>5, <1>6, <3>1, <2>2
    <2> QED BY <2>1, <2>2
  <1> QED BY <1>6, <1>8 DEF PieceOf, f, X

LEMMA AbsorbedOK ==
    ASSUME NEW S, Len(S) \in Nat, NEW rx, RxOK(rx, S), Absorbable(rx) # {}
    PROVE  /\ RxOK(Absorb(rx), S)
           /\ Absorb(rx).start = rx.start
           /\ Cardinality(DOMAIN Absorb(rx).pending) = Cardinality(DOMAIN rx.pending) - 1
  <1> DEFINE off == Min(Absorbable(rx))
             p == rx.pending
             q == Absorb(rx)
  <1>1. off \in DOMAIN p /\ off \in Nat /\ off <= ContiguousEnd(rx)
    <2>1. Absorbable(rx) \in SUBSET Nat  BY DEF Absorbable, RxOK
    <2> QED BY <2>1, LeastOf DEF Absorbable
  <1>2. /\ DOMAIN q = {"buf", "start", "pending"} /\ q.start = rx.start
        /\ q.buf = rx.buf \o Fresh(rx, off, p[off])
        /\ q.pending = [x \in DOMAIN p \ {off} |-> p[x]]
    BY DEF Absorb, Restrict, RxOK
  <1> HIDE DEF off, q
  <1>3. PieceOf(q.buf, S, q.start)
    <2>1. PieceOf(rx.buf, S, rx.start) /\ PieceOf(p[off], S, off) /\ rx.start \in Nat
      BY <1>1 DEF RxOK
    <2> QED BY <1>1, <1>2, <2>1, Continued DEF Fresh, ContiguousEnd
  <1>4. DOMAIN q.pending = DOMAIN p \ {off} /\ \A x \in DOMAIN q.pending : q.pending[x] = p[x]
    BY <1>2
  <1>5. IsFiniteSet(DOMAIN p \ {off}) /\ Cardinality(DOMAIN p \ {off}) = Cardinality(DOMAIN p) - 1
    <2>1. IsFiniteSet(DOMAIN p)  BY DEF RxOK
    <2> QED BY <1>1, <2>1, FS_RemoveElement
  <1>6. RxOK(q, S)
    BY <1>2, <1>3, <1>4, <1>5 DEF RxOK
  <1> QED BY <1>2, <1>4, <1>5, <1>6 DEF q

(* Chunks are absorbed one after the other. *)
LEMMA AbsorbedInTurn ==
    ASSUME NEW rx, Cardinality(DOMAIN rx.pending) \in Nat
    PROVE  \E g : /\ g[0] = rx
                  /\ \A i \in 1..Cardinality(DOMAIN rx.pending) : g[i] = IF Absorbable(g[i - 1]) = {} THEN g[i - 1] ELSE Absorb(g[i - 1])
                  /\ drain_pending(rx) = g[Cardinality(DOMAIN rx.pending)]
  <1> DEFINE n == Cardinality(DOMAIN rx.pending)
             x0 == rx
             Step(d, i) == IF Absorbable(d) = {} THEN d ELSE Absorb(d)
             Run(k, g) == g = [i \in 0..k |-> IF i = 0 THEN x0 ELSE Step(g[i - 1], i)]
             T == {k \in Nat : \E g : Run(k, g)}
             r == CHOOSE g : Run(n, g)
  <1>1. drain_pending(rx) = r[n]
    BY DEF drain_pending
  <1> HIDE DEF Step, x0, n
  <1>2. 0 \in T
    <2> DEFINE g == [i \in 0..0 |-> x0]
    <2>1. Run(0, g)  OBVIOUS
    <2> HIDE DEF g, Run
    <2> QED BY <2>1
  <1>3. ASSUME NEW k \in T PROVE k + 1 \in T
    <2>1. k \in Nat  OBVIOUS
    <2>2. PICK g : Run(k, g)  BY <1>3
    <2> DEFINE h == [i \in 0..(k + 1) |-> IF i = k + 1 THEN Step(g[k], k + 1) ELSE g[i]]
               e == [i \in 0..(k + 1) |-> IF i = 0 THEN x0 ELSE Step(h[i - 1], i)]
    <2>3. \A i \in 0..k : g[i] = IF i = 0 THEN x0 ELSE Step(g[i - 1], i)  BY <2>2
    <2>4. \A i \in 0..k : h[i] = g[i]  BY <2>1
    <2>5. h[k + 1] = Step(h[k], k + 1)  BY <2>1, <2>4
    <2>6. \A i \in 0..k : i # 0 => h[i] = Step(h[i - 1], i)
      <3>1. TAKE i \in 0..k
      <3>2. i # 0 => i - 1 \in 0..k  BY <2>1
      <3> HIDE DEF h
      <3> QED BY <2>3, <2>4, <3>2
    <2>7. h[0] = x0  BY <2>1, <2>3, <2>4
    <2>8. \A i \in 0..(k + 1) : h[i] = IF i = 0 THEN x0 ELSE Step(h[i - 1], i)
      <3> HIDE DEF h
      <3>1. TAKE i \in 0..(k + 1)
      <3>2. CASE i = k + 1
        <4>1. i - 1 = k /\ i # 0  BY <2>1, <3>2
        <4> QED BY <2>5, <3>2, <4>1
      <3>3. CASE i \in 0..k
        BY <2>6, <2>7, <3>3
      <3> QED BY <2>1, <3>2, <3>3
    <2>9. h = e
      <3>1. h = [i \in 0..(k + 1) |-> h[i]]  OBVIOUS
      <3> HIDE DEF h
      <3> QED BY <2>8, <3>1
    <2>10. Run(k + 1, h)  BY <2>9
    <2> HIDE DEF h, Run
    <2> QED BY <2>1, <2>10
  <1>4. T = Nat
    <2> HIDE DEF Run
    <2>1. T \in SUBSET Nat  OBVIOUS
    <2> HIDE DEF T
    <2> QED BY <1>2, <1>3, <2>1, Counting
  <1>5. Run(n, r)
    <2> HIDE DEF Run, r
    <2>1. \E g : Run(n, g)  BY <1>4 DEF n
    <2> QED BY <2>1 DEF r
  <1> HIDE DEF r
  <1>6. r[0] = x0 /\ \A i \in 1..n : r[i] = Step(r[i - 1], i)
    <2>1. n \in Nat  BY DEF n
    <2>2. \A i \in 0..n : r[i] = IF i = 0 THEN x0 ELSE Step(r[i - 1], i)  BY <1>5
    <2> QED BY <2>1, <2>2
  <1>7. \A i \in 1..Cardinality(DOMAIN rx.pending) : r[i] = IF Absorbable(r[i - 1]) = {} THEN r[i - 1] ELSE Absorb(r[i - 1])
    BY <1>6 DEF Step, n
  <1>8. r[0] = rx
    BY <1>6 DEF x0
  <1>9. drain_pending(rx) = r[Cardinality(DOMAIN rx.pending)]
    BY <1>1 DEF n
  <1> QED BY <1>7, <1>8, <1>9, Zenon

LEMMA DrainedOK ==
    ASSUME NEW S, Len(S) \in Nat, NEW rx, RxOK(rx, S)
    PROVE  /\ RxOK(drain_pending(rx), S) /\ Drained(drain_pending(rx))
           /\ drain_pending(rx).start = rx.start
  <1> DEFINE n == Cardinality(DOMAIN rx.pending)
  <1>1. n \in Nat
    <2>1. IsFiniteSet(DOMAIN rx.pending)  BY DEF RxOK
    <2> QED BY <2>1, FS_CardinalityType
  <1>2. PICK g : /\ g[0] = rx
                 /\ \A i \in 1..n : g[i] = IF Absorbable(g[i - 1]) = {} THEN g[i - 1] ELSE Absorb(g[i - 1])
                 /\ drain_pending(rx) = g[n]
    BY <1>1, AbsorbedInTurn
  <1> HIDE DEF n
  <1> DEFINE Left(k) == Cardinality(DOMAIN g[k].pending)
             P(k) == /\ RxOK(g[k], S) /\ g[k].start = rx.start /\ Left(k) \in Nat
                     /\ Absorbable(g[k]) = {} \/ Left(k) <= n - k
             T == {k \in Nat : k <= n => P(k)}
  <1>3. 0 \in T
    <2>1. Left(0) = n  BY <1>2 DEF n
    <2> QED BY <1>1, <1>2, <2>1
  <1>4. ASSUME NEW k \in T PROVE k + 1 \in T
    <2>1. CASE k + 1 <= n
      <3>1. k + 1 \in 1..n /\ (k + 1) - 1 = k /\ k \in Nat /\ k <= n  BY <1>1, <2>1
      <3>2. P(k)  BY <3>1
      <3>3. g[k + 1] = IF Absorbable(g[k]) = {} THEN g[k] ELSE Absorb(g[k])  BY <1>2, <3>1
      <3>4. CASE Absorbable(g[k]) = {}
        <4>1. g[k + 1] = g[k]  BY <3>3, <3>4
        <4>2. P(k + 1)  BY <3>2, <3>4, <4>1
        <4> QED BY <3>1, <4>2
      <3>5. CASE Absorbable(g[k]) # {}
        <4>1. g[k + 1] = Absorb(g[k])  BY <3>3, <3>5
        <4>2. /\ RxOK(g[k + 1], S) /\ g[k + 1].start = rx.start /\ Left(k + 1) = Left(k) - 1
          <5>1. /\ RxOK(Absorb(g[k]), S) /\ Absorb(g[k]).start = g[k].start
                /\ Cardinality(DOMAIN Absorb(g[k]).pending) = Cardinality(DOMAIN g[k].pending) - 1
            BY <3>2, <3>5, AbsorbedOK
          <5> QED BY <3>2, <4>1, <5>1
        <4>3. Left(k + 1) \in Nat
          <5>1. IsFiniteSet(DOMAIN g[k + 1].pending)  BY <4>2 DEF RxOK
          <5> QED BY <5>1, FS_CardinalityType
        <4> HIDE DEF Left
        <4>4. P(k + 1)
          BY <1>1, <3>1, <3>2, <3>5, <4>2, <4>3
        <4> QED BY <3>1, <4>4
      <3> QED BY <3>4, <3>5
    <2> QED BY <2>1
  <1>5. T = Nat
    <2>1. T \in SUBSET Nat  OBVIOUS
    <2> HIDE DEF T
    <2> QED BY <1>3, <1>4, <2>1, Counting
  <1>6. P(n)
    <2> HIDE DEF P
    <2> QED BY <1>1, <1>5
  <1>7. Absorbable(g[n]) = {}
    <2>1. CASE Left(n) <= n - n
      <3>1. Left(n) = 0  BY <1>1, <1>6, <2>1
      <3>2. IsFiniteSet(DOMAIN g[n].pending)  BY <1>6 DEF RxOK
      <3>3. DOMAIN g[n].pending = {}  BY <3>1, <3>2, FS_EmptySet
      <3> QED BY <3>3 DEF Absorbable
    <2> QED BY <1>6, <2>1
  <1>8. Drained(g[n])
    <2>1. g[n].start \in Nat /\ Len(g[n].buf) \in Nat /\ DOMAIN g[n].pending \subseteq Nat
      BY <1>6 DEF RxOK, PieceOf
    <2> QED BY <1>7, <2>1 DEF Drained, Absorbable, ContiguousEnd
  <1> QED BY <1>2, <1>6, <1>8

LEMMA InsertedOK ==
    ASSUME NEW S, Len(S) \in Nat, NEW rx, RxOK(rx, S), Drained(rx),
           NEW off \in Nat, NEW data, PieceOf(data, S, off)
    PROVE  /\ RxOK(insert(rx, off, data), S) /\ Drained(insert(rx, off, data))
           /\ insert(rx, off, data).start = rx.start
  <1> DEFINE end == ContiguousEnd(rx)
             later == [rx EXCEPT !.pending = Postponed(@, off, data)]
             now == [rx EXCEPT !.buf = @ \o Fresh(rx, off, data)]
  <1>1. rx.start \in Nat /\ Len(rx.buf) \in Nat /\ end \in Nat
    BY DEF RxOK, PieceOf, ContiguousEnd
  <1>2. CASE off > end
    <2>1. /\ DOMAIN later = {"buf", "start", "pending"} /\ later.buf = rx.buf /\ later.start = rx.start
          /\ later.pending = Postponed(rx.pending, off, data)
      BY DEF RxOK
    <2>2. /\ DOMAIN later.pending = DOMAIN rx.pending \cup {off}
          /\ \A x \in DOMAIN later.pending :
                later.pending[x] = IF x \in DOMAIN rx.pending THEN rx.pending[x] ELSE data
      BY <2>1 DEF Postponed
    <2> HIDE DEF later
    <2>3. IsFiniteSet(DOMAIN rx.pending \cup {off})
      <3>1. IsFiniteSet(DOMAIN rx.pending)  BY DEF RxOK
      <3> QED BY <3>1, FS_AddElement
    <2>4. RxOK(later, S)
      BY <2>1, <2>2, <2>3 DEF RxOK
    <2>5. Drained(later)
      BY <1>2, <2>1, <2>2 DEF Drained, ContiguousEnd
    <2>6. insert(rx, off, data) \in {rx, later}
      BY <1>2 DEF insert, later
    <2> QED BY <2>1, <2>4, <2>5, <2>6
  <1>3. CASE ~(off > end)
    <2>1. /\ DOMAIN now = {"buf", "start", "pending"} /\ now.start = rx.start
          /\ now.buf = rx.buf \o Fresh(rx, off, data) /\ now.pending = rx.pending
      BY DEF RxOK
    <2> HIDE DEF now
    <2>2. PieceOf(now.buf, S, now.start)
      <3>1. PieceOf(rx.buf, S, rx.start) /\ off <= rx.start + Len(rx.buf)
        BY <1>1, <1>3 DEF RxOK, ContiguousEnd
      <3> QED BY <1>1, <2>1, <3>1, Continued DEF Fresh, ContiguousEnd
    <2>3. RxOK(now, S)
      BY <2>1, <2>2 DEF RxOK
    <2>4. insert(rx, off, data) \in {rx, drain_pending(now)}
      BY <1>3 DEF insert, now
    <2> QED BY <2>1, <2>3, <2>4, DrainedOK
  <1> QED BY <1>2, <1>3

LEMMA PoppedOK ==
    ASSUME NEW S, Len(S) \in Nat, NEW rx, RxOK(rx, S), HasMessage(rx),
           rx.buf[1].length \in Nat
    PROVE  /\ RxOK(pop_message(rx), S) /\ Drained(pop_message(rx))
           /\ pop_message(rx).start = rx.start + rx.buf[1].length
           /\ 1 \in 1..Len(rx.buf) /\ rx.buf[1] = S[rx.start + 1] /\ rx.start + 1 <= Len(S)
  <1> DEFINE take == rx.buf[1].length
             cut == SubSeq(rx.buf, take + 1, Len(rx.buf))
             q == [rx EXCEPT !.buf = SubSeq(@, take + 1, Len(@)), !.start = @ + take]
             X == ToSet(S)
  <1>1. /\ rx.start \in Nat /\ Len(rx.buf) \in Nat /\ rx.buf \in Seq(X) /\ rx.buf # << >>
        /\ take <= Len(rx.buf)
    BY DEF RxOK, PieceOf, HasMessage
  <1>2. 1 \in 1..Len(rx.buf)
    BY <1>1
  <1>3. rx.buf[1] = S[rx.start + 1] /\ rx.start + 1 <= Len(S)
    BY <1>2 DEF RxOK, PieceOf
  <1>4. /\ DOMAIN q = {"buf", "start", "pending"} /\ q.start = rx.start + take
        /\ q.buf = cut /\ q.pending = rx.pending
    BY DEF RxOK
  <1>5. pop_message(rx) = drain_pending(q)
    BY DEF pop_message
  <1> HIDE DEF q, X
  <1> DEFINE n == Len(rx.buf)
             tk == take
  <1>6. n \in Nat /\ tk \in Nat /\ tk <= n
    BY <1>1
  <1> HIDE DEF take, tk, n
  <1>7. /\ cut \in Seq(X) /\ Len(cut) = n - tk
        /\ \A i \in 1..(n - tk) : cut[i] = rx.buf[tk + i]
    <2>1. \A i \in (tk + 1)..n : rx.buf[i] \in X
      BY <1>1, <1>6 DEF n
    <2>2. /\ SubSeq(rx.buf, tk + 1, n) \in Seq(X)
          /\ Len(SubSeq(rx.buf, tk + 1, n)) = IF tk + 1 <= n THEN n - (tk + 1) + 1 ELSE 0
          /\ \A i \in 1..(n - (tk + 1) + 1) : SubSeq(rx.buf, tk + 1, n)[i] = rx.buf[(tk + 1) + i - 1]
      BY <1>6, <2>1, SubSeqProperties
    <2>3. cut = SubSeq(rx.buf, tk + 1, n)
      BY DEF tk, n
    <2> HIDE DEF cut
    <2>4. n - (tk + 1) + 1 = n - tk /\ \A i \in 1..(n - tk) : (tk + 1) + i - 1 = tk + i
      BY <1>6
    <2> QED BY <1>6, <2>2, <2>3, <2>4
  <1> HIDE DEF cut
  <1>8. \A i \in 1..n : rx.buf[i] = S[rx.start + i] /\ rx.start + i <= Len(S)
    BY DEF RxOK, PieceOf, n
  <1>9. ASSUME NEW i \in 1..Len(cut)
        PROVE  cut[i] = S[(rx.start + tk) + i] /\ (rx.start + tk) + i <= Len(S)
    <2>1. tk + i \in 1..n /\ rx.start + (tk + i) = (rx.start + tk) + i /\ i \in 1..(n - tk)
      BY <1>1, <1>6, <1>7
    <2> QED BY <1>7, <1>8, <2>1
  <1>10. rx.start + tk <= Len(S)
    <2>1. CASE tk = 0
      BY <2>1, <1>1 DEF RxOK
    <2>2. CASE tk # 0
      <3>1. tk \in 1..n  BY <1>6, <2>2
      <3> QED BY <1>8, <3>1
    <2> QED BY <2>1, <2>2
  <1>11. RxOK(q, S)
    BY <1>1, <1>4, <1>6, <1>7, <1>9, <1>10 DEF RxOK, PieceOf, X, tk
  <1>12. RxOK(drain_pending(q), S) /\ Drained(drain_pending(q)) /\ drain_pending(q).start = q.start
    BY <1>11, DrainedOK
  <1> QED BY <1>2, <1>3, <1>4, <1>5, <1>12 DEF take

-----------------------------------------------------------------------------
(* What a server says *)

(* A server says one message after the other. *)
LEMMA SaidInTurn ==
    ASSUME NEW s, NEW h, Len(s.order) \in Nat
    PROVE  \E g : /\ g[0] = << [type |-> "CH", hello |-> h], ServerHello(s, h) >>
                  /\ \A i \in 1..Len(s.order) : g[i] = Append(g[i - 1], Message(s, s.order[i], g[i - 1]))
                  /\ Said(s, h) = g[Len(s.order)]
  <1> DEFINE n == Len(s.order)
             x0 == << [type |-> "CH", hello |-> h], ServerHello(s, h) >>
             Step(d, i) == Append(d, Message(s, s.order[i], d))
             Run(k, g) == g = [i \in 0..k |-> IF i = 0 THEN x0 ELSE Step(g[i - 1], i)]
             T == {k \in Nat : \E g : Run(k, g)}
             r == CHOOSE g : Run(n, g)
  <1>1. Said(s, h) = r[n]
    BY DEF Said
  <1> HIDE DEF Step, x0, n
  <1>2. 0 \in T
    <2> DEFINE g == [i \in 0..0 |-> x0]
    <2>1. Run(0, g)  OBVIOUS
    <2> HIDE DEF g, Run
    <2> QED BY <2>1
  <1>3. ASSUME NEW k \in T PROVE k + 1 \in T
    <2>1. k \in Nat  OBVIOUS
    <2>2. PICK g : Run(k, g)  BY <1>3
    <2> DEFINE q == [i \in 0..(k + 1) |-> IF i = k + 1 THEN Step(g[k], k + 1) ELSE g[i]]
               e == [i \in 0..(k + 1) |-> IF i = 0 THEN x0 ELSE Step(q[i - 1], i)]
    <2>3. \A i \in 0..k : g[i] = IF i = 0 THEN x0 ELSE Step(g[i - 1], i)  BY <2>2
    <2>4. \A i \in 0..k : q[i] = g[i]  BY <2>1
    <2>5. q[k + 1] = Step(q[k], k + 1)  BY <2>1, <2>4
    <2>6. \A i \in 0..k : i # 0 => q[i] = Step(q[i - 1], i)
      <3>1. TAKE i \in 0..k
      <3>2. i # 0 => i - 1 \in 0..k  BY <2>1
      <3> HIDE DEF q
      <3> QED BY <2>3, <2>4, <3>2
    <2>7. q[0] = x0  BY <2>1, <2>3, <2>4
    <2>8. \A i \in 0..(k + 1) : q[i] = IF i = 0 THEN x0 ELSE Step(q[i - 1], i)
      <3> HIDE DEF q
      <3>1. TAKE i \in 0..(k + 1)
      <3>2. CASE i = k + 1
        <4>1. i - 1 = k /\ i # 0  BY <2>1, <3>2
        <4> QED BY <2>5, <3>2, <4>1
      <3>3. CASE i \in 0..k
        BY <2>6, <2>7, <3>3
      <3> QED BY <2>1, <3>2, <3>3
    <2>9. q = e
      <3>1. q = [i \in 0..(k + 1) |-> q[i]]  OBVIOUS
      <3> HIDE DEF q
      <3> QED BY <2>8, <3>1
    <2>10. Run(k + 1, q)  BY <2>9
    <2> HIDE DEF q, Run
    <2> QED BY <2>1, <2>10
  <1>4. T = Nat
    <2> HIDE DEF Run
    <2>1. T \in SUBSET Nat  OBVIOUS
    <2> HIDE DEF T
    <2> QED BY <1>2, <1>3, <2>1, Counting
  <1>5. Run(n, r)
    <2> HIDE DEF Run, r
    <2>1. \E g : Run(n, g)  BY <1>4 DEF n
    <2> QED BY <2>1 DEF r
  <1> HIDE DEF r
  <1>6. r[0] = x0 /\ \A i \in 1..n : r[i] = Step(r[i - 1], i)
    <2>1. n \in Nat  BY DEF n
    <2>2. \A i \in 0..n : r[i] = IF i = 0 THEN x0 ELSE Step(r[i - 1], i)  BY <1>5
    <2> QED BY <2>1, <2>2
  <1>7. \A i \in 1..Len(s.order) : r[i] = Append(r[i - 1], Message(s, s.order[i], r[i - 1]))
    BY <1>6 DEF Step, n
  <1>8. r[0] = << [type |-> "CH", hello |-> h], ServerHello(s, h) >>
    BY <1>6 DEF x0
  <1>9. Said(s, h) = r[Len(s.order)]
    BY <1>1 DEF n
  <1> QED BY <1>7, <1>8, <1>9, Zenon

(* A stream is the units of one message after the other. *)
LEMMA UnitsInTurn ==
    ASSUME NEW msgs, Len(msgs) \in Nat
    PROVE  \E g : /\ g[0] = << >>
                  /\ \A i \in 1..Len(msgs) : g[i] = g[i - 1] \o UnitsOf(msgs[i])
                  /\ Units(msgs) = g[Len(msgs)]
  <1> DEFINE n == Len(msgs)
             x0 == << >>
             Step(d, i) == d \o UnitsOf(msgs[i])
             Run(k, g) == g = [i \in 0..k |-> IF i = 0 THEN x0 ELSE Step(g[i - 1], i)]
             T == {k \in Nat : \E g : Run(k, g)}
             r == CHOOSE g : Run(n, g)
  <1>1. Units(msgs) = r[n]
    BY DEF Units
  <1> HIDE DEF Step, x0, n
  <1>2. 0 \in T
    <2> DEFINE g == [i \in 0..0 |-> x0]
    <2>1. Run(0, g)  OBVIOUS
    <2> HIDE DEF g, Run
    <2> QED BY <2>1
  <1>3. ASSUME NEW k \in T PROVE k + 1 \in T
    <2>1. k \in Nat  OBVIOUS
    <2>2. PICK g : Run(k, g)  BY <1>3
    <2> DEFINE h == [i \in 0..(k + 1) |-> IF i = k + 1 THEN Step(g[k], k + 1) ELSE g[i]]
               e == [i \in 0..(k + 1) |-> IF i = 0 THEN x0 ELSE Step(h[i - 1], i)]
    <2>3. \A i \in 0..k : g[i] = IF i = 0 THEN x0 ELSE Step(g[i - 1], i)  BY <2>2
    <2>4. \A i \in 0..k : h[i] = g[i]  BY <2>1
    <2>5. h[k + 1] = Step(h[k], k + 1)  BY <2>1, <2>4
    <2>6. \A i \in 0..k : i # 0 => h[i] = Step(h[i - 1], i)
      <3>1. TAKE i \in 0..k
      <3>2. i # 0 => i - 1 \in 0..k  BY <2>1
      <3> HIDE DEF h
      <3> QED BY <2>3, <2>4, <3>2
    <2>7. h[0] = x0  BY <2>1, <2>3, <2>4
    <2>8. \A i \in 0..(k + 1) : h[i] = IF i = 0 THEN x0 ELSE Step(h[i - 1], i)
      <3> HIDE DEF h
      <3>1. TAKE i \in 0..(k + 1)
      <3>2. CASE i = k + 1
        <4>1. i - 1 = k /\ i # 0  BY <2>1, <3>2
        <4> QED BY <2>5, <3>2, <4>1
      <3>3. CASE i \in 0..k
        BY <2>6, <2>7, <3>3
      <3> QED BY <2>1, <3>2, <3>3
    <2>9. h = e
      <3>1. h = [i \in 0..(k + 1) |-> h[i]]  OBVIOUS
      <3> HIDE DEF h
      <3> QED BY <2>8, <3>1
    <2>10. Run(k + 1, h)  BY <2>9
    <2> HIDE DEF h, Run
    <2> QED BY <2>1, <2>10
  <1>4. T = Nat
    <2> HIDE DEF Run
    <2>1. T \in SUBSET Nat  OBVIOUS
    <2> HIDE DEF T
    <2> QED BY <1>2, <1>3, <2>1, Counting
  <1>5. Run(n, r)
    <2> HIDE DEF Run, r
    <2>1. \E g : Run(n, g)  BY <1>4 DEF n
    <2> QED BY <2>1 DEF r
  <1> HIDE DEF r
  <1>6. r[0] = x0 /\ \A i \in 1..n : r[i] = Step(r[i - 1], i)
    <2>1. n \in Nat  BY DEF n
    <2>2. \A i \in 0..n : r[i] = IF i = 0 THEN x0 ELSE Step(r[i - 1], i)  BY <1>5
    <2> QED BY <2>1, <2>2
  <1>7. \A i \in 1..Len(msgs) : r[i] = r[i - 1] \o UnitsOf(msgs[i])
    BY <1>6 DEF Step, n
  <1>8. r[0] = << >>
    BY <1>6 DEF x0
  <1>9. Units(msgs) = r[Len(msgs)]
    BY <1>1 DEF n
  <1> QED BY <1>7, <1>8, <1>9, Zenon


LEMMA SaidFacts ==
    ASSUME NEW s \in Servers, NEW n
    PROVE  LET tr == Said(s, n)
           IN  /\ tr \in Seq(ToSet(tr)) /\ Len(s.order) \in Nat /\ Len(tr) = Len(s.order) + 2
               /\ tr[1] = [type |-> "CH", hello |-> n] /\ tr[2] = ServerHello(s, n)
               /\ \A i \in 1..Len(s.order) : \E seen : tr[i + 2] = Message(s, s.order[i], seen)
  <1> DEFINE L == Len(s.order)
             x0 == << [type |-> "CH", hello |-> n], ServerHello(s, n) >>
  <1>1. L \in Nat
    BY ServersAssumption
  <1>2. PICK g : /\ g[0] = x0
                 /\ \A i \in 1..L : g[i] = Append(g[i - 1], Message(s, s.order[i], g[i - 1]))
                 /\ Said(s, n) = g[L]
    BY <1>1, SaidInTurn
  <1> HIDE DEF L
  <1> DEFINE Says(i) == Message(s, s.order[i], g[i - 1])
             P(k) == /\ \E X : g[k] \in Seq(X)
                     /\ Len(g[k]) = k + 2
                     /\ g[k][1] = x0[1] /\ g[k][2] = x0[2]
                     /\ \A i \in 1..k : g[k][i + 2] = Says(i)
             T == {k \in Nat : k <= L => P(k)}
  <1>3. P(0)
    <2>1. x0 \in Seq({x0[1], x0[2]}) /\ Len(x0) = 2  OBVIOUS
    <2> HIDE DEF x0
    <2> QED BY <1>2, <2>1
  <1> HIDE DEF x0, Says
  <1>4. ASSUME NEW k \in T PROVE k + 1 \in T
    <2>1. CASE k + 1 <= L
      <3>1. k \in Nat /\ k + 1 \in 1..L /\ (k + 1) - 1 = k /\ k <= L  BY <1>1, <2>1
      <3>2. P(k)  BY <3>1
      <3>3. g[k + 1] = Append(g[k], Says(k + 1))  BY <1>2, <3>1 DEF Says
      <3>4. PICK X : g[k] \in Seq(X)  BY <3>2
      <3> DEFINE Y == X \cup {Says(k + 1)}
      <3>5. g[k] \in Seq(Y) /\ Says(k + 1) \in Y
        BY <3>4, SeqMonotonic
      <3> HIDE DEF Y
      <3>6. /\ g[k + 1] \in Seq(Y) /\ Len(g[k + 1]) = Len(g[k]) + 1
            /\ \A i \in 1..Len(g[k]) : g[k + 1][i] = g[k][i]
            /\ g[k + 1][Len(g[k]) + 1] = Says(k + 1)
        BY <3>3, <3>5, AppendProperties
      <3>7. Len(g[k]) = k + 2  BY <3>2
      <3>8. Len(g[k + 1]) = (k + 1) + 2  BY <3>1, <3>6, <3>7
      <3>9. g[k + 1][1] = x0[1] /\ g[k + 1][2] = x0[2]
        <4>1. 1 \in 1..Len(g[k]) /\ 2 \in 1..Len(g[k])  BY <3>1, <3>7
        <4> QED BY <3>2, <3>6, <4>1
      <3>10. \A i \in 1..(k + 1) : g[k + 1][i + 2] = Says(i)
        <4>1. TAKE i \in 1..(k + 1)
        <4>2. CASE i \in 1..k
          <5>1. i + 2 \in 1..Len(g[k])  BY <3>1, <3>7, <4>2
          <5> QED BY <3>2, <3>6, <4>2, <5>1
        <4>3. CASE i = k + 1
          <5>1. i + 2 = Len(g[k]) + 1  BY <3>1, <3>7, <4>3
          <5> QED BY <3>6, <4>3, <5>1
        <4> QED BY <3>1, <4>2, <4>3
      <3>11. P(k + 1)  BY <3>6, <3>8, <3>9, <3>10
      <3> QED BY <3>1, <3>11
    <2> QED BY <2>1
  <1>5. T = Nat
    <2>1. T \in SUBSET Nat /\ 0 \in T  BY <1>3
    <2> HIDE DEF T
    <2> QED BY <1>4, <2>1, Counting
  <1>6. P(L)
    <2> HIDE DEF P
    <2> QED BY <1>1, <1>5
  <1> DEFINE tr == Said(s, n)
  <1>7. tr = g[L]  BY <1>2
  <1> HIDE DEF tr
  <1>8. tr \in Seq(ToSet(tr))
    <2>1. PICK X : tr \in Seq(X)  BY <1>6, <1>7
    <2> QED BY <2>1 DEF ToSet
  <1>9. Len(tr) = L + 2 /\ tr[1] = x0[1] /\ tr[2] = x0[2] /\ \A i \in 1..L : tr[i + 2] = Says(i)
    BY <1>6, <1>7
  <1>10. \A i \in 1..L : \E seen : tr[i + 2] = Message(s, s.order[i], seen)
    BY <1>9 DEF Says
  <1>11. x0[1] = [type |-> "CH", hello |-> n] /\ x0[2] = ServerHello(s, n)
    BY DEF x0
  <1> QED BY <1>1, <1>8, <1>9, <1>10, <1>11 DEF tr, L

(* Where the messages of a stream begin. *)
Starts(msgs, S, off) ==
    /\ off[0] = 0 /\ \A i \in 0..Len(msgs) : off[i] \in Nat
    /\ Len(S) = off[Len(msgs)]
    /\ \A i \in 1..Len(msgs) :
         /\ off[i] = off[i - 1] + Length(msgs[i])
         /\ S[off[i - 1] + 1] = [msg |-> msgs[i], k |-> 1, length |-> Length(msgs[i])]

LEMMA UnitsFacts ==
    ASSUME NEW msgs, Len(msgs) \in Nat
    PROVE  /\ Units(msgs) \in Seq(ToSet(Units(msgs)))
           /\ \E off : Starts(msgs, Units(msgs), off)
  <1> DEFINE L == Len(msgs)
  <1>1. L \in Nat  OBVIOUS
  <1>2. PICK g : /\ g[0] = << >>
                 /\ \A i \in 1..L : g[i] = g[i - 1] \o UnitsOf(msgs[i])
                 /\ Units(msgs) = g[L]
    BY <1>1, UnitsInTurn
  <1> HIDE DEF L
  <1> DEFINE len(i) == Length(msgs[i])
             first(i) == [msg |-> msgs[i], k |-> 1, length |-> len(i)]
             P(k) == /\ \E X : g[k] \in Seq(X)
                     /\ Len(g[k]) \in Nat
                     /\ \A i \in 1..k : /\ Len(g[i]) = Len(g[i - 1]) + len(i)
                                        /\ Len(g[i - 1]) \in Nat /\ Len(g[i]) <= Len(g[k])
                                        /\ g[k][Len(g[i - 1]) + 1] = first(i)
             T == {k \in Nat : k <= L => P(k)}
  <1>3. P(0)
    <2>1. g[0] \in Seq({}) /\ Len(g[0]) = 0  BY <1>2
    <2> QED BY <2>1
  <1>4. \A i : /\ len(i) \in {1, 2} /\ Len(UnitsOf(msgs[i])) = len(i) /\ UnitsOf(msgs[i])[1] = first(i)
               /\ UnitsOf(msgs[i]) \in Seq({[msg |-> msgs[i], k |-> k, length |-> len(i)] : k \in 1..2})
    BY DEF UnitsOf, Length
  <1> HIDE DEF len, first
  <1>5. ASSUME NEW k \in T PROVE k + 1 \in T
    <2>1. CASE k + 1 <= L
      <3>1. k \in Nat /\ k + 1 \in 1..L /\ (k + 1) - 1 = k /\ k <= L  BY <1>1, <2>1
      <3>2. P(k)  BY <3>1
      <3> DEFINE u == UnitsOf(msgs[k + 1])
      <3>3. g[k + 1] = g[k] \o u  BY <1>2, <3>1
      <3>4. PICK X : g[k] \in Seq(X)  BY <3>2
      <3>5. PICK Z : u \in Seq(Z)  BY <1>4
      <3>6. len(k + 1) \in {1, 2} /\ Len(u) = len(k + 1) /\ u[1] = first(k + 1)  BY <1>4
      <3> HIDE DEF u
      <3>7. g[k] \in Seq(X \cup Z) /\ u \in Seq(X \cup Z)
        BY <3>4, <3>5, SeqMonotonic
      <3> DEFINE Y == X \cup Z
      <3> HIDE DEF Y
      <3>8. g[k] \in Seq(Y) /\ u \in Seq(Y)  BY <3>7 DEF Y
      <3>9. /\ g[k + 1] \in Seq(Y) /\ Len(g[k + 1]) = Len(g[k]) + Len(u)
            /\ \A i \in 1..(Len(g[k]) + Len(u)) :
                 g[k + 1][i] = IF i <= Len(g[k]) THEN g[k][i] ELSE u[i - Len(g[k])]
        BY <3>3, <3>8, ConcatProperties
      <3>10. Len(g[k]) \in Nat /\ Len(u) \in {1, 2}  BY <3>2, <3>6
      <3>11. Len(g[k + 1]) \in Nat /\ Len(g[k]) <= Len(g[k + 1])  BY <3>9, <3>10
      <3>12. ASSUME NEW i \in 1..(k + 1)
             PROVE  /\ Len(g[i]) = Len(g[i - 1]) + len(i) /\ Len(g[i - 1]) \in Nat
                    /\ Len(g[i]) <= Len(g[k + 1]) /\ g[k + 1][Len(g[i - 1]) + 1] = first(i)
        <4>1. CASE i \in 1..k
          <5>1. /\ Len(g[i]) = Len(g[i - 1]) + len(i) /\ Len(g[i - 1]) \in Nat
                /\ Len(g[i]) <= Len(g[k]) /\ g[k][Len(g[i - 1]) + 1] = first(i)
            BY <3>2, <4>1
          <5>2. len(i) \in {1, 2}  BY <1>4
          <5>3. Len(g[i - 1]) + 1 \in 1..(Len(g[k]) + Len(u)) /\ Len(g[i - 1]) + 1 <= Len(g[k])
            BY <3>10, <5>1, <5>2, SMTT(30)
          <5>4. g[k + 1][Len(g[i - 1]) + 1] = g[k][Len(g[i - 1]) + 1]
            <6> DEFINE j == Len(g[i - 1]) + 1
            <6>1. j \in 1..(Len(g[k]) + Len(u)) /\ j <= Len(g[k])  BY <5>3
            <6> HIDE DEF j
            <6>2. g[k + 1][j] = g[k][j]  BY <3>9, <6>1
            <6> QED BY <6>2 DEF j
          <5>5. Len(g[i]) <= Len(g[k + 1])
            <6>1. \A a, m, q \in Nat, b \in {1, 2} : a + b <= m /\ m <= q => a + b <= q  OBVIOUS
            <6> HIDE DEF P, T
            <6> QED BY <3>10, <3>11, <5>1, <5>2, <6>1
          <5> QED BY <5>1, <5>4, <5>5
        <4>2. CASE i = k + 1
          <5>1. Len(g[i]) = Len(g[i - 1]) + len(i) /\ Len(g[i - 1]) \in Nat
            BY <3>1, <3>6, <3>9, <3>10, <4>2
          <5>2. \A a \in Nat, b \in {1, 2} : a + 1 \in 1..(a + b) /\ ~(a + 1 <= a) /\ (a + 1) - a = 1
            OBVIOUS
          <5>3. g[k + 1][Len(g[k]) + 1] = u[1]
            <6> DEFINE j == Len(g[k]) + 1
            <6>1. j \in 1..(Len(g[k]) + Len(u)) /\ ~(j <= Len(g[k])) /\ j - Len(g[k]) = 1
              BY <3>10, <5>2
            <6> HIDE DEF j
            <6>2. g[k + 1][j] = u[j - Len(g[k])]  BY <3>9, <6>1
            <6> QED BY <6>1, <6>2 DEF j
          <5> QED BY <3>1, <3>6, <3>11, <4>2, <5>1, <5>3
        <4> QED BY <3>1, <4>1, <4>2
      <3>13. P(k + 1)  BY <3>9, <3>11, <3>12
      <3> HIDE DEF P
      <3> QED BY <3>1, <3>13
    <2> HIDE DEF P
    <2> QED BY <1>1, <2>1
  <1>6. T = Nat
    <2>1. T \in SUBSET Nat /\ 0 \in T  BY <1>3
    <2> HIDE DEF T
    <2> QED BY <1>5, <2>1, Counting
  <1>7. P(L)
    <2> HIDE DEF P
    <2> QED BY <1>1, <1>6
  <1> DEFINE S == Units(msgs)
             off == [i \in 0..L |-> Len(g[i])]
  <1>8. S = g[L]  BY <1>2
  <1> HIDE DEF S
  <1>9. S \in Seq(ToSet(S))
    <2>1. PICK X : S \in Seq(X)  BY <1>7, <1>8
    <2> QED BY <2>1 DEF ToSet
  <1>10. /\ \A i \in 0..L : off[i] = Len(g[i])
         /\ \A i \in 1..L : off[i - 1] = Len(g[i - 1])
    BY <1>1
  <1> HIDE DEF off
  <1>11. \A i \in 1..L : off[i] = off[i - 1] + len(i) /\ S[off[i - 1] + 1] = first(i)
    BY <1>7, <1>8, <1>10
  <1>12. \A i \in 0..L : off[i] \in Nat
    <2>1. TAKE i \in 0..L
    <2>2. CASE i = L  BY <1>7, <1>10, <2>2
    <2>3. CASE i # L
      <3>1. i + 1 \in 1..L /\ (i + 1) - 1 = i  BY <1>1, <2>3
      <3> QED BY <1>7, <1>10, <3>1
    <2> QED BY <2>2, <2>3
  <1>13. off[0] = 0 /\ Len(S) = off[L]
    BY <1>1, <1>2, <1>8, <1>10
  <1>14. Starts(msgs, S, off)
    BY <1>11, <1>12, <1>13 DEF Starts, L, len, first
  <1> QED BY <1>9, <1>14 DEF S

(* The messages of a server's flight and where they begin in its stream. *)
Flight(s, n) == SubSeq(Transcripts[s][n], 3, Len(Transcripts[s][n]))
Offsets(s, n) == CHOOSE off : Starts(Flight(s, n), Streams[s][n]["Handshake"], off)

LEMMA TranscriptFacts ==
    ASSUME NEW s \in Servers, NEW n \in 1..2
    PROVE  LET tr == Transcripts[s][n]
           IN  /\ tr \in Seq(ToSet(tr)) /\ Len(s.order) \in Nat /\ Len(tr) = Len(s.order) + 2
               /\ tr[1] = [type |-> "CH", hello |-> n] /\ tr[2] = ServerHello(s, n)
               /\ \A i \in 1..Len(s.order) :
                    /\ s.order[i] \in {"EE", "CERT", "CV", "FIN"}
                    /\ tr[i + 2].type = s.order[i]
                    /\ s.order[i] = "CERT" => tr[i + 2].chain = s.chain
  <1>1. Transcripts[s][n] = Said(s, n)
    BY DEF Transcripts
  <1>2. \A i \in 1..Len(s.order) : s.order[i] \in {"EE", "CERT", "CV", "FIN"}
    BY ServersAssumption
  <1>3. \A kind \in {"EE", "CERT", "CV", "FIN"} : \A seen :
            /\ Message(s, kind, seen).type = kind
            /\ kind = "CERT" => Message(s, kind, seen).chain = s.chain
    BY DEF Message
  <1> DEFINE tr == Said(s, n)
  <1>4. /\ tr \in Seq(ToSet(tr)) /\ Len(s.order) \in Nat /\ Len(tr) = Len(s.order) + 2
        /\ tr[1] = [type |-> "CH", hello |-> n] /\ tr[2] = ServerHello(s, n)
        /\ \A i \in 1..Len(s.order) : \E seen : tr[i + 2] = Message(s, s.order[i], seen)
    BY SaidFacts
  <1> HIDE DEF tr
  <1>5. \A i \in 1..Len(s.order) :
            /\ s.order[i] \in {"EE", "CERT", "CV", "FIN"}
            /\ tr[i + 2].type = s.order[i]
            /\ s.order[i] = "CERT" => tr[i + 2].chain = s.chain
    BY <1>2, <1>3, <1>4
  <1> QED BY <1>1, <1>4, <1>5 DEF tr

LEMMA FlightFacts ==
    ASSUME NEW s \in Servers, NEW n \in 1..2
    PROVE  LET S == Streams[s][n]["Handshake"]
           IN  /\ Len(S) \in Nat /\ S \in Seq(ToSet(S))
               /\ Len(Flight(s, n)) = Len(s.order)
               /\ \A i \in 1..Len(s.order) : Flight(s, n)[i] = Transcripts[s][n][i + 2]
               /\ Starts(Flight(s, n), S, Offsets(s, n))
  <1> DEFINE tr == Transcripts[s][n]
             L == Len(s.order)
             F == Flight(s, n)
             S == Streams[s][n]["Handshake"]
  <1>1. tr \in Seq(ToSet(tr)) /\ L \in Nat /\ Len(tr) = L + 2
    BY TranscriptFacts
  <1>2. S = Units(F)
    BY DEF Streams, Flight
  <1> DEFINE X == ToSet(tr)
             N == Len(tr)
  <1>3. F = SubSeq(tr, 3, N)
    BY DEF Flight
  <1> HIDE DEF tr, L, F, S, X
  <1>4. Len(F) = L /\ \A i \in 1..L : F[i] = tr[i + 2]
    <2>1. \A i \in 3..N : tr[i] \in X
      BY <1>1 DEF X
    <2>2. /\ Len(SubSeq(tr, 3, N)) = IF 3 <= N THEN N - 3 + 1 ELSE 0
          /\ \A i \in 1..(N - 3 + 1) : SubSeq(tr, 3, N)[i] = tr[3 + i - 1]
      BY <1>1, <2>1, SubSeqProperties
    <2>3. N - 3 + 1 = L /\ N >= 2 /\ N \in Nat /\ \A i \in 1..L : 3 + i - 1 = i + 2
      BY <1>1
    <2>4. Len(F) = L
      BY <1>3, <2>2, <2>3
    <2>5. ASSUME NEW i \in 1..L PROVE F[i] = tr[i + 2]
      <3>1. i \in 1..(N - 3 + 1) /\ 3 + i - 1 = i + 2  BY <2>3
      <3> HIDE DEF N
      <3>2. SubSeq(tr, 3, N)[i] = tr[3 + i - 1]  BY <2>2, <3>1
      <3> QED BY <1>3, <3>1, <3>2
    <2> QED BY <2>4, <2>5
  <1>5. S \in Seq(ToSet(S)) /\ \E off : Starts(F, S, off)
    <2>1. Len(F) \in Nat  BY <1>1, <1>4
    <2>2. Units(F) \in Seq(ToSet(Units(F))) /\ \E off : Starts(F, Units(F), off)
      BY <2>1, UnitsFacts
    <2> QED BY <1>2, <2>2
  <1>6. Starts(F, S, Offsets(s, n))
    BY <1>5 DEF Offsets, F, S
  <1>7. Len(S) \in Nat
    BY <1>5
  <1> QED BY <1>4, <1>5, <1>6, <1>7 DEF tr, L, F, S

LEMMA HelloFacts ==
    ASSUME NEW s \in Servers, NEW n \in 1..2
    PROVE  LET S == Streams[s][n]["Initial"]
           IN  /\ Len(S) = 1 /\ S \in Seq(ToSet(S))
               /\ S[1] = [msg |-> ServerHello(s, n), k |-> 1, length |-> 1]
  <1> DEFINE S == Streams[s][n]["Initial"]
             msgs == << ServerHello(s, n) >>
  <1>1. S = Units(msgs)
    BY DEF Streams
  <1>2. Len(msgs) = 1 /\ msgs[1] = ServerHello(s, n)
    OBVIOUS
  <1>3. Length(ServerHello(s, n)) = 1
    BY DEF Length, ServerHello
  <1> HIDE DEF msgs
  <1>4. PICK off : Starts(msgs, Units(msgs), off)
    BY <1>2, UnitsFacts
  <1>5. Units(msgs) \in Seq(ToSet(Units(msgs)))
    BY <1>2, UnitsFacts
  <1>6. /\ off[0] = 0 /\ off[1] = off[0] + 1 /\ Len(Units(msgs)) = off[1]
        /\ Units(msgs)[off[0] + 1] = [msg |-> ServerHello(s, n), k |-> 1, length |-> 1]
    <2>1. 1 \in 1..1 /\ 1 - 1 = 0  OBVIOUS
    <2> QED BY <1>2, <1>3, <1>4, <2>1 DEF Starts
  <1> QED BY <1>1, <1>5, <1>6

-----------------------------------------------------------------------------
(* The handshake *)

(* The type of message the client expects after k of the server's flight. *)
Expected(k) == IF k = 0 THEN "EE" ELSE IF k = 1 THEN "CERT" ELSE IF k = 2 THEN "CV" ELSE "FIN"

(* The client has fed exactly the ServerHello and the first k messages of the
   server's flight, in the order it expects them. *)
Heard(c, s, k) ==
    /\ k \in 0..Len(s.order)
    /\ c.rx["Handshake"].start = Offsets(s, c.hello)[k]
    /\ c.tls.transcript = SubSeq(Transcripts[s][c.hello], 1, k + 2)
    /\ c.tls.next = Expected(k)
    /\ \A i \in 1..k : s.order[i] = Expected(i - 1)
    /\ k >= 2 => c.tls.chain = s.chain
    /\ k >= 3 => validate_certificate(s.chain)

WriteKeys(c) == "hsWrite" \in c.keys \/ "app" \in c.keys

TlsFields == {"hello", "transcript", "suite", "secrets", "params", "seen", "next", "chain", "done"}

Begun(c, s) ==
    /\ c.tls = client_hello(ClientHandshake(c.hello))
    /\ c.rx["Initial"].start = 0 /\ c.rx["Handshake"].start = 0
    /\ ~WriteKeys(c)

Underway(c, s) ==
    /\ c.tls.seen /\ c.rx["Initial"].start = 1
    /\ \E k : Heard(c, s, k) /\ (WriteKeys(c) => k >= 4)

(* Only a connection that has seen nothing of the server may still be retried. *)
Untouched(c) ==
    /\ c.rx["Initial"] = EmptyRx /\ c.rx["Handshake"] = EmptyRx /\ c.keys = {}
    /\ c.tls = client_hello(ClientHandshake(c.hello))

Shaken(c, s) ==
    /\ Fields \subseteq DOMAIN c
    /\ c.hello = (IF c.retried THEN 2 ELSE 1)
    /\ DOMAIN c.tls = TlsFields /\ c.tls.hello = c.hello
    /\ DOMAIN c.rx = Spaces
    /\ \A sp \in {"Initial", "Handshake"} :
         RxOK(c.rx[sp], Streams[s][c.hello][sp]) /\ Drained(c.rx[sp])
    /\ c.sawScid \/ Untouched(c)
    /\ Begun(c, s) \/ Underway(c, s)

(* Nothing but Initial packets leaves without the keys of a finished handshake. *)
Guarded(c) == (\E w \in c.wire : w.space # "Initial") => WriteKeys(c)

Sound(c, s) == Shaken(c, s) /\ Guarded(c)

(* The same handshake. *)
Alike(d, c) ==
    /\ DOMAIN d = DOMAIN c /\ d.hello = c.hello /\ d.retried = c.retried /\ d.tls = c.tls
    /\ d.rx = c.rx /\ d.keys = c.keys /\ d.sawScid = c.sawScid

LEMMA AlikeShaken ==
    ASSUME NEW c, NEW d, NEW s, Shaken(c, s), Alike(d, c) PROVE Shaken(d, s)
  <1>1. Begun(c, s) => Begun(d, s)
    BY DEF Alike, Begun, WriteKeys
  <1>2. Underway(c, s) => Underway(d, s)
    <2>1. \A k : Heard(c, s, k) => Heard(d, s, k)  BY DEF Alike, Heard
    <2> QED BY <2>1 DEF Alike, Underway, WriteKeys
  <1>3. Untouched(c) => Untouched(d)
    BY DEF Alike, Untouched
  <1> QED BY <1>1, <1>2, <1>3 DEF Alike, Shaken

LEMMA AlikeSound ==
    ASSUME NEW c, NEW d, NEW s, Sound(c, s), Alike(d, c), d.wire = c.wire PROVE Sound(d, s)
  <1>1. Shaken(d, s)
    BY AlikeShaken DEF Sound
  <1>2. Guarded(d)
    BY DEF Sound, Guarded, WriteKeys, Alike
  <1> QED BY <1>1, <1>2 DEF Sound

LEMMA FailedSound ==
    ASSUME NEW c, NEW s, Sound(c, s)
    PROVE  /\ Sound(Failed(c), s) /\ Failed(c).sawScid = c.sawScid
           /\ Sound(Closed(c), s) /\ Closed(c).sawScid = c.sawScid
  <1>1. /\ Alike(Failed(c), c) /\ Failed(c).wire = c.wire
        /\ Alike(Closed(c), c) /\ Closed(c).wire = c.wire
    BY DEF Failed, Closed, Alike, Sound, Shaken, Fields
  <1>2. Failed(c).sawScid = c.sawScid /\ Closed(c).sawScid = c.sawScid
    BY <1>1 DEF Alike
  <1> QED BY <1>1, <1>2, AlikeSound

LEMMA SentSound ==
    ASSUME NEW c, NEW s, Sound(c, s), NEW ps
    PROVE  Sound(send_packets(c, ps), s) /\ send_packets(c, ps).sawScid = c.sawScid
  <1> DEFINE d == send_packets(c, ps)
  <1>1. CASE ~c.up \/ \E p \in ps : ~HasKey(c, p.space)
    BY <1>1, FailedSound DEF send_packets
  <1>2. CASE ~(~c.up \/ \E p \in ps : ~HasKey(c, p.space))
    <2>1. Alike(d, c)
      BY <1>2 DEF send_packets, Alike, Sound, Shaken, Fields
    <2>2. d.wire = c.wire \cup {[space |-> p.space, key |-> WriteKey(c, p.space), hello |-> c.hello,
                                pn |-> p.pn, frame |-> p.frame, padded |-> p.padded] : p \in ps}
      BY <1>2 DEF send_packets, Sound, Shaken, Fields
    <2> HIDE DEF d
    <2>3. Shaken(d, s)
      BY <2>1, AlikeShaken DEF Sound
    <2>4. Guarded(d)
      <3> SUFFICES ASSUME NEW w \in d.wire, w.space # "Initial" PROVE WriteKeys(c)
        BY <2>1 DEF Guarded, WriteKeys, Alike
      <3>1. CASE w \in c.wire
        BY <3>1 DEF Sound, Guarded
      <3>2. CASE w \notin c.wire
        <4>1. PICK p \in ps : w.space = p.space  BY <2>2, <3>2
        <4> QED BY <1>2, <4>1 DEF HasKey, WriteKeys
      <3> QED BY <3>1, <3>2
    <2>5. d.sawScid = c.sawScid
      BY <2>1 DEF Alike
    <2> QED BY <2>3, <2>4, <2>5 DEF Sound, d
  <1> QED BY <1>1, <1>2

LEMMA SentPacketSound ==
    ASSUME NEW c, NEW s, Sound(c, s), NEW space, NEW frame, NEW pad
    PROVE  /\ Sound(send_packet(c, space, frame, pad), s)
           /\ send_packet(c, space, frame, pad).sawScid = c.sawScid
  BY SentSound DEF send_packet

(* What an accepted handshake message does to the handshake. *)
LEMMA FeedFacts ==
    ASSUME NEW t, NEW m, DOMAIN t = TlsFields, feed(t, m).ok
    PROVE  LET f == feed(t, m)
           IN  /\ DOMAIN f.t = TlsFields /\ f.t.hello = t.hello /\ f.t.seen
               /\ f.t.transcript = Append(t.transcript, m)
               /\ \/ /\ m.type = "SH" /\ ~t.seen /\ ~f.completed
                     /\ f.t.next = t.next
                  \/ /\ m.type = "EE" /\ t.seen /\ m.type = t.next /\ ~f.completed
                     /\ f.t.next = "CERT" /\ f.t.chain = t.chain
                  \/ /\ m.type = "CERT" /\ t.seen /\ m.type = t.next /\ ~f.completed
                     /\ f.t.next = "CV" /\ f.t.chain = m.chain
                  \/ /\ m.type = "CV" /\ t.seen /\ m.type = t.next /\ ~f.completed
                     /\ f.t.next = "FIN" /\ f.t.chain = t.chain /\ validate_certificate(t.chain)
                  \/ /\ m.type = "FIN" /\ t.seen /\ m.type = t.next
                     /\ f.t.next = t.next /\ f.t.chain = t.chain
  <1> DEFINE heard == [t EXCEPT !.transcript = Append(@, m)]
             inOrder == t.seen /\ m.type = t.next
             f == feed(t, m)
  <1>1. CASE m.type = "SH" /\ ~t.seen /\ parse_server_hello(m)
    <2> DEFINE u == derive_handshake_secrets([heard EXCEPT !.suite = m.suite, !.seen = TRUE])
    <2>1. f = Accepted(u, FALSE)
      BY <1>1 DEF feed
    <2>2. f.t = u /\ f.completed = FALSE
      BY <2>1 DEF Accepted
    <2>3. /\ DOMAIN u = TlsFields /\ u.hello = t.hello /\ u.transcript = Append(t.transcript, m)
          /\ u.next = t.next /\ u.seen = TRUE
      BY DEF TlsFields, derive_handshake_secrets
    <2> HIDE DEF u, f
    <2> QED BY <1>1, <2>2, <2>3 DEF f
  <1>2. CASE m.type = "EE" /\ inOrder /\ m.params.present
    <2> DEFINE u == [heard EXCEPT !.params = m.params, !.next = "CERT"]
    <2>1. f = Accepted(u, FALSE)
      BY <1>2 DEF feed
    <2>2. f.t = u /\ f.completed = FALSE
      BY <2>1 DEF Accepted
    <2>3. /\ DOMAIN u = TlsFields /\ u.hello = t.hello /\ u.transcript = Append(t.transcript, m)
          /\ u.next = "CERT" /\ u.chain = t.chain /\ u.seen = t.seen
      BY DEF TlsFields
    <2> HIDE DEF u, f
    <2> QED BY <1>2, <2>2, <2>3 DEF f
  <1>3. CASE m.type = "CERT" /\ inOrder /\ parse_certificate_list(m)
    <2> DEFINE u == [heard EXCEPT !.chain = m.chain, !.next = "CV"]
    <2>1. f = Accepted(u, FALSE)
      BY <1>3 DEF feed
    <2>2. f.t = u /\ f.completed = FALSE
      BY <2>1 DEF Accepted
    <2>3. /\ DOMAIN u = TlsFields /\ u.hello = t.hello /\ u.transcript = Append(t.transcript, m)
          /\ u.next = "CV" /\ u.chain = m.chain /\ u.seen = t.seen
      BY DEF TlsFields
    <2> HIDE DEF u, f
    <2> QED BY <1>3, <2>2, <2>3 DEF f
  <1>4. CASE m.type = "CV" /\ inOrder /\ verify_certificate_verify(t, m)
    <2> DEFINE u == [heard EXCEPT !.next = "FIN"]
    <2>1. f = Accepted(u, FALSE)
      BY <1>4 DEF feed
    <2>2. f.t = u /\ f.completed = FALSE
      BY <2>1 DEF Accepted
    <2>3. /\ DOMAIN u = TlsFields /\ u.hello = t.hello /\ u.transcript = Append(t.transcript, m)
          /\ u.next = "FIN" /\ u.chain = t.chain /\ u.seen = t.seen
      BY DEF TlsFields
    <2> HIDE DEF u, f
    <2> QED BY <1>4, <2>2, <2>3 DEF f, verify_certificate_verify
  <1>5. CASE m.type = "FIN" /\ inOrder /\ verify_server_finished(t, m)
    <2> DEFINE u == [derive_application_secrets(heard) EXCEPT !.done = TRUE]
    <2>1. f = Accepted(u, TRUE)
      BY <1>5 DEF feed
    <2>2. f.t = u /\ f.completed = TRUE
      BY <2>1 DEF Accepted
    <2>3. /\ DOMAIN u = TlsFields /\ u.hello = t.hello /\ u.transcript = Append(t.transcript, m)
          /\ u.next = t.next /\ u.chain = t.chain /\ u.seen = t.seen
      BY DEF TlsFields, derive_application_secrets
    <2> HIDE DEF u, f
    <2> QED BY <1>5, <2>2, <2>3 DEF f
  <1>6. CASE /\ ~(m.type = "SH" /\ ~t.seen /\ parse_server_hello(m))
             /\ ~(m.type = "EE" /\ inOrder /\ m.params.present)
             /\ ~(m.type = "CERT" /\ inOrder /\ parse_certificate_list(m))
             /\ ~(m.type = "CV" /\ inOrder /\ verify_certificate_verify(t, m))
             /\ ~(m.type = "FIN" /\ inOrder /\ verify_server_finished(t, m))
    <2>1. f = Refused(t)
      BY <1>6 DEF feed
    <2> QED BY <2>1 DEF Refused
  <1> QED BY <1>1, <1>2, <1>3, <1>4, <1>5, <1>6

(* A connection that has heard of the server, or has failed. *)
Open(c, s) == c.err \/ (Sound(c, s) /\ c.sawScid)

LEMMA AlikeOpen ==
    ASSUME NEW c, NEW d, NEW s, Open(c, s), ~c.err, Alike(d, c), d.wire = c.wire PROVE Open(d, s)
  <1>1. Sound(c, s) /\ c.sawScid  BY DEF Open
  <1>2. Sound(d, s) /\ d.sawScid  BY <1>1, AlikeSound DEF Alike
  <1> QED BY <1>2 DEF Open

LEMMA SentOpen ==
    ASSUME NEW c, NEW s, Open(c, s), ~c.err, NEW space, NEW frame, NEW pad
    PROVE  Open(send_packet(c, space, frame, pad), s)
  BY SentPacketSound DEF Open

(* What on_crypto does once a message is fed. *)
LEMMA FeedOpen ==
    ASSUME NEW c, NEW s, NEW msg, Fields \subseteq DOMAIN c, ~c.err,
           LET f == feed(c.tls, msg)
               fed == [c EXCEPT !.tls = f.t]
           IN  f.ok => /\ ~f.completed => /\ Open(fed, s)
                                          /\ Open([fed EXCEPT !.keys = @ \cup {"hsRead"}], s)
                       /\ f.completed => Open([fed EXCEPT !.keys = @ \cup {"hsWrite", "app"}], s)
    PROVE  Open(FeedMessage(c, msg), s)
  <1> DEFINE f == feed(c.tls, msg)
             fed == [c EXCEPT !.tls = f.t]
             read == [fed EXCEPT !.keys = @ \cup {"hsRead"}]
             keys == [fed EXCEPT !.keys = @ \cup {"hsWrite", "app"}]
             keyed == validate_server_transport_params(keys)
             fin == send_packet(keyed, "Handshake", CryptoFrame("FIN", c.hello), FALSE)
             done == [fin EXCEPT !.confirmed = TRUE, !.pto = 0]
  <1>1. f.ok => (~f.completed => Open(fed, s) /\ Open(read, s)) /\ (f.completed => Open(keys, s))
    OBVIOUS
  <1>2. FeedMessage(c, msg) =
            IF ~f.ok THEN Failed(c)
            ELSE IF f.completed
            THEN IF keyed.err THEN keyed ELSE IF fin.err THEN fin ELSE done
            ELSE IF "handshake" \in f.t.secrets THEN read ELSE fed
    BY DEF FeedMessage, Then
  <1> HIDE DEF f
  <1>3. CASE ~f.ok
    <2>1. Failed(c).err  BY DEF Failed, Fields
    <2> QED BY <1>2, <1>3, <2>1 DEF Open
  <1>4. CASE f.ok /\ ~f.completed
    BY <1>1, <1>2, <1>4
  <1>5. CASE f.ok /\ f.completed
    <2>1. Open(keys, s)  BY <1>1, <1>5
    <2>2. ~keys.err /\ DOMAIN keys = DOMAIN c
      BY DEF Fields
    <2> HIDE DEF keys, fed, read
    <2>3. keyed = Failed(keys) \/ (Alike(keyed, keys) /\ keyed.wire = keys.wire)
      BY <2>2 DEF validate_server_transport_params, Alike, Fields
    <2>4. Open(keyed, s)
      <3>1. Failed(keys).err  BY <2>2 DEF Failed, Fields
      <3> QED BY <2>1, <2>2, <2>3, <3>1, AlikeOpen DEF Open
    <2> HIDE DEF keyed
    <2>5. CASE keyed.err
      BY <1>2, <1>5, <2>4, <2>5
    <2>6. CASE ~keyed.err
      <3>1. Open(fin, s)  BY <2>4, <2>6, SentOpen
      <3> HIDE DEF fin
      <3>2. CASE fin.err
        BY <1>2, <1>5, <2>6, <3>1, <3>2
      <3>3. CASE ~fin.err
        <4>1. Alike(done, fin) /\ done.wire = fin.wire
          BY <3>1, <3>3 DEF Open, Sound, Shaken, Fields, Alike
        <4>2. Open(done, s)  BY <3>1, <3>3, <4>1, AlikeOpen
        <4> QED BY <1>2, <1>5, <2>6, <3>3, <4>2
      <3> QED BY <3>2, <3>3
    <2> QED BY <2>5, <2>6
  <1> QED BY <1>3, <1>4, <1>5

LEMMA TopOf ==
    ASSUME NEW S, Len(S) \in Nat, NEW rx, RxOK(rx, S), HasMessage(rx)
    PROVE  rx.start \in Nat /\ rx.buf[1] = S[rx.start + 1] /\ rx.start + 1 <= Len(S)
  <1>1. rx.buf \in Seq(ToSet(S)) /\ rx.buf # << >> /\ rx.start \in Nat
    BY DEF RxOK, PieceOf, HasMessage
  <1>2. 1 \in 1..Len(rx.buf)
    BY <1>1
  <1> QED BY <1>1, <1>2 DEF RxOK, PieceOf

LEMMA PrefixGrows ==
    ASSUME NEW X, NEW tr \in Seq(X), NEW k \in Nat, k + 1 <= Len(tr)
    PROVE  Append(SubSeq(tr, 1, k), tr[k + 1]) = SubSeq(tr, 1, k + 1)
  <1> DEFINE a == SubSeq(tr, 1, k)
             b == SubSeq(tr, 1, k + 1)
             x == tr[k + 1]
             e == Append(a, x)
  <1>1. \A i \in 1..(k + 1) : tr[i] \in X
    OBVIOUS
  <1>2. a \in Seq(X) /\ Len(a) = k /\ \A i \in 1..k : a[i] = tr[i]
    <2>1. \A i \in 1..k : tr[i] \in X  BY <1>1
    <2>2. /\ a \in Seq(X) /\ Len(a) = (IF 1 <= k THEN k - 1 + 1 ELSE 0)
          /\ \A i \in 1..(k - 1 + 1) : a[i] = tr[1 + i - 1]
      BY <2>1, SubSeqProperties
    <2>3. k - 1 + 1 = k /\ (~(1 <= k) => k = 0) /\ \A i \in 1..k : 1 + i - 1 = i
      OBVIOUS
    <2> HIDE DEF a
    <2> QED BY <2>2, <2>3
  <1>3. b \in Seq(X) /\ Len(b) = k + 1 /\ \A i \in 1..(k + 1) : b[i] = tr[i]
    <2>2. /\ b \in Seq(X) /\ Len(b) = (IF 1 <= k + 1 THEN (k + 1) - 1 + 1 ELSE 0)
          /\ \A i \in 1..((k + 1) - 1 + 1) : b[i] = tr[1 + i - 1]
      BY <1>1, SubSeqProperties
    <2>3. (k + 1) - 1 + 1 = k + 1 /\ 1 <= k + 1 /\ \A i \in 1..(k + 1) : 1 + i - 1 = i
      OBVIOUS
    <2> HIDE DEF b
    <2> QED BY <2>2, <2>3
  <1>4. x \in X
    BY <1>1
  <1> HIDE DEF a, b, x
  <1>5. e \in Seq(X) /\ Len(e) = k + 1 /\ (\A i \in 1..k : e[i] = a[i]) /\ e[k + 1] = x
    BY <1>2, <1>4, AppendProperties
  <1> HIDE DEF e
  <1>6. ASSUME NEW i \in 1..(k + 1) PROVE e[i] = b[i]
    <2>1. CASE i \in 1..k  BY <1>2, <1>3, <1>5, <2>1
    <2>2. CASE i = k + 1  BY <1>3, <1>5, <2>2 DEF x
    <2> QED BY <2>1, <2>2
  <1>7. e = b
    BY <1>3, <1>5, <1>6, SeqEqual
  <1> QED BY <1>7 DEF e, a, b, x

(* A message of the flight that is accepted is the expected one. *)
LEMMA HeardNext ==
    ASSUME NEW s \in Servers, NEW c, NEW d, NEW k, Heard(c, s, k), k < Len(s.order),
           c.hello \in 1..2, DOMAIN c.tls = TlsFields,
           NEW m, m = Transcripts[s][c.hello][k + 3],
           feed(c.tls, m).ok, d.tls = feed(c.tls, m).t, d.hello = c.hello,
           d.rx["Handshake"].start = Offsets(s, c.hello)[k + 1]
    PROVE  /\ Heard(d, s, k + 1) /\ d.tls.seen /\ DOMAIN d.tls = TlsFields
           /\ d.tls.hello = c.tls.hello /\ c.tls.seen
           /\ feed(c.tls, m).completed => k >= 3
  <1> DEFINE h == c.hello
             tr == Transcripts[s][h]
             L == Len(s.order)
             f == feed(c.tls, m)
             t == c.tls
  <1>1. /\ tr \in Seq(ToSet(tr)) /\ L \in Nat /\ Len(tr) = L + 2
        /\ \A i \in 1..L : /\ s.order[i] \in {"EE", "CERT", "CV", "FIN"}
                           /\ tr[i + 2].type = s.order[i]
                           /\ s.order[i] = "CERT" => tr[i + 2].chain = s.chain
    <2>1. h \in 1..2  OBVIOUS
    <2> HIDE DEF h
    <2>2. /\ tr \in Seq(ToSet(tr)) /\ L \in Nat /\ Len(tr) = L + 2
      BY <2>1, TranscriptFacts
    <2>3. \A i \in 1..L : s.order[i] \in {"EE", "CERT", "CV", "FIN"}
      BY <2>1, TranscriptFacts
    <2>4. \A i \in 1..L : tr[i + 2].type = s.order[i]
      BY <2>1, TranscriptFacts, SMTT(30)
    <2>5. \A i \in 1..L : s.order[i] = "CERT" => tr[i + 2].chain = s.chain
      BY <2>1, TranscriptFacts, SMTT(30)
    <2> QED BY <2>2, <2>3, <2>4, <2>5
  <1>2. /\ DOMAIN f.t = TlsFields /\ f.t.hello = t.hello /\ f.t.seen
        /\ f.t.transcript = Append(t.transcript, m)
        /\ \/ /\ m.type = "SH" /\ ~t.seen /\ ~f.completed
              /\ f.t.next = t.next
           \/ /\ m.type = "EE" /\ t.seen /\ m.type = t.next /\ ~f.completed
              /\ f.t.next = "CERT" /\ f.t.chain = t.chain
           \/ /\ m.type = "CERT" /\ t.seen /\ m.type = t.next /\ ~f.completed
              /\ f.t.next = "CV" /\ f.t.chain = m.chain
           \/ /\ m.type = "CV" /\ t.seen /\ m.type = t.next /\ ~f.completed
              /\ f.t.next = "FIN" /\ f.t.chain = t.chain /\ validate_certificate(t.chain)
           \/ /\ m.type = "FIN" /\ t.seen /\ m.type = t.next
              /\ f.t.next = t.next /\ f.t.chain = t.chain
    BY FeedFacts, SMTT(30)
  <1>3. /\ k \in 0..L /\ t.transcript = SubSeq(tr, 1, k + 2) /\ t.next = Expected(k)
        /\ \A i \in 1..k : s.order[i] = Expected(i - 1)
        /\ k >= 2 => t.chain = s.chain
        /\ k >= 3 => validate_certificate(s.chain)
    BY DEF Heard
  <1>4. m = tr[k + 3] /\ d.tls = f.t /\ k < L
    OBVIOUS
  <1>5. d.hello = h /\ d.rx["Handshake"].start = Offsets(s, h)[k + 1]
    OBVIOUS
  <1> HIDE DEF h, tr, L, f, t
  <1>6. k \in Nat /\ k + 1 \in 1..L /\ (k + 1) + 2 = k + 3 /\ (k + 2) + 1 = k + 3 /\ k + 3 <= Len(tr)
        /\ k + 1 \in 0..L /\ (k + 1) - 1 = k
    BY <1>1, <1>3, <1>4
  <1>7. /\ m.type \in {"EE", "CERT", "CV", "FIN"} /\ m.type = s.order[k + 1]
        /\ m.type = "CERT" => m.chain = s.chain
    BY <1>1, <1>4, <1>6, SMTT(30)
  <1>8. m.type = Expected(k) /\ t.seen
    BY <1>2, <1>3, <1>7
  <1>9. d.tls.transcript = SubSeq(tr, 1, (k + 1) + 2)
    <2>1. Append(SubSeq(tr, 1, k + 2), tr[(k + 2) + 1]) = SubSeq(tr, 1, (k + 2) + 1)
      <3>1. k + 2 \in Nat /\ (k + 2) + 1 <= Len(tr)  BY <1>6
      <3> QED BY <1>1, <3>1, PrefixGrows
    <2> QED BY <1>2, <1>3, <1>4, <1>6, <2>1
  <1>10. /\ k = 0 => Expected(k) = "EE" /\ Expected(k + 1) = "CERT"
         /\ k = 1 => Expected(k) = "CERT" /\ Expected(k + 1) = "CV"
         /\ k = 2 => Expected(k) = "CV" /\ Expected(k + 1) = "FIN"
         /\ k >= 3 => Expected(k) = "FIN" /\ Expected(k + 1) = "FIN"
    BY <1>6 DEF Expected
  <1>11. k = 0 \/ k = 1 \/ k = 2 \/ k >= 3
    BY <1>6
  <1>12. d.tls.next = Expected(k + 1)
    BY <1>2, <1>3, <1>4, <1>8, <1>10, <1>11
  <1>13. \A i \in 1..(k + 1) : s.order[i] = Expected(i - 1)
    <2>1. TAKE i \in 1..(k + 1)
    <2>2. CASE i \in 1..k  BY <1>3, <2>2
    <2>3. CASE i = k + 1  BY <1>6, <1>7, <1>8, <2>3
    <2> QED BY <1>6, <2>2, <2>3
  <1>14. k + 1 >= 2 => d.tls.chain = s.chain
    <2>1. CASE k = 0  BY <2>1
    <2>2. CASE k = 1  BY <1>2, <1>4, <1>7, <1>8, <1>10, <2>2
    <2>3. CASE k = 2  BY <1>2, <1>3, <1>4, <1>8, <1>10, <2>3
    <2>4. CASE k >= 3
      <3>1. t.chain = s.chain  BY <1>3, <1>6, <2>4
      <3>2. m.type = "FIN"  BY <1>8, <1>10, <2>4
      <3> QED BY <1>2, <1>4, <3>1, <3>2
    <2> QED BY <1>11, <2>1, <2>2, <2>3, <2>4
  <1>15. k + 1 >= 3 => validate_certificate(s.chain)
    <2>1. CASE k = 2
      <3>1. t.chain = s.chain  BY <1>3, <2>1
      <3>2. m.type = "CV"  BY <1>8, <1>10, <2>1
      <3> QED BY <1>2, <3>1, <3>2
    <2>2. CASE k >= 3  BY <1>3, <2>2
    <2> QED BY <1>6, <1>11, <2>1, <2>2
  <1>16. f.completed => k >= 3
    BY <1>2, <1>7, <1>8, <1>10, <1>11
  <1>17. Heard(d, s, k + 1)
    BY <1>5, <1>6, <1>9, <1>12, <1>13, <1>14, <1>15 DEF Heard, h, tr, L
  <1> QED BY <1>2, <1>4, <1>8, <1>16, <1>17 DEF f, t

(* The handshake goes on. *)
LEMMA Advanced ==
    ASSUME NEW s, NEW c, NEW d, Sound(c, s), c.sawScid,
           Fields \subseteq DOMAIN d, d.hello = c.hello, d.retried = c.retried,
           d.sawScid = c.sawScid, d.wire = c.wire, c.keys \subseteq d.keys,
           DOMAIN d.tls = TlsFields, d.tls.hello = c.hello, DOMAIN d.rx = Spaces,
           \A sp \in {"Initial", "Handshake"} :
             RxOK(d.rx[sp], Streams[s][c.hello][sp]) /\ Drained(d.rx[sp]),
           d.tls.seen, d.rx["Initial"].start = 1,
           NEW k, Heard(d, s, k), WriteKeys(d) => k >= 4
    PROVE  Open(d, s)
  <1>1. Underway(d, s)
    BY DEF Underway
  <1>2. Guarded(d)
    BY DEF Sound, Guarded, WriteKeys
  <1>3. d.hello = (IF d.retried THEN 2 ELSE 1)
    BY DEF Sound, Shaken
  <1>4. Shaken(d, s)
    BY <1>1, <1>3 DEF Shaken
  <1> QED BY <1>2, <1>4 DEF Open, Sound

(* The ServerHello is fed. *)
LEMMA HelloFed ==
    ASSUME NEW s \in Servers, NEW c, Sound(c, s), c.sawScid, ~c.err, HasMessage(c.rx["Initial"])
    PROVE  Open(FeedNext(c, "Initial"), s)
  <1> DEFINE h == c.hello
             rx == c.rx["Initial"]
             S == Streams[s][h]["Initial"]
             b == [c EXCEPT !.rx["Initial"] = pop_message(@)]
             m == TopMessage(rx)
             f == feed(b.tls, m)
             fed == [b EXCEPT !.tls = f.t]
             read == [fed EXCEPT !.keys = @ \cup {"hsRead"}]
             tr == Transcripts[s][h]
  <1>1. /\ Fields \subseteq DOMAIN c /\ h = (IF c.retried THEN 2 ELSE 1) /\ h \in 1..2
        /\ DOMAIN c.tls = TlsFields /\ c.tls.hello = h /\ DOMAIN c.rx = Spaces
        /\ RxOK(rx, S) /\ Drained(rx)
        /\ RxOK(c.rx["Handshake"], Streams[s][h]["Handshake"]) /\ Drained(c.rx["Handshake"])
        /\ Begun(c, s) \/ Underway(c, s)
    BY DEF Sound, Shaken
  <1>2. Len(S) = 1 /\ S[1] = [msg |-> ServerHello(s, h), k |-> 1, length |-> 1]
    <2> HIDE DEF h
    <2> QED BY <1>1, HelloFacts
  <1>3. rx.start \in Nat /\ rx.buf[1] = S[rx.start + 1] /\ rx.start + 1 <= Len(S)
    <2> HIDE DEF rx, S
    <2>1. HasMessage(rx)  BY DEF rx
    <2> QED BY <1>1, <1>2, <2>1, TopOf
  <1>4. rx.start = 0
    BY <1>2, <1>3
  <1>5. Begun(c, s)
    BY <1>1, <1>4 DEF Underway
  <1>6. rx.buf[1] = S[1] /\ rx.buf[1].length = 1 /\ m = ServerHello(s, h)
    BY <1>2, <1>3, <1>4 DEF TopMessage
  <1>7. RxOK(pop_message(rx), S) /\ Drained(pop_message(rx)) /\ pop_message(rx).start = 1
    <2> HIDE DEF rx, S
    <2>1. HasMessage(rx) /\ Len(S) \in Nat /\ rx.buf[1].length \in Nat  BY <1>2, <1>6 DEF rx
    <2> QED BY <1>1, <1>4, <1>6, <2>1, PoppedOK
  <1>8. /\ DOMAIN b = DOMAIN c /\ \A x \in DOMAIN c \ {"rx"} : b[x] = c[x]
        /\ b.rx = [c.rx EXCEPT !["Initial"] = pop_message(rx)]
    BY <1>1 DEF Fields
  <1>9. b.tls = c.tls /\ c.tls = client_hello(ClientHandshake(h))
    BY <1>1, <1>5, <1>8 DEF Begun, Fields
  <1>10. FeedNext(c, "Initial") = FeedMessage(b, m)
    BY DEF FeedNext
  <1>11. /\ c.tls.transcript = << [type |-> "CH", hello |-> h] >> /\ c.tls.next = "EE"
    BY <1>9 DEF client_hello, ClientHandshake
  <1>12. /\ DOMAIN fed = DOMAIN c /\ fed.tls = f.t /\ fed.rx = b.rx
         /\ DOMAIN read = DOMAIN c /\ read.tls = f.t /\ read.rx = b.rx
         /\ fed.keys = c.keys /\ read.keys = c.keys \cup {"hsRead"}
         /\ \A x \in {"hello", "retried", "sawScid", "wire"} : fed[x] = c[x] /\ read[x] = c[x]
    BY <1>1, <1>8 DEF Fields
  <1>13. /\ DOMAIN b.rx = Spaces /\ b.rx["Initial"] = pop_message(rx)
         /\ b.rx["Handshake"] = c.rx["Handshake"]
    BY <1>1, <1>8 DEF Spaces
  <1>14. ~b.err /\ Fields \subseteq DOMAIN b
    BY <1>1, <1>8 DEF Fields
  <1> HIDE DEF b, rx, S, m, f, fed, read
  <1>15. ASSUME f.ok PROVE ~f.completed /\ Open(fed, s) /\ Open(read, s)
    <2>1. m.type = "SH"  BY <1>6 DEF ServerHello
    <2>2. /\ DOMAIN f.t = TlsFields /\ f.t.hello = h /\ f.t.seen /\ ~f.completed
          /\ f.t.transcript = Append(c.tls.transcript, m) /\ f.t.next = "EE"
      BY <1>1, <1>9, <1>11, <1>15, <2>1, FeedFacts DEF f
    <2>3. f.t.transcript = SubSeq(tr, 1, 0 + 2)
      <3>1. /\ tr \in Seq(ToSet(tr)) /\ Len(s.order) \in Nat /\ Len(tr) = Len(s.order) + 2
            /\ tr[1] = [type |-> "CH", hello |-> h] /\ tr[2] = ServerHello(s, h)
        <4> HIDE DEF h
        <4> QED BY <1>1, TranscriptFacts
      <3> HIDE DEF tr
      <3>2. Append(SubSeq(tr, 1, 0), tr[0 + 1]) = SubSeq(tr, 1, 0 + 1)
        <4>1. 0 \in Nat /\ 0 + 1 <= Len(tr)  BY <3>1
        <4> QED BY <3>1, <4>1, PrefixGrows
      <3>3. Append(SubSeq(tr, 1, 1), tr[1 + 1]) = SubSeq(tr, 1, 1 + 1)
        <4>1. 1 \in Nat /\ 1 + 1 <= Len(tr)  BY <3>1
        <4> QED BY <3>1, <4>1, PrefixGrows
      <3>4. SubSeq(tr, 1, 0) = << >>  BY <3>1
      <3>5. 0 + 1 = 1 /\ 1 + 1 = 2 /\ 0 + 2 = 2  OBVIOUS
      <3>6. SubSeq(tr, 1, 1) = Append(<< >>, [type |-> "CH", hello |-> h])
        BY <3>1, <3>2, <3>4, <3>5
      <3>7. SubSeq(tr, 1, 1) = c.tls.transcript  BY <1>11, <3>6
      <3> QED BY <1>6, <2>2, <3>1, <3>3, <3>5, <3>7
    <2>4. Offsets(s, h)[0] = 0 /\ Len(s.order) \in Nat
      <3> HIDE DEF h
      <3>1. Starts(Flight(s, h), Streams[s][h]["Handshake"], Offsets(s, h))
        BY <1>1, FlightFacts
      <3> QED BY <1>1, <3>1, TranscriptFacts DEF Starts
    <2>5. c.rx["Handshake"].start = 0 /\ ~WriteKeys(c)
      BY <1>5 DEF Begun
    <2>6. Heard(fed, s, 0) /\ Heard(read, s, 0)
      BY <1>12, <1>13, <2>2, <2>3, <2>4, <2>5 DEF Heard, Expected, tr, h
    <2>7. ~WriteKeys(fed) /\ ~WriteKeys(read)
      BY <1>12, <2>5 DEF WriteKeys
    <2>8. \A sp \in {"Initial", "Handshake"} : RxOK(b.rx[sp], Streams[s][h][sp]) /\ Drained(b.rx[sp])
      BY <1>1, <1>7, <1>13 DEF S
    <2>9. Open(fed, s)
      <3>1. Fields \subseteq DOMAIN fed /\ c.keys \subseteq fed.keys  BY <1>1, <1>12
      <3>2. fed.hello = c.hello /\ fed.retried = c.retried /\ fed.sawScid = c.sawScid /\ fed.wire = c.wire
        BY <1>12
      <3>3. /\ DOMAIN fed.tls = TlsFields /\ fed.tls.hello = c.hello /\ fed.tls.seen
            /\ DOMAIN fed.rx = Spaces /\ fed.rx["Initial"].start = 1
            /\ \A sp \in {"Initial", "Handshake"} :
                 RxOK(fed.rx[sp], Streams[s][c.hello][sp]) /\ Drained(fed.rx[sp])
        BY <1>7, <1>12, <1>13, <2>2, <2>8 DEF h
      <3> QED BY <2>6, <2>7, <3>1, <3>2, <3>3, Advanced
    <2>10. Open(read, s)
      <3>1. Fields \subseteq DOMAIN read /\ c.keys \subseteq read.keys  BY <1>1, <1>12
      <3>2. read.hello = c.hello /\ read.retried = c.retried /\ read.sawScid = c.sawScid /\ read.wire = c.wire
        BY <1>12
      <3>3. /\ DOMAIN read.tls = TlsFields /\ read.tls.hello = c.hello /\ read.tls.seen
            /\ DOMAIN read.rx = Spaces /\ read.rx["Initial"].start = 1
            /\ \A sp \in {"Initial", "Handshake"} :
                 RxOK(read.rx[sp], Streams[s][c.hello][sp]) /\ Drained(read.rx[sp])
        BY <1>7, <1>12, <1>13, <2>2, <2>8 DEF h
      <3> QED BY <2>6, <2>7, <3>1, <3>2, <3>3, Advanced
    <2> QED BY <2>2, <2>9, <2>10
  <1>16. Open(FeedMessage(b, m), s)
    BY <1>14, <1>15, FeedOpen DEF f, fed, read
  <1> QED BY <1>10, <1>16

(* A message of the server's flight is fed. *)
LEMMA FlightFed ==
    ASSUME NEW s \in Servers, NEW c, Sound(c, s), c.sawScid, ~c.err, HasMessage(c.rx["Handshake"])
    PROVE  Open(FeedNext(c, "Handshake"), s)
  <1> DEFINE h == c.hello
             rx == c.rx["Handshake"]
             S == Streams[s][h]["Handshake"]
             b == [c EXCEPT !.rx["Handshake"] = pop_message(@)]
             m == TopMessage(rx)
             f == feed(b.tls, m)
             fed == [b EXCEPT !.tls = f.t]
             read == [fed EXCEPT !.keys = @ \cup {"hsRead"}]
             keys == [fed EXCEPT !.keys = @ \cup {"hsWrite", "app"}]
             tr == Transcripts[s][h]
             L == Len(s.order)
             off == Offsets(s, h)
  <1>1. /\ Fields \subseteq DOMAIN c /\ h = (IF c.retried THEN 2 ELSE 1) /\ h \in 1..2
        /\ DOMAIN c.tls = TlsFields /\ c.tls.hello = h /\ DOMAIN c.rx = Spaces
        /\ RxOK(rx, S) /\ Drained(rx)
        /\ RxOK(c.rx["Initial"], Streams[s][h]["Initial"]) /\ Drained(c.rx["Initial"])
        /\ Begun(c, s) \/ Underway(c, s)
    BY DEF Sound, Shaken
  <1>2. /\ L \in Nat
        /\ \A i \in 1..L : tr[i + 2].type \in {"EE", "CERT", "CV", "FIN"}
    <2> HIDE DEF h
    <2>1. L \in Nat  BY <1>1, TranscriptFacts
    <2>2. \A i \in 1..L : s.order[i] \in {"EE", "CERT", "CV", "FIN"}
      BY <1>1, TranscriptFacts
    <2>3. \A i \in 1..L : tr[i + 2].type = s.order[i]
      BY <1>1, TranscriptFacts
    <2> QED BY <2>1, <2>2, <2>3
  <1>3. /\ Len(S) \in Nat /\ off[0] = 0 /\ (\A i \in 0..L : off[i] \in Nat) /\ Len(S) = off[L]
        /\ \A i \in 1..L :
             /\ off[i] = off[i - 1] + Length(tr[i + 2])
             /\ S[off[i - 1] + 1] = [msg |-> tr[i + 2], k |-> 1, length |-> Length(tr[i + 2])]
    <2> HIDE DEF h
    <2>1. Starts(Flight(s, h), S, off) /\ Len(S) \in Nat /\ Len(Flight(s, h)) = L
      BY <1>1, FlightFacts
    <2>2. \A i \in 1..L : Flight(s, h)[i] = tr[i + 2]
      BY <1>1, FlightFacts
    <2> HIDE DEF tr, S, off, L
    <2> QED BY <2>1, <2>2 DEF Starts
  <1>4. rx.start \in Nat /\ rx.buf[1] = S[rx.start + 1] /\ rx.start + 1 <= Len(S)
    <2> HIDE DEF rx, S
    <2>1. HasMessage(rx)  BY DEF rx
    <2> QED BY <1>1, <1>3, <2>1, TopOf
  <1>5. PICK k : /\ k \in 0..L /\ rx.start = off[k]
                 /\ c.tls.seen => /\ Heard(c, s, k) /\ (WriteKeys(c) => k >= 4)
                                  /\ c.rx["Initial"].start = 1
    <2>1. CASE Begun(c, s)
      <3>1. ~c.tls.seen  BY <2>1 DEF Begun, client_hello, ClientHandshake
      <3>2. rx.start = 0 /\ 0 \in 0..L  BY <1>2, <2>1 DEF Begun
      <3> QED BY <1>3, <3>1, <3>2
    <2>2. CASE Underway(c, s)
      BY <2>2 DEF Underway, Heard
    <2> QED BY <1>1, <2>1, <2>2
  <1>6. k \in Nat /\ k < L /\ k + 1 \in 1..L /\ k + 1 \in 0..L /\ (k + 1) - 1 = k /\ (k + 1) + 2 = k + 3
    <2>1. k # L  BY <1>3, <1>4, <1>5
    <2> QED BY <1>2, <1>5, <2>1
  <1> DEFINE len == Length(m)
  <1>7. /\ off[k + 1] = off[k] + Length(tr[k + 3])
        /\ S[off[k] + 1] = [msg |-> tr[k + 3], k |-> 1, length |-> Length(tr[k + 3])]
    <2> HIDE DEF tr, S, off, L
    <2> QED BY <1>3, <1>6
  <1>8. m = tr[k + 3] /\ rx.buf[1].length = len /\ len \in Nat /\ off[k + 1] = rx.start + len
    <2>1. rx.buf[1] = [msg |-> tr[k + 3], k |-> 1, length |-> Length(tr[k + 3])]
      BY <1>4, <1>5, <1>7
    <2>2. m = tr[k + 3]  BY <2>1 DEF TopMessage
    <2>3. len \in Nat  BY DEF Length
    <2> HIDE DEF m, len, tr, off, rx
    <2> QED BY <1>5, <1>7, <2>1, <2>2, <2>3 DEF len
  <1>9. RxOK(pop_message(rx), S) /\ Drained(pop_message(rx)) /\ pop_message(rx).start = off[k + 1]
    <2> HIDE DEF rx, S, off, m, len
    <2>1. HasMessage(rx)  BY DEF rx
    <2> QED BY <1>1, <1>3, <1>8, <2>1, PoppedOK
  <1>10. /\ DOMAIN b = DOMAIN c /\ \A x \in DOMAIN c \ {"rx"} : b[x] = c[x]
         /\ b.rx = [c.rx EXCEPT !["Handshake"] = pop_message(rx)]
    BY <1>1 DEF Fields
  <1>11. b.tls = c.tls /\ ~b.err /\ Fields \subseteq DOMAIN b
    BY <1>1, <1>10 DEF Fields
  <1>12. FeedNext(c, "Handshake") = FeedMessage(b, m)
    BY DEF FeedNext
  <1>13. /\ DOMAIN fed = DOMAIN c /\ fed.tls = f.t /\ fed.rx = b.rx
         /\ DOMAIN read = DOMAIN c /\ read.tls = f.t /\ read.rx = b.rx
         /\ DOMAIN keys = DOMAIN c /\ keys.tls = f.t /\ keys.rx = b.rx
         /\ fed.keys = c.keys /\ read.keys = c.keys \cup {"hsRead"}
         /\ keys.keys = c.keys \cup {"hsWrite", "app"}
         /\ \A x \in {"hello", "retried", "sawScid", "wire"} :
              fed[x] = c[x] /\ read[x] = c[x] /\ keys[x] = c[x]
    BY <1>1, <1>10 DEF Fields
  <1>14. /\ DOMAIN b.rx = Spaces /\ b.rx["Handshake"] = pop_message(rx)
         /\ b.rx["Initial"] = c.rx["Initial"]
    BY <1>1, <1>10 DEF Spaces
  <1> HIDE DEF b, rx, S, m, len, f, fed, read, keys
  <1>15. ASSUME f.ok
         PROVE  /\ ~f.completed => Open(fed, s) /\ Open(read, s)
                /\ f.completed => Open(keys, s)
    <2>1. c.tls.seen
      <3>1. m.type \in {"EE", "CERT", "CV", "FIN"}
        <4> HIDE DEF tr, L
        <4> QED BY <1>2, <1>6, <1>8
      <3>2. feed(c.tls, m).ok  BY <1>11, <1>15 DEF f
      <3> QED BY <1>1, <3>1, <3>2, FeedFacts
    <2>2. Heard(c, s, k) /\ (WriteKeys(c) => k >= 4) /\ c.rx["Initial"].start = 1
      BY <1>5, <2>1
    <2>3. f.ok /\ f = feed(c.tls, m) /\ m = Transcripts[s][c.hello][k + 3] /\ c.hello \in 1..2
      BY <1>1, <1>8, <1>11, <1>15 DEF f
    <2> DEFINE Next1(d) == /\ Heard(d, s, k + 1) /\ d.tls.seen /\ DOMAIN d.tls = TlsFields
                           /\ d.tls.hello = c.tls.hello
    <2>4. ASSUME NEW d, d.tls = f.t, d.hello = c.hello, d.rx = b.rx
          PROVE  Next1(d) /\ (f.completed => k >= 3)
      <3>1. d.rx["Handshake"].start = Offsets(s, c.hello)[k + 1]
        BY <1>9, <1>14, <2>4
      <3>2. feed(c.tls, m).ok /\ d.tls = feed(c.tls, m).t /\ k < Len(s.order) /\ d.hello = c.hello
        BY <1>6, <2>3, <2>4
      <3> HIDE DEF h, tr, L, off
      <3>3. /\ Heard(d, s, k + 1) /\ d.tls.seen /\ DOMAIN d.tls = TlsFields
            /\ d.tls.hello = c.tls.hello
            /\ feed(c.tls, m).completed => k >= 3
        BY <1>1, <2>2, <2>3, <3>1, <3>2, HeardNext
      <3> QED BY <2>3, <3>3
    <2>5. \A sp \in {"Initial", "Handshake"} : RxOK(b.rx[sp], Streams[s][h][sp]) /\ Drained(b.rx[sp])
      BY <1>1, <1>9, <1>14 DEF S
    <2>6. ASSUME NEW d, DOMAIN d = DOMAIN c, d.tls = f.t, d.rx = b.rx, c.keys \subseteq d.keys,
                 d.hello = c.hello, d.retried = c.retried, d.sawScid = c.sawScid, d.wire = c.wire,
                 WriteKeys(d) => WriteKeys(c) \/ f.completed
          PROVE  Open(d, s)
      <3>1. Next1(d) /\ (f.completed => k >= 3)  BY <2>4, <2>6
      <3>2. Fields \subseteq DOMAIN d  BY <1>1, <2>6
      <3>3. /\ DOMAIN d.tls = TlsFields /\ d.tls.hello = c.hello /\ d.tls.seen
            /\ DOMAIN d.rx = Spaces /\ d.rx["Initial"].start = 1
            /\ \A sp \in {"Initial", "Handshake"} :
                 RxOK(d.rx[sp], Streams[s][c.hello][sp]) /\ Drained(d.rx[sp])
        BY <1>1, <1>14, <2>2, <2>5, <2>6, <3>1
      <3>4. WriteKeys(d) => k + 1 >= 4
        <4>1. WriteKeys(c) => k + 1 >= 4  BY <1>6, <2>2
        <4>2. f.completed => k + 1 >= 4  BY <1>6, <3>1
        <4> QED BY <2>6, <4>1, <4>2
      <3> QED BY <2>6, <3>1, <3>2, <3>3, <3>4, Advanced
    <2>7. Open(fed, s)
      <3>1. WriteKeys(fed) => WriteKeys(c) \/ f.completed  BY <1>13 DEF WriteKeys
      <3> QED BY <1>13, <2>6, <3>1
    <2>8. Open(read, s)
      <3>1. WriteKeys(read) => WriteKeys(c) \/ f.completed  BY <1>13 DEF WriteKeys
      <3> QED BY <1>13, <2>6, <3>1
    <2>9. ASSUME f.completed PROVE Open(keys, s)
      BY <1>13, <2>6, <2>9
    <2> QED BY <2>7, <2>8, <2>9
  <1>16. Open(FeedMessage(b, m), s)
    BY <1>11, <1>15, FeedOpen DEF f, fed, read, keys
  <1> QED BY <1>12, <1>16

LEMMA FeedNextOpen ==
    ASSUME NEW s \in Servers, NEW c, Open(c, s), NEW space \in {"Initial", "Handshake"}
    PROVE  Open(FeedNext(c, space), s)
  <1>1. CASE c.err \/ ~HasMessage(c.rx[space])
    BY <1>1 DEF FeedNext
  <1>2. CASE ~c.err /\ HasMessage(c.rx[space])
    BY <1>2, HelloFed, FlightFed DEF Open
  <1> QED BY <1>1, <1>2

(* A CRYPTO frame carries a piece of the stream of its space. *)
Fits(f, s, h, space) ==
    f.t = "CRYPTO" /\ space # "Application" => f.off \in Nat /\ PieceOf(f.data, Streams[s][h][space], f.off)

LEMMA CryptoOpen ==
    ASSUME NEW s \in Servers, NEW c, Open(c, s), ~c.err, NEW space \in Spaces, NEW off, NEW data,
           space # "Application" => off \in Nat /\ PieceOf(data, Streams[s][c.hello][space], off)
    PROVE  Open(on_crypto(c, space, off, data), s)
  <1> DEFINE e == [c EXCEPT !.rx[space] = insert(@, off, data)]
             all == FeedNext(FeedNext(FeedNext(FeedNext(FeedNext(e, space), space), space), space), space)
  <1>1. CASE space = "Application"
    BY <1>1 DEF on_crypto
  <1>2. CASE space # "Application"
    <2>1. space \in {"Initial", "Handshake"}  BY <1>2 DEF Spaces
    <2>2. on_crypto(c, space, off, data) \in {Failed(c), all}
      BY <1>2 DEF on_crypto
    <2>3. Sound(c, s) /\ c.sawScid  BY DEF Open
    <2>4. Open(Failed(c), s)
      <3>1. Failed(c).err  BY <2>3 DEF Failed, Sound, Shaken, Fields
      <3> QED BY <3>1 DEF Open
    <2>5. Open(e, s)
      <3> DEFINE rx == c.rx[space]
                 S == Streams[s][c.hello][space]
      <3>1. /\ DOMAIN e = DOMAIN c /\ e.rx = [c.rx EXCEPT ![space] = insert(rx, off, data)]
            /\ e.hello = c.hello /\ e.retried = c.retried /\ e.tls = c.tls /\ e.keys = c.keys
            /\ e.sawScid = c.sawScid /\ e.wire = c.wire
        BY <2>3 DEF Sound, Shaken, Fields
      <3> HIDE DEF e
      <3>2. RxOK(rx, S) /\ Drained(rx) /\ DOMAIN c.rx = Spaces /\ c.hello \in 1..2
        BY <2>1, <2>3 DEF Sound, Shaken
      <3>3. Len(S) \in Nat
        <4>1. ASSUME NEW h \in 1..2 PROVE Len(Streams[s][h][space]) \in Nat
          BY <2>1, HelloFacts, FlightFacts
        <4> QED BY <3>2, <4>1
      <3>4. off \in Nat /\ PieceOf(data, S, off)  BY <1>2
      <3>5. /\ RxOK(insert(rx, off, data), S) /\ Drained(insert(rx, off, data))
            /\ insert(rx, off, data).start = rx.start
        <4> HIDE DEF rx, S
        <4> QED BY <3>2, <3>3, <3>4, InsertedOK
      <3>6. /\ DOMAIN e.rx = Spaces /\ e.rx[space] = insert(rx, off, data)
            /\ \A sp \in Spaces : sp # space => e.rx[sp] = c.rx[sp]
        BY <3>1, <3>2
      <3>7. \A sp \in {"Initial", "Handshake"} :
                RxOK(e.rx[sp], Streams[s][c.hello][sp]) /\ Drained(e.rx[sp])
        <4>1. TAKE sp \in {"Initial", "Handshake"}
        <4>2. CASE sp = space  BY <3>5, <3>6, <4>2
        <4>3. CASE sp # space
          <5>1. sp \in Spaces  BY DEF Spaces
          <5>2. RxOK(c.rx[sp], Streams[s][c.hello][sp]) /\ Drained(c.rx[sp])
            BY <2>3 DEF Sound, Shaken
          <5> QED BY <3>6, <4>3, <5>1, <5>2
        <4> QED BY <4>2, <4>3
      <3>8. \A sp \in {"Initial", "Handshake"} : e.rx[sp].start = c.rx[sp].start
        BY <3>5, <3>6 DEF Spaces
      <3>9. Begun(c, s) => Begun(e, s)
        BY <3>1, <3>8 DEF Begun, WriteKeys
      <3>10. Underway(c, s) => Underway(e, s)
        <4>1. \A k : Heard(c, s, k) => Heard(e, s, k)
          BY <3>1, <3>8 DEF Heard
        <4> QED BY <3>1, <3>8, <4>1 DEF Underway, WriteKeys
      <3>11. Shaken(e, s)
        BY <2>3, <3>1, <3>6, <3>7, <3>9, <3>10 DEF Sound, Shaken
      <3>12. Guarded(e)
        BY <2>3, <3>1 DEF Sound, Guarded, WriteKeys
      <3> QED BY <2>3, <3>1, <3>11, <3>12 DEF Open, Sound
    <2> HIDE DEF e
    <2>6. Open(all, s)
      BY <2>1, <2>5, FeedNextOpen
    <2> HIDE DEF all
    <2> QED BY <2>2, <2>4, <2>6
  <1> QED BY <1>1, <1>2

LEMMA ReplenishedOpen ==
    ASSUME NEW c, NEW s, Open(c, s), NEW used, NEW window, NEW frame
    PROVE  Open(Replenish(c, used, window, frame), s)
  <1> DEFINE d == send_packet(c, "Application", Frame(frame), FALSE)
             e == [d EXCEPT !.win[window] = 2 * @]
  <1>1. \/ Replenish(c, used, window, frame) = c
        \/ ~c.err /\ d.err /\ Replenish(c, used, window, frame) = d
        \/ ~c.err /\ ~d.err /\ Replenish(c, used, window, frame) = e
    BY DEF Replenish, Then
  <1>2. ~c.err => Open(d, s)
    BY SentOpen
  <1> HIDE DEF d
  <1>3. ASSUME ~c.err, ~d.err PROVE Open(e, s)
    <2>1. Sound(d, s)  BY <1>2, <1>3 DEF Open
    <2>2. Alike(e, d) /\ e.wire = d.wire
      BY <2>1 DEF Sound, Shaken, Fields, Alike
    <2> QED BY <1>2, <1>3, <2>2, AlikeOpen
  <1> QED BY <1>1, <1>2, <1>3

LEMMA StreamOpen ==
    ASSUME NEW c, NEW s, Open(c, s), ~c.err, NEW f
    PROVE  Open(on_stream(c, f), s)
  <1> DEFINE end == f.off + Len(f.data)
             have == Len(c.buf)
             grown == IF f.off > have
                      THEN c.buf \o [i \in 1..(f.off - have) |-> Zero(f.id)] \o f.data
                      ELSE c.buf \o SubSeq(f.data, have - f.off + 1, Len(f.data))
             stored == [c EXCEPT !.buf = grown, !.fin = @ \/ f.fin,
                                 !.heard = @ \cup {f.off + i : i \in DOMAIN f.data},
                                 !.consumed = Max({@, Len(grown)})]
             uni == [c EXCEPT !.uniOpened = Max({@, f.id + 1}), !.uniUsed = Max({@, end})]
             reset == send_packet(c, "Application", Frame("RESET_STREAM"), FALSE)
  <1>1. on_stream(c, f) \in {maybe_replenish_uni(uni), reset, Closed(c), maybe_replenish_windows(stored)}
    BY DEF on_stream
  <1> HIDE DEF end, grown
  <1>2. Fields \subseteq DOMAIN c
    BY DEF Open, Sound, Shaken
  <1>3. /\ Alike(stored, c) /\ stored.wire = c.wire
        /\ Alike(uni, c) /\ uni.wire = c.wire
    BY <1>2 DEF Alike, Fields
  <1>4. Open(stored, s) /\ Open(uni, s)
    BY <1>3, AlikeOpen
  <1> HIDE DEF stored, uni
  <1>5. Open(maybe_replenish_uni(uni), s)
    BY <1>4, ReplenishedOpen DEF maybe_replenish_uni
  <1>6. Open(maybe_replenish_windows(stored), s)
    BY <1>4, ReplenishedOpen DEF maybe_replenish_windows
  <1>7. Open(reset, s)
    BY SentOpen
  <1>8. Open(Closed(c), s)
    BY <1>2 DEF Closed, Open, Fields
  <1> HIDE DEF reset
  <1> QED BY <1>1, <1>5, <1>6, <1>7, <1>8

LEMMA FrameOpen ==
    ASSUME NEW s \in Servers, NEW c, Open(c, s), NEW space \in Spaces, NEW f,
           ~c.err => Fits(f, s, c.hello, space)
    PROVE  Open(process_frame(c, space, f), s)
  <1> DEFINE data == [c EXCEPT !.maxData = Max({@, f.n})]
             stream == [c EXCEPT !.maxStreamData = Max({@, f.n})]
             streams == [c EXCEPT !.maxStreams = Max({@, f.n})]
             reply == send_packet(c, "Application", Frame("REPLY"), FALSE)
             acked == [on_ack(c, space, f.ack) EXCEPT
                          !.acked = @ \cup {<< space, pn >> : pn \in Acked(f.ack)}]
             crypto == on_crypto(c, space, f.off, f.data)
  <1>1. CASE c.err
    BY <1>1 DEF process_frame
  <1>2. CASE ~c.err
    <2>1. \/ process_frame(c, space, f) \in
                {c, acked, on_stream(c, f), data, stream, streams, Closed(c), reply}
          \/ f.t = "CRYPTO" /\ process_frame(c, space, f) = crypto
      BY DEF process_frame
    <2>2. Fields \subseteq DOMAIN c
      BY <1>2 DEF Open, Sound, Shaken
    <2>3. /\ Alike(data, c) /\ data.wire = c.wire
          /\ Alike(stream, c) /\ stream.wire = c.wire
          /\ Alike(streams, c) /\ streams.wire = c.wire
      BY <2>2 DEF Alike, Fields
    <2>4. Alike(acked, c) /\ acked.wire = c.wire
      BY <2>2 DEF Alike, Fields, on_ack
    <2>5. Open(data, s) /\ Open(stream, s) /\ Open(streams, s)
      BY <1>2, <2>3, AlikeOpen
    <2>6. Open(acked, s)
      BY <1>2, <2>4, AlikeOpen
    <2>7. Open(reply, s) /\ Open(on_stream(c, f), s)
      BY <1>2, SentOpen, StreamOpen
    <2>8. Open(Closed(c), s)
      BY <2>2 DEF Closed, Open, Fields
    <2>9. f.t = "CRYPTO" => Open(crypto, s)
      BY <1>2, CryptoOpen DEF Fits
    <2> HIDE DEF data, stream, streams, reply, acked, crypto
    <2> QED BY <2>1, <2>5, <2>6, <2>7, <2>8, <2>9
  <1> QED BY <1>1, <1>2

LEMMA PlaintextOpen ==
    ASSUME NEW s \in Servers, NEW c, Open(c, s), ~c.err, NEW space \in Spaces, NEW pn,
           NEW frames, Len(frames) = 1, Fits(frames[1], s, c.hello, space)
    PROVE  Open(process_plaintext(c, space, pn, frames), s)
  <1> DEFINE r == AfterFrames(c, space, frames)
             d == r[1]
             e == [d EXCEPT !.pending[space] = @ \cup {pn}]
  <1>1. r[0] = c /\ \A i \in 1..Len(frames) : r[i] = process_frame(r[i - 1], space, frames[i])
    <2>1. Len(frames) \in Nat  OBVIOUS
    <2>2. AfterFrames(c, space, frames)[0] = c
      BY <2>1, FramesInTurn
    <2>3. \A i \in 1..Len(frames) :
            AfterFrames(c, space, frames)[i]
                = process_frame(AfterFrames(c, space, frames)[i - 1], space, frames[i])
      BY <2>1, FramesInTurn
    <2> QED BY <2>2, <2>3
  <1>2. 1 \in 1..Len(frames) /\ 1 - 1 = 0
    OBVIOUS
  <1>3. d = process_frame(c, space, frames[1])
    <2> HIDE DEF r
    <2> QED BY <1>1, <1>2
  <1>4. \/ process_plaintext(c, space, pn, frames) = d
        \/ ~d.err /\ process_plaintext(c, space, pn, frames) = e
    BY DEF process_plaintext
  <1> HIDE DEF d
  <1>5. Open(d, s)
    BY <1>3, FrameOpen
  <1>6. ASSUME ~d.err PROVE Open(e, s)
    <2>1. Alike(e, d) /\ e.wire = d.wire
      BY <1>5, <1>6 DEF Open, Sound, Shaken, Fields, Alike
    <2> QED BY <1>5, <1>6, <2>1, AlikeOpen
  <1> QED BY <1>4, <1>5, <1>6

LEMMA StreamLength ==
    ASSUME NEW s \in Servers, NEW h \in 1..2, NEW sp \in {"Initial", "Handshake"}
    PROVE  Len(Streams[s][h][sp]) \in Nat
  BY HelloFacts, FlightFacts

LEMMA EmptyRxOK ==
    ASSUME NEW S, Len(S) \in Nat
    PROVE  RxOK(EmptyRx, S) /\ Drained(EmptyRx) /\ EmptyRx.start = 0
  <1>1. /\ DOMAIN EmptyRx = {"buf", "start", "pending"} /\ EmptyRx.start = 0
        /\ EmptyRx.buf = << >> /\ EmptyRx.pending = << >>
    BY DEF EmptyRx
  <1>2. PieceOf(<< >>, S, 0)
    BY DEF PieceOf
  <1>3. DOMAIN << >> = {}
    OBVIOUS
  <1>4. IsFiniteSet({})
    BY FS_EmptySet
  <1> HIDE DEF EmptyRx
  <1> QED BY <1>1, <1>2, <1>3, <1>4 DEF RxOK, Drained

(* A connection is safe when it is sound, or has failed and will be dropped. *)
Safe(c, s) == c.err \/ Sound(c, s)

LEMMA RetrySafe ==
    ASSUME NEW s \in Servers, NEW c, Sound(c, s), NEW scid
    PROVE  Safe(process_retry(c, scid), s)
  <1> DEFINE d == Retried(c, scid)
  <1>1. CASE c.retried \/ c.confirmed \/ c.sawScid
    BY <1>1, FailedSound DEF process_retry, Safe
  <1>2. CASE ~(c.retried \/ c.confirmed \/ c.sawScid)
    <2>1. Untouched(c) /\ c.hello = 1 /\ Fields \subseteq DOMAIN c /\ DOMAIN c.rx = Spaces
      BY <1>2 DEF Sound, Shaken
    <2>2. /\ DOMAIN d = DOMAIN c /\ d.hello = 2 /\ d.retried = TRUE
          /\ d.tls = client_hello(ClientHandshake(2))
          /\ d.rx = [c.rx EXCEPT !["Initial"] = EmptyRx]
          /\ d.keys = {} /\ d.wire = c.wire
      <3>1. /\ DOMAIN d = DOMAIN c /\ d.hello = c.hello + 1 /\ d.retried = TRUE
            /\ d.tls = client_hello(ClientHandshake(c.hello + 1))
            /\ d.rx = [c.rx EXCEPT !["Initial"] = EmptyRx]
            /\ d.keys = c.keys /\ d.wire = c.wire
        BY <2>1 DEF Retried, Fields
      <3>2. c.hello + 1 = 2 /\ c.keys = {}  BY <2>1 DEF Untouched
      <3> HIDE DEF d
      <3> QED BY <3>1, <3>2
    <2> HIDE DEF d
    <2>3. DOMAIN d.rx = Spaces /\ d.rx["Initial"] = EmptyRx /\ d.rx["Handshake"] = EmptyRx
      BY <2>1, <2>2 DEF Spaces, Untouched
    <2>4. \A sp \in {"Initial", "Handshake"} :
            RxOK(d.rx[sp], Streams[s][d.hello][sp]) /\ Drained(d.rx[sp]) /\ d.rx[sp].start = 0
      <3>1. TAKE sp \in {"Initial", "Handshake"}
      <3>2. d.hello \in 1..2  BY <2>2
      <3>3. Len(Streams[s][d.hello][sp]) \in Nat  BY <3>2, StreamLength
      <3>4. d.rx[sp] = EmptyRx  BY <2>3
      <3> QED BY <3>3, <3>4, EmptyRxOK
    <2>5. /\ DOMAIN d.tls = TlsFields /\ d.tls.hello = 2
      BY <2>2 DEF client_hello, ClientHandshake, TlsFields
    <2>6. ~WriteKeys(d) /\ ~WriteKeys(c)
      BY <2>1, <2>2 DEF WriteKeys, Untouched
    <2>7. Begun(d, s) /\ Untouched(d)
      BY <2>2, <2>3, <2>4, <2>6 DEF Begun, Untouched
    <2>8. Guarded(d)
      BY <2>2, <2>6 DEF Sound, Guarded
    <2>9. Sound(d, s)
      BY <2>1, <2>2, <2>3, <2>4, <2>5, <2>7, <2>8 DEF Sound, Shaken
    <2>10. \A frame, pad : Sound(send_packet(d, "Initial", frame, pad), s)
      BY <2>9, SentPacketSound
    <2> QED BY <1>2, <2>10 DEF process_retry, Safe, d
  <1> QED BY <1>1, <1>2

(* What a server's packet may carry. *)
Carries(p, s) ==
    p.kind = "packet" =>
        p.space \in Spaces /\ Len(p.frames) = 1 /\ Fits(p.frames[1], s, p.hello, p.space)

LEMMA PacketSafe ==
    ASSUME NEW s \in Servers, NEW c, Safe(c, s), NEW p, Carries(p, s)
    PROVE  Safe(process_packet(c, p).c, s)
  <1> DEFINE new == [c EXCEPT !.cid = p.scid, !.sawScid = TRUE]
             learned == IF p.space # "Application" /\ ~c.sawScid THEN new ELSE c
             opened == process_plaintext(learned, p.space, p.pn, p.frames)
  <1>1. CASE c.err
    BY <1>1 DEF process_packet, Safe
  <1>2. CASE ~c.err
    <2>1. Sound(c, s) /\ Fields \subseteq DOMAIN c  BY <1>2 DEF Safe, Sound, Shaken
    <2>2. \/ process_packet(c, p).c \in {c, Closed(c), Failed(c), process_retry(c, p.scid)}
          \/ ~Dropped(c, p) /\ process_packet(c, p).c = learned
          \/ p.kind = "packet" /\ ~Dropped(c, p) /\ Opens(learned, p) /\ process_packet(c, p).c = opened
      BY <1>2 DEF process_packet, parse_header
    <2>3. Safe(Closed(c), s) /\ Safe(Failed(c), s) /\ Safe(process_retry(c, p.scid), s)
      BY <2>1, FailedSound, RetrySafe DEF Safe
    <2>4. Sound(new, s) /\ new.sawScid /\ ~new.err
      <3>1. /\ DOMAIN new = DOMAIN c /\ new.hello = c.hello /\ new.retried = c.retried
            /\ new.tls = c.tls /\ new.rx = c.rx /\ new.keys = c.keys /\ new.wire = c.wire
            /\ new.sawScid /\ new.err = c.err
        BY <2>1 DEF Fields
      <3> HIDE DEF new
      <3>2. Begun(c, s) => Begun(new, s)
        BY <3>1 DEF Begun, WriteKeys
      <3>3. Underway(c, s) => Underway(new, s)
        <4>1. \A k : Heard(c, s, k) => Heard(new, s, k)  BY <3>1 DEF Heard
        <4> QED BY <3>1, <4>1 DEF Underway, WriteKeys
      <3>4. Shaken(new, s)
        BY <2>1, <3>1, <3>2, <3>3 DEF Sound, Shaken
      <3>5. Guarded(new)
        BY <2>1, <3>1 DEF Sound, Guarded, WriteKeys
      <3> QED BY <1>2, <3>1, <3>4, <3>5 DEF Sound
    <2>5. ASSUME ~Dropped(c, p) PROVE Open(learned, s) /\ ~learned.err
      <3>1. CASE p.space # "Application" /\ ~c.sawScid
        BY <2>4, <3>1 DEF Open
      <3>2. CASE c.sawScid
        BY <1>2, <2>1, <3>2 DEF Open
      <3>3. CASE p.space = "Application" /\ ~c.sawScid
        <4>1. c.keys = {}  BY <2>1, <3>3 DEF Sound, Shaken, Untouched
        <4> QED BY <2>5, <3>3, <4>1 DEF Dropped
      <3> QED BY <3>1, <3>2, <3>3
    <2> HIDE DEF learned
    <2>6. ASSUME p.kind = "packet", ~Dropped(c, p), Opens(learned, p) PROVE Safe(opened, s)
      <3>1. p.hello = learned.hello
        BY <2>5, <2>6 DEF Opens, Open, Sound, Shaken
      <3>2. Open(opened, s)
        BY <2>5, <2>6, <3>1, PlaintextOpen DEF Carries
      <3> QED BY <3>2 DEF Open, Safe
    <2>7. ~Dropped(c, p) => Safe(learned, s)
      BY <2>5 DEF Open, Safe
    <2> QED BY <2>2, <2>3, <2>6, <2>7
  <1> QED BY <1>1, <1>2

LEMMA DatagramSafe ==
    ASSUME NEW s \in Servers, NEW c, Sound(c, s), NEW dg, Len(dg) \in Nat,
           \A i \in 1..Len(dg) : Carries(dg[i], s)
    PROVE  Safe(process_datagram(c, dg), s)
  <1>1. PICK r : /\ r[0] = [c |-> c, stop |-> FALSE]
                 /\ \A i \in 1..Len(dg) :
                      r[i] = IF r[i - 1].stop THEN r[i - 1] ELSE process_packet(r[i - 1].c, dg[i])
                 /\ process_datagram(c, dg) = r[Len(dg)].c
    BY PacketsInTurn, Zenon
  <1> DEFINE n == Len(dg)
             T == {k \in Nat : k <= n => Safe(r[k].c, s)}
  <1>2. 0 \in T
    <2>1. r[0].c = c  BY <1>1
    <2> QED BY <2>1 DEF Safe
  <1>3. ASSUME NEW k \in T PROVE k + 1 \in T
    <2>1. CASE k + 1 <= n
      <3>1. Safe(r[k].c, s)  BY <2>1
      <3>2. k + 1 \in 1..n /\ (k + 1) - 1 = k  BY <2>1
      <3>3. r[k + 1] = IF r[k].stop THEN r[k] ELSE process_packet(r[k].c, dg[k + 1])
        BY <1>1, <3>2
      <3>4. Safe(process_packet(r[k].c, dg[k + 1]).c, s)
        BY <3>1, <3>2, PacketSafe
      <3> QED BY <3>1, <3>3, <3>4
    <2> QED BY <2>1
  <1>4. T = Nat
    <2>1. T \in SUBSET Nat  OBVIOUS
    <2> HIDE DEF T
    <2> QED BY <1>2, <1>3, <2>1, Counting
  <1> QED BY <1>1, <1>4

(* A server cuts its stream in pieces. *)
LEMMA ChunkFits ==
    ASSUME NEW S, S \in Seq(ToSet(S)), NEW off \in Nat, NEW len \in Nat
    PROVE  PieceOf(Chunk(S, off, len).data, S, off) /\ Chunk(S, off, len).off = off
  <1> DEFINE X == ToSet(S)
             ends == {off + len, Len(S)}
             e == Min(ends)
             d == SubSeq(S, off + 1, e)
  <1>1. Len(S) \in Nat  OBVIOUS
  <1>2. e \in Nat /\ e <= Len(S)
    <2>1. ends \in SUBSET Nat /\ ends # {} /\ Len(S) \in ends  BY <1>1
    <2> HIDE DEF ends
    <2> QED BY <2>1, LeastOf
  <1>3. Chunk(S, off, len).data = d /\ Chunk(S, off, len).off = off
    BY DEF Chunk
  <1> HIDE DEF e, X
  <1>4. \A i \in (off + 1)..e : S[i] \in X
    <2>1. \A i \in (off + 1)..e : i \in 1..Len(S)  BY <1>1, <1>2
    <2> QED BY <2>1 DEF X
  <1>5. S \in Seq(X)  BY DEF X
  <1>6. /\ d \in Seq(X) /\ Len(d) = (IF off + 1 <= e THEN e - (off + 1) + 1 ELSE 0)
        /\ \A i \in 1..(e - (off + 1) + 1) : d[i] = S[(off + 1) + i - 1]
    BY <1>2, <1>4, <1>5, SubSeqProperties
  <1> HIDE DEF d
  <1>7. ASSUME NEW i \in 1..Len(d) PROVE d[i] = S[off + i] /\ off + i <= Len(S)
    <2>1. off + 1 <= e /\ Len(d) = e - (off + 1) + 1
      BY <1>2, <1>6
    <2>2. i \in 1..(e - (off + 1) + 1) /\ (off + 1) + i - 1 = off + i /\ off + i <= e
      BY <1>2, <2>1
    <2>3. d[i] = S[(off + 1) + i - 1]  BY <1>6, <2>2
    <2>4. off + i <= Len(S)  BY <1>1, <1>2, <2>2
    <2> QED BY <2>2, <2>3, <2>4
  <1>8. PieceOf(d, S, off)
    BY <1>6, <1>7 DEF PieceOf, X
  <1> QED BY <1>3, <1>8

LEMMA DatagramsCarry ==
    ASSUME srv \in Servers, NEW c, NEW dg \in Datagrams(c)
    PROVE  Len(dg) \in Nat /\ \A i \in 1..Len(dg) : Carries(dg[i], srv)
  <1> DEFINE Plain(p) == Carries(p, srv)
             n == IF srv.retry THEN 2 ELSE 1
             hello == Packet("Initial", n, 0, Chunk(Streams[srv][n].Initial, 0, 1))
             flight == {Packet("Handshake", n, k.pn, Chunk(Streams[srv][n].Handshake, k.off, k.len)) : k \in srv.chunks}
             Noise(f) ==
                IF f \in {"version", "malformed"} THEN {Other(f)}
                ELSE IF f = "close" THEN {Packet("Initial", n, 9, Frame("CONNECTION_CLOSE"))}
                ELSE IF ~Finished(c) THEN {}
                ELSE IF f = "session" THEN {Packet("Application", n, 8,
                        [t |-> "STREAM", uni |-> TRUE, id |-> 0, off |-> 0, data |-> << 0 >>, fin |-> FALSE])}
                ELSE IF f = "reset" THEN {Packet("Application", n, 9, [t |-> "RESET_STREAM", id |-> 0])}
                ELSE IF f = "streams" THEN {Packet("Application", n, 9, [t |-> "MAX_STREAMS", n |-> 2])}
                ELSE IF f = "data" THEN {Packet("Application", n, 9, [t |-> "MAX_DATA", n |-> QueryLen]),
                                         Packet("Application", n, 9, [t |-> "MAX_STREAM_DATA", id |-> 0, n |-> QueryLen])}
                ELSE IF \E w \in c.wire : w.frame = Frame("REPLY") THEN {}
                ELSE {Packet("Application", n, 9, Frame(f))}
             noise == UNION {Noise(f) : f \in srv.noise}
             answers == {Packet("Application", n, 10 * id + r.pn, ResponseFrame(id, r)) :
                            id \in Asked(c), r \in srv.resp}
             single == (IF srv.retry /\ Greeted(c, 1) THEN {[kind |-> "retry", scid |-> srv.retryScid]} ELSE {})
                       \cup (IF Greeted(c, n) THEN {hello} \cup flight \cup noise \cup Acks(c, n) ELSE {})
                       \cup answers
  <1>1. Datagrams(c) = {<< p >> : p \in single} \cup (IF Greeted(c, n) THEN {<< hello, p >> : p \in flight} ELSE {})
    BY DEF Datagrams
  <1>2. \A k, pn, f : Plain(Packet("Application", k, pn, f))
    BY DEF Packet, Carries, Fits, Spaces
  <1>3. \A sp \in Spaces : \A k, pn, f : f.t # "CRYPTO" => Plain(Packet(sp, k, pn, f))
    BY DEF Packet, Carries, Fits, Spaces
  <1>4. Plain([kind |-> "retry", scid |-> srv.retryScid]) /\ Plain(Other("version")) /\ Plain(Other("malformed"))
    BY DEF Other, Carries
  <1>5. n \in 1..2
    OBVIOUS
  <1>6. ASSUME NEW sp \in {"Initial", "Handshake"}, NEW pn, NEW off \in Nat, NEW len \in Nat
        PROVE  Plain(Packet(sp, n, pn, Chunk(Streams[srv][n][sp], off, len)))
    <2> HIDE DEF n
    <2> DEFINE S == Streams[srv][n][sp]
               f == Chunk(S, off, len)
    <2>1. S \in Seq(ToSet(S))
      BY <1>5, HelloFacts, FlightFacts
    <2>2. PieceOf(f.data, S, off) /\ f.off = off
      <3> HIDE DEF S
      <3> QED BY <2>1, ChunkFits
    <2>3. Fits(f, srv, n, sp)
      BY <2>2 DEF Fits
    <2> HIDE DEF f
    <2>4. Carries(Packet(sp, n, pn, f), srv)
      BY <2>3 DEF Packet, Carries, Spaces
    <2> QED BY <2>4 DEF f
  <1> HIDE DEF Plain, n
  <1>7. Plain(hello)
    BY <1>6
  <1>8. \A p \in flight : Plain(p)
    <2>1. TAKE p \in flight
    <2>2. PICK k \in srv.chunks :
            p = Packet("Handshake", n, k.pn, Chunk(Streams[srv][n].Handshake, k.off, k.len))
      OBVIOUS
    <2>3. k.off \in Nat /\ k.len \in Nat
      BY ServersAssumption
    <2> QED BY <1>6, <2>2, <2>3
  <1>9. \A f : \A p \in Noise(f) : Plain(p)
    <2>1. Plain(Packet("Initial", n, 9, Frame("CONNECTION_CLOSE")))
      <3>1. Frame("CONNECTION_CLOSE").t # "CRYPTO"  BY DEF Frame
      <3> QED BY <1>3, <3>1 DEF Spaces
    <2> QED BY <1>2, <1>4, <2>1
  <1>10. \A p \in noise : Plain(p)
    <2> HIDE DEF Noise
    <2> QED BY <1>9
  <1>11. \A p \in Acks(c, n) \cup answers : Plain(p)
    <2>1. ASSUME NEW p \in answers PROVE Plain(p)
      <3>1. PICK id \in Asked(c), r \in srv.resp :
                p = Packet("Application", n, 10 * id + r.pn, ResponseFrame(id, r))
        OBVIOUS
      <3> QED BY <1>2, <3>1
    <2>2. ASSUME NEW p \in Acks(c, n) PROVE Plain(p)
      <3>1. \E sp \in Spaces : \E ack : p = Packet(sp, n, 0, [t |-> "ACK", ack |-> ack])
        BY DEF Acks
      <3> QED BY <1>3, <3>1
    <2> QED BY <2>1, <2>2
  <1> HIDE DEF hello, flight, noise, answers
  <1>12. \A p \in single : Plain(p)
    BY <1>4, <1>7, <1>8, <1>10, <1>11
  <1> HIDE DEF single
  <1>13. CASE \E p \in single : dg = << p >>
    <2>1. PICK p \in single : dg = << p >>  BY <1>13
    <2>2. Len(dg) = 1 /\ dg[1] = p  BY <2>1
    <2> QED BY <1>12, <2>2 DEF Plain
  <1>14. CASE \E p \in flight : dg = << hello, p >>
    <2>1. PICK p \in flight : dg = << hello, p >>  BY <1>14
    <2>2. Len(dg) = 2 /\ dg[1] = hello /\ dg[2] = p  BY <2>1
    <2>3. Plain(dg[1]) /\ Plain(dg[2])  BY <1>7, <1>8, <2>2
    <2> QED BY <2>2, <2>3 DEF Plain
  <1> QED BY <1>1, <1>13, <1>14

-----------------------------------------------------------------------------
(* Every step of the transport *)

LEMMA FlushedSound ==
    ASSUME NEW c, NEW s, Sound(c, s), NEW fired, NEW up
    PROVE  /\ Sound(flush_acks(c), s) /\ Sound(flush_query_send(c), s)
           /\ Sound(run_pto(c, fired), s) /\ Sound(exchange_query(c), s)
           /\ Sound([c EXCEPT !.up = up], s) /\ Sound([c EXCEPT !.pto = 0], s)
  <1> DEFINE cleared(d) == [d EXCEPT !.pending = PerSpace({})]
             moved(d, end, fin) == [d EXCEPT !.offset = end, !.used = @ + (end - d.offset), !.finSent = fin]
             probed(d) == [d EXCEPT !.sent = {}, !.pto = @ + 1]
             asked(d) == [d EXCEPT !.stream = d.opened, !.opened = @ + 1, !.asking = TRUE, !.offset = 0,
                                   !.used = 0, !.finSent = FALSE, !.buf = << >>, !.fin = FALSE, !.heard = {}]
  <1>1. ASSUME NEW d, Sound(d, s)
        PROVE  /\ Sound(cleared(d), s) /\ Sound(probed(d), s) /\ Sound(asked(d), s)
               /\ \A end, fin : Sound(moved(d, end, fin), s)
               /\ Sound([d EXCEPT !.up = up], s) /\ Sound([d EXCEPT !.pto = 0], s)
    <2>1. Fields \subseteq DOMAIN d  BY <1>1 DEF Sound, Shaken
    <2>2. /\ Alike(cleared(d), d) /\ cleared(d).wire = d.wire
          /\ Alike(probed(d), d) /\ probed(d).wire = d.wire
          /\ Alike(asked(d), d) /\ asked(d).wire = d.wire
      BY <2>1 DEF Alike, Fields
    <2>3. \A end, fin : Alike(moved(d, end, fin), d) /\ moved(d, end, fin).wire = d.wire
      BY <2>1 DEF Alike, Fields
    <2>4. /\ Alike([d EXCEPT !.up = up], d) /\ [d EXCEPT !.up = up].wire = d.wire
          /\ Alike([d EXCEPT !.pto = 0], d) /\ [d EXCEPT !.pto = 0].wire = d.wire
      BY <2>1 DEF Alike, Fields
    <2> HIDE DEF cleared, probed, asked, moved
    <2>5. \A end, fin : Sound(moved(d, end, fin), s)
      BY <1>1, <2>3, AlikeSound
    <2>6. Sound(cleared(d), s) /\ Sound(probed(d), s) /\ Sound(asked(d), s)
      BY <1>1, <2>2, AlikeSound
    <2>7. Sound([d EXCEPT !.up = up], s) /\ Sound([d EXCEPT !.pto = 0], s)
      BY <1>1, <2>4, AlikeSound
    <2> QED BY <2>5, <2>6, <2>7
  <1> HIDE DEF cleared, probed, asked, moved
  <1>2. Sound(flush_acks(c), s)
    <2>1. PICK ps : flush_acks(c) \in {cleared(c), send_packets(cleared(c), ps)}
      BY DEF flush_acks, cleared
    <2>2. Sound(cleared(c), s)  BY <1>1
    <2>3. Sound(send_packets(cleared(c), ps), s)  BY <2>2, SentSound
    <2> QED BY <2>1, <2>2, <2>3
  <1>3. ASSUME NEW d, Sound(d, s) PROVE Sound(flush_query_send(d), s)
    <2>1. PICK end, fin, ps : flush_query_send(d) \in {d, send_packets(moved(d, end, fin), ps)}
      BY DEF flush_query_send, moved
    <2>2. Sound(moved(d, end, fin), s)  BY <1>1, <1>3
    <2>3. Sound(send_packets(moved(d, end, fin), ps), s)  BY <2>2, SentSound
    <2> QED BY <1>3, <2>1, <2>3
  <1>4. Sound(run_pto(c, fired), s)
    <2>1. PICK ps : run_pto(c, fired) \in {c, Closed(c), send_packets(probed(c), ps)}
      BY DEF run_pto, probed
    <2>2. Sound(probed(c), s)  BY <1>1
    <2>3. Sound(send_packets(probed(c), ps), s) /\ Sound(Closed(c), s)  BY <2>2, SentSound, FailedSound
    <2> QED BY <2>1, <2>3
  <1>5. Sound(exchange_query(c), s)
    <2>1. exchange_query(c) \in {Failed(c), flush_query_send(asked(c))}
      BY DEF exchange_query, asked
    <2> QED BY <1>1, <1>3, <2>1, FailedSound
  <1> QED BY <1>1, <1>2, <1>3, <1>4, <1>5

LEMMA ConnectSound ==
    ASSUME NEW s \in Servers, NEW up
    PROVE  Sound(connect(up), s)
  <1> DEFINE c == NewConn(up)
  <1>1. /\ DOMAIN c = Fields /\ c.hello = 1 /\ c.retried = FALSE /\ c.wire = {} /\ c.keys = {}
        /\ c.rx = [sp \in Spaces |-> EmptyRx] /\ c.tls = client_hello(ClientHandshake(1))
    BY DEF NewConn, Fields, PerSpace
  <1> HIDE DEF c
  <1>2. DOMAIN c.rx = Spaces /\ c.rx["Initial"] = EmptyRx /\ c.rx["Handshake"] = EmptyRx
    BY <1>1 DEF Spaces
  <1>3. \A sp \in {"Initial", "Handshake"} :
          RxOK(c.rx[sp], Streams[s][c.hello][sp]) /\ Drained(c.rx[sp]) /\ c.rx[sp].start = 0
    <2>1. TAKE sp \in {"Initial", "Handshake"}
    <2>2. c.hello \in 1..2  BY <1>1
    <2>3. Len(Streams[s][c.hello][sp]) \in Nat  BY <2>2, StreamLength
    <2>4. c.rx[sp] = EmptyRx  BY <1>2
    <2> QED BY <2>3, <2>4, EmptyRxOK
  <1>4. DOMAIN c.tls = TlsFields /\ c.tls.hello = 1
    BY <1>1 DEF client_hello, ClientHandshake, TlsFields
  <1>5. Begun(c, s) /\ Untouched(c)
    BY <1>1, <1>2, <1>3 DEF Begun, Untouched, WriteKeys
  <1>6. Sound(c, s)
    BY <1>1, <1>2, <1>3, <1>4, <1>5 DEF Sound, Shaken, Guarded
  <1> QED BY <1>6, SentPacketSound DEF connect, c

(* While a thread is in its loop there is a connection, and what it has heard is
   what the server said. *)
ConnSafe ==
    /\ srv \in Servers
    /\ conn = NoConn \/ Sound(conn, srv)
    /\ pc # "idle" => Sound(conn, srv)

LEMMA BegunSafe ==
    ASSUME ConnSafe, NEW c, c.err \/ Sound(c, srv), NEW stage, Begin(c, stage), UNCHANGED srv
    PROVE  ConnSafe'
  <1>1. CASE c.err
    BY <1>1 DEF Begin, Drop, Return, ConnSafe
  <1>2. CASE ~c.err
    <2>1. conn' = [c EXCEPT !.up = TRUE]  BY <1>2 DEF Begin, Keep
    <2>2. Sound([c EXCEPT !.up = TRUE], srv)  BY <1>2, FlushedSound
    <2>3. Sound(conn', srv')  BY <2>1, <2>2
    <2> QED BY <2>3 DEF ConnSafe
  <1> QED BY <1>1, <1>2

LEMMA ConnSafeInvariant == Spec => []ConnSafe
  <1>1. Init => ConnSafe
    BY DEF Init, ConnSafe
  <1>2. ConnSafe /\ [Next]_vars => ConnSafe'
    <2> SUFFICES ASSUME ConnSafe, [Next]_vars PROVE ConnSafe'
      OBVIOUS
    <2>a. ASSUME NEW c, Sound(c, srv), Keep(c), UNCHANGED srv PROVE ConnSafe'
      <3>1. Sound([c EXCEPT !.up = TRUE], srv)  BY <2>a, FlushedSound
      <3>2. Sound(conn', srv')  BY <2>a, <3>1 DEF Keep
      <3> QED BY <2>a, <3>2 DEF ConnSafe
    <2>b. ASSUME Drop, UNCHANGED srv PROVE ConnSafe'
      BY <2>b DEF Drop, Return, ConnSafe
    <2>1. CASE Exchange
      <3>1. PICK up \in Sendable :
              IF is_open(conn) THEN Begin(exchange_query([conn EXCEPT !.up = up]), "exchange")
              ELSE Begin(connect(up), "connect")
        BY <2>1 DEF Exchange
      <3>2. UNCHANGED srv /\ srv \in Servers  BY <2>1 DEF Exchange, ConnSafe
      <3>3. CASE is_open(conn)
        <4>1. conn # NoConn  BY <3>3 DEF is_open, NoConn
        <4>2. Sound([conn EXCEPT !.up = up], srv)  BY <4>1, FlushedSound DEF ConnSafe
        <4>3. Sound(exchange_query([conn EXCEPT !.up = up]), srv)  BY <4>2, FlushedSound
        <4> QED BY <3>1, <3>2, <3>3, <4>3, BegunSafe
      <3>4. CASE ~is_open(conn)
        <4>1. Sound(connect(up), srv)  BY <3>2, ConnectSound
        <4> QED BY <3>1, <3>2, <3>4, <4>1, BegunSafe
      <3> QED BY <3>3, <3>4
    <2>2. CASE Receive
      <3>1. PICK dg \in Datagrams(conn), up \in Sendable :
              LET c == process_datagram([conn EXCEPT !.up = up], dg)
              IN  IF c.err THEN Drop
                  ELSE Keep([c EXCEPT !.pto = 0]) /\ left' \in Waited(left) /\ UNCHANGED << pc, results >>
        BY <2>2 DEF Receive
      <3> DEFINE c == process_datagram([conn EXCEPT !.up = up], dg)
                 d == [c EXCEPT !.pto = 0]
      <3>2. Sound(conn, srv) /\ srv \in Servers /\ UNCHANGED srv
        BY <2>2 DEF Receive, ConnSafe
      <3>3. Safe(c, srv)
        <4>1. Sound([conn EXCEPT !.up = up], srv)
          BY <3>2, FlushedSound
        <4>2. Len(dg) \in Nat /\ \A i \in 1..Len(dg) : Carries(dg[i], srv)
          BY <3>2, DatagramsCarry
        <4> QED BY <3>2, <4>1, <4>2, DatagramSafe
      <3>4. IF c.err THEN Drop ELSE Keep(d)
        BY <3>1
      <3> HIDE DEF c
      <3>5. CASE c.err
        BY <2>b, <3>2, <3>4, <3>5
      <3>6. CASE ~c.err
        <4>1. Sound(d, srv)  BY <3>3, <3>6, FlushedSound DEF Safe
        <4> HIDE DEF d
        <4> QED BY <2>a, <3>2, <3>4, <3>6, <4>1
      <3> QED BY <3>5, <3>6
    <2>3. CASE Turn
      <3> DEFINE acks(up) == flush_acks([conn EXCEPT !.up = up])
                 probed(fired, up) == run_pto(acks(up), fired)
                 cc(fired, up) == IF probed(fired, up).err \/ ~probed(fired, up).confirmed
                                  THEN probed(fired, up) ELSE flush_query_send(probed(fired, up))
      <3>1. PICK fired \in BOOLEAN, up \in Sendable :
              IF cc(fired, up).err THEN Drop
              ELSE IF Done(cc(fired, up))
              THEN IF pc = "connect" THEN Begin(exchange_query(cc(fired, up)), "exchange")
                   ELSE Keep(cc(fired, up)) /\ Return([ok |-> deframe_response(cc(fired, up).buf), answer |-> cc(fired, up).buf,
                                                               heard |-> cc(fired, up).heard])
              ELSE IF cc(fired, up).closed \/ left <= 1 THEN Drop
              ELSE Keep(cc(fired, up)) /\ left' = Remaining(left) /\ UNCHANGED << pc, results >>
        BY <2>3 DEF Turn
      <3>2. Sound(conn, srv) /\ UNCHANGED srv
        BY <2>3 DEF Turn, ConnSafe
      <3>3. Sound(acks(up), srv)
        <4>1. Sound([conn EXCEPT !.up = up], srv)  BY <3>2, FlushedSound
        <4> QED BY <4>1, FlushedSound
      <3> HIDE DEF acks
      <3>4. Sound(probed(fired, up), srv)
        BY <3>3, FlushedSound
      <3> HIDE DEF probed
      <3> DEFINE c == cc(fired, up)
      <3>5. Sound(c, srv)
        BY <3>4, FlushedSound
      <3>6. \/ Drop
            \/ Begin(exchange_query(c), "exchange")
            \/ Keep(c)
        BY <3>1
      <3> HIDE DEF c
      <3>7. CASE Drop
        BY <2>b, <3>2, <3>7
      <3>8. CASE Begin(exchange_query(c), "exchange")
        <4>1. Sound(exchange_query(c), srv)  BY <3>5, FlushedSound
        <4> QED BY <3>2, <3>8, <4>1, BegunSafe
      <3>9. CASE Keep(c)
        BY <2>a, <3>2, <3>5, <3>9
      <3> QED BY <3>6, <3>7, <3>8, <3>9
    <2>4. CASE Finish
      BY <2>4 DEF Finish, vars, ConnSafe
    <2>5. CASE UNCHANGED vars
      BY <2>5 DEF vars, ConnSafe
    <2> QED BY <2>1, <2>2, <2>3, <2>4, <2>5 DEF Next
  <1> QED BY <1>1, <1>2, PTL DEF Spec

(* Sequences that agree place by place. *)
LEMMA MatchIsSubSeq ==
    ASSUME NEW X, NEW d \in Seq(X), NEW S \in Seq(X), NEW off \in Nat,
           \A i \in 1..Len(d) : d[i] = S[off + i] /\ off + i <= Len(S)
    PROVE  d = SubSeq(S, off + 1, off + Len(d))
  <1> DEFINE n == Len(d)
             e == SubSeq(S, off + 1, off + n)
  <1>1. n \in Nat  OBVIOUS
  <1>2. \A i \in 1..n : d[i] = S[off + i] /\ off + i <= Len(S)
    OBVIOUS
  <1> HIDE DEF n
  <1>3. \A i \in (off + 1)..(off + n) : S[i] \in X
    <2>1. TAKE i \in (off + 1)..(off + n)
    <2>2. i - off \in 1..n /\ off + (i - off) = i  BY <1>1
    <2>3. i <= Len(S)  BY <1>2, <2>2
    <2>4. i \in 1..Len(S)  BY <1>1, <2>3
    <2> QED BY <2>4
  <1>4. off + 1 \in Nat /\ off + n \in Nat  BY <1>1
  <1>5. /\ e \in Seq(X)
        /\ Len(e) = (IF off + 1 <= off + n THEN (off + n) - (off + 1) + 1 ELSE 0)
        /\ \A i \in 1..((off + n) - (off + 1) + 1) : e[i] = S[(off + 1) + i - 1]
    BY <1>3, <1>4, SubSeqProperties
  <1> HIDE DEF e
  <1>6. Len(e) = n
    BY <1>1, <1>5
  <1>7. ASSUME NEW i \in 1..n PROVE d[i] = e[i]
    <2>1. i \in 1..((off + n) - (off + 1) + 1) /\ (off + 1) + i - 1 = off + i  BY <1>1
    <2>2. e[i] = S[(off + 1) + i - 1]  BY <1>5, <2>1
    <2> QED BY <1>2, <2>1, <2>2
  <1>8. d = e
    BY <1>5, <1>6, <1>7, SeqEqual DEF n
  <1> QED BY <1>8 DEF e, n

LEMMA PieceIsSubSeq ==
    ASSUME NEW S, S \in Seq(ToSet(S)), NEW off \in Nat, NEW d, PieceOf(d, S, off)
    PROVE  d = SubSeq(S, off + 1, off + Len(d))
  BY MatchIsSubSeq DEF PieceOf

LEMMA MatchIsPrefix ==
    ASSUME NEW X, NEW d \in Seq(X), NEW S \in Seq(X), Len(d) <= Len(S),
           \A i \in 1..Len(d) : d[i] = S[0 + i] /\ 0 + i <= Len(S)
    PROVE  IsPrefix(d, S)
  <1>1. d = SubSeq(S, 0 + 1, 0 + Len(d))
    BY MatchIsSubSeq
  <1>2. d = SubSeq(d, 0 + 1, 0 + Len(d))
    <2>1. \A i \in 1..Len(d) : d[i] = d[0 + i] /\ 0 + i <= Len(d)  OBVIOUS
    <2> QED BY <2>1, MatchIsSubSeq
  <1>3. 0 + 1 = 1 /\ 0 + Len(d) = Len(d)  OBVIOUS
  <1> QED BY <1>1, <1>2, <1>3 DEF IsPrefix

LEMMA PrefixIsPrefix ==
    ASSUME NEW X, NEW tr \in Seq(X), NEW k \in Nat, k <= Len(tr)
    PROVE  Len(SubSeq(tr, 1, k)) = k /\ IsPrefix(SubSeq(tr, 1, k), tr)
  <1> DEFINE a == SubSeq(tr, 1, k)
  <1>1. a \in Seq(X) /\ Len(a) = k /\ \A i \in 1..k : a[i] = tr[i]
    <2>1. \A i \in 1..k : tr[i] \in X  OBVIOUS
    <2>2. /\ a \in Seq(X) /\ Len(a) = (IF 1 <= k THEN k - 1 + 1 ELSE 0)
          /\ \A i \in 1..(k - 1 + 1) : a[i] = tr[1 + i - 1]
      BY <2>1, SubSeqProperties
    <2>3. k - 1 + 1 = k /\ (~(1 <= k) => k = 0) /\ \A i \in 1..k : 1 + i - 1 = i
      OBVIOUS
    <2> HIDE DEF a
    <2> QED BY <2>2, <2>3
  <1> HIDE DEF a
  <1>2. \A i \in 1..Len(a) : a[i] = tr[0 + i] /\ 0 + i <= Len(tr)
    BY <1>1
  <1>3. Len(a) <= Len(tr)  BY <1>1
  <1>4. IsPrefix(a, tr)
    BY <1>1, <1>2, <1>3, MatchIsPrefix
  <1> QED BY <1>1, <1>4 DEF a

(* Whatever datagrams are lost, repeated, re-split or reordered, and with whatever
   server, CryptoRx holds exactly the next octets of the server's handshake stream:
   insert, drain_pending and pop_message neither skip nor repeat any, and leave no
   chunk behind that could be absorbed. *)
THEOREM CryptoStreamIntact == Spec => []CryptoInOrder
  <1>1. ASSUME ConnSafe PROVE CryptoInOrder
    <2> SUFFICES ASSUME Sound(conn, srv), NEW sp \in {"Initial", "Handshake"}
                 PROVE  LET rx == conn.rx[sp]
                        IN  /\ rx.buf = SubSeq(Streams[srv][conn.hello][sp], rx.start + 1, ContiguousEnd(rx))
                            /\ \A off \in DOMAIN rx.pending : off > ContiguousEnd(rx)
      BY <1>1 DEF ConnSafe, CryptoInOrder, NoConn
    <2> DEFINE rx == conn.rx[sp]
               S == Streams[srv][conn.hello][sp]
    <2>1. RxOK(rx, S) /\ Drained(rx) /\ conn.hello \in 1..2
      BY DEF Sound, Shaken
    <2>2. S \in Seq(ToSet(S))
      <3>1. srv \in Servers  BY <1>1 DEF ConnSafe
      <3>2. ASSUME NEW h \in 1..2
            PROVE  Streams[srv][h][sp] \in Seq(ToSet(Streams[srv][h][sp]))
        BY <3>1, HelloFacts, FlightFacts
      <3> QED BY <2>1, <3>2
    <2> HIDE DEF rx, S
    <2>3. rx.buf = SubSeq(S, rx.start + 1, ContiguousEnd(rx))
      BY <2>1, <2>2, PieceIsSubSeq DEF RxOK, ContiguousEnd
    <2> QED BY <2>1, <2>3 DEF Drained, rx, S
  <1> QED BY <1>1, ConnSafeInvariant, PTL

(* No query and no Finished leaves before the certificate was accepted as the
   configuration demands and the server's EncryptedExtensions, Certificate,
   CertificateVerify and Finished, its first four messages and in this order, were
   verified against the ClientHello in force: for every server, every order of
   arrival and over a Retry. *)
THEOREM OnlyAuthenticated == Spec => []AuthenticatedTraffic
  <1>1. ASSUME ConnSafe PROVE AuthenticatedTraffic
    <2> SUFFICES ASSUME Sound(conn, srv), NEW w \in conn.wire, w.space # "Initial"
                 PROVE  /\ Verify => srv.chain.trusted /\ srv.chain.serverAuth /\ (HostChecked => srv.chain.named)
                        /\ IsPrefix(<< "EE", "CERT", "CV", "FIN" >>, srv.order)
                        /\ Len(conn.tls.transcript) >= 6
                        /\ IsPrefix(conn.tls.transcript, Transcripts[srv][conn.hello])
      BY <1>1 DEF ConnSafe, AuthenticatedTraffic, NoConn
    <2> DEFINE tr == Transcripts[srv][conn.hello]
               L == Len(srv.order)
               flight == << "EE", "CERT", "CV", "FIN" >>
    <2>1. WriteKeys(conn)
      BY DEF Sound, Guarded
    <2>2. Underway(conn, srv) /\ conn.hello \in 1..2
      BY <2>1 DEF Sound, Shaken, Begun
    <2>3. PICK k : Heard(conn, srv, k) /\ k >= 4
      BY <2>1, <2>2 DEF Underway
    <2>4. srv \in Servers
      BY <1>1 DEF ConnSafe
    <2>5. tr \in Seq(ToSet(tr)) /\ L \in Nat /\ Len(tr) = L + 2
      <3>1. ASSUME NEW h \in 1..2
            PROVE  /\ Transcripts[srv][h] \in Seq(ToSet(Transcripts[srv][h]))
                   /\ L \in Nat /\ Len(Transcripts[srv][h]) = L + 2
        BY <2>4, TranscriptFacts
      <3> QED BY <2>2, <3>1
    <2>6. /\ k \in 0..L /\ conn.tls.transcript = SubSeq(tr, 1, k + 2)
          /\ \A i \in 1..k : srv.order[i] = Expected(i - 1)
          /\ validate_certificate(srv.chain)
      BY <2>3, <2>5 DEF Heard
    <2>7. Verify => srv.chain.trusted /\ srv.chain.serverAuth /\ (HostChecked => srv.chain.named)
      BY <2>6 DEF validate_certificate
    <2> HIDE DEF tr, L
    <2>8. k + 2 \in Nat /\ k + 2 <= Len(tr) /\ k + 2 >= 6 /\ k \in Nat /\ 4 <= L
      BY <2>3, <2>5, <2>6
    <2>9. Len(conn.tls.transcript) = k + 2 /\ IsPrefix(conn.tls.transcript, tr)
      BY <2>5, <2>6, <2>8, PrefixIsPrefix
    <2>10. IsPrefix(flight, srv.order)
      <3>1. srv.order \in Seq({"EE", "CERT", "CV", "FIN"})
        BY <2>4, ServersAssumption
      <3>2. /\ srv.order[1] = "EE" /\ srv.order[2] = "CERT" /\ srv.order[3] = "CV" /\ srv.order[4] = "FIN"
        <4>1. 1 \in 1..k /\ 2 \in 1..k /\ 3 \in 1..k /\ 4 \in 1..k  BY <2>3, <2>8
        <4>2. srv.order[1] = Expected(1 - 1) /\ srv.order[2] = Expected(2 - 1)
              /\ srv.order[3] = Expected(3 - 1) /\ srv.order[4] = Expected(4 - 1)
          BY <2>6, <4>1
        <4> QED BY <4>2 DEF Expected
      <3>3. Len(flight) = 4 /\ flight \in Seq({"EE", "CERT", "CV", "FIN"})
            /\ flight[1] = "EE" /\ flight[2] = "CERT" /\ flight[3] = "CV" /\ flight[4] = "FIN"
        OBVIOUS
      <3>4. 4 <= Len(srv.order)  BY <2>8 DEF L
      <3> HIDE DEF flight
      <3>5. \A i \in 1..Len(flight) : flight[i] = srv.order[0 + i] /\ 0 + i <= Len(srv.order)
        <4>1. TAKE i \in 1..Len(flight)
        <4>2. i \in {1, 2, 3, 4} /\ 0 + i = i  BY <3>3
        <4>3. i <= Len(srv.order)  BY <3>1, <3>4, <4>2
        <4> QED BY <3>2, <3>3, <4>2, <4>3
      <3> DEFINE X == {"EE", "CERT", "CV", "FIN"}
      <3> HIDE DEF X
      <3>6. flight \in Seq(X) /\ srv.order \in Seq(X)  BY <3>1, <3>3 DEF X
      <3> QED BY <3>3, <3>4, <3>5, <3>6, MatchIsPrefix
    <2> QED BY <2>7, <2>8, <2>9, <2>10 DEF tr
  <1> QED BY <1>1, ConnSafeInvariant, PTL

=============================================================================
