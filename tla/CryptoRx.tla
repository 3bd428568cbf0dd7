------------------------------ MODULE CryptoRx ------------------------------
(***************************************************************************)
(* Reassembly of one CRYPTO stream (struct CryptoRx of                     *)
(* src/transports/doq/quic.rs).  The stream is a sequence of units; a unit *)
(* knows the message it belongs to, its place in it and the message's      *)
(* length, which is what the four-octet header gives the code.  `buf`      *)
(* holds the unread units from the absolute offset `start` on, `pending`   *)
(* the chunks that arrived past a gap.                                     *)
(***************************************************************************)
EXTENDS Naturals, Sequences, SequencesExt, FiniteSetsExt, Functions

CONSTANT MaxCryptoBuffer  \* MAX_CRYPTO_BUFFER

EmptyRx == [buf |-> << >>, start |-> 0, pending |-> << >>]

ContiguousEnd(rx) == rx.start + Len(rx.buf)

buffered(rx) ==
    Len(rx.buf) + FoldSet(LAMBDA off, n : n + Len(rx.pending[off]), 0, DOMAIN rx.pending)

\* The units of a chunk that lie past what is already contiguous.
Fresh(rx, off, data) == SubSeq(data, ContiguousEnd(rx) - off + 1, Len(data))

\* A chunk past a gap is kept, unless one that starts there already is.
Postponed(pending, off, data) ==
    [o \in DOMAIN pending \cup {off} |-> IF o \in DOMAIN pending THEN pending[o] ELSE data]

\* The pending chunks that do not start past the contiguous end, the lowest of
\* which is absorbed.
Absorbable(rx) == {off \in DOMAIN rx.pending : off <= ContiguousEnd(rx)}

Absorb(rx) ==
    LET off == Min(Absorbable(rx))
    IN  [rx EXCEPT !.buf = @ \o Fresh(rx, off, rx.pending[off]),
                   !.pending = Restrict(@, DOMAIN @ \ {off})]

\* drain_pending: chunks are absorbed until none can be.
drain_pending(rx) ==
    LET r[i \in 0..Cardinality(DOMAIN rx.pending)] ==
            IF i = 0 THEN rx
            ELSE IF Absorbable(r[i - 1]) = {} THEN r[i - 1] ELSE Absorb(r[i - 1])
    IN  r[Cardinality(DOMAIN rx.pending)]

\* Fault: the buffer is taken to start at stream offset zero after a pop.
InsertAtZero(rx, off, data) ==
    IF off > Len(rx.buf)
    THEN [rx EXCEPT !.pending = Postponed(@, off, data)]
    ELSE drain_pending([rx EXCEPT !.buf = @ \o SubSeq(data, Len(rx.buf) - off + 1, Len(data))])

Overflows(rx, data) == buffered(rx) + Len(data) > MaxCryptoBuffer

\* insert, for a chunk that does not overflow the buffer.
insert(rx, off, data) ==
    IF off + Len(data) <= rx.start THEN rx
    ELSE IF off > ContiguousEnd(rx)
    THEN [rx EXCEPT !.pending = Postponed(@, off, data)]
    ELSE drain_pending([rx EXCEPT !.buf = @ \o Fresh(rx, off, data)])

\* pop_message returns a message only when all of it is contiguous.
HasMessage(rx) == rx.buf # << >> /\ Len(rx.buf) >= rx.buf[1].length
TopMessage(rx) == rx.buf[1].msg
pop_message(rx) ==
    LET take == rx.buf[1].length
    IN  drain_pending([rx EXCEPT !.buf = SubSeq(@, take + 1, Len(@)), !.start = @ + take])

=============================================================================
