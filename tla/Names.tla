------------------------------- MODULE Names -------------------------------
(* Domain names of name.rs: the canonical form, the wire reader with its     *)
(* compression pointers, the presentation format and the compressor of the   *)
(* message writer.  A name is its sequence of labels, a label its octets;    *)
(* offsets count from zero as in the code.  The limits of RFC 1035 are       *)
(* parameters, so that a small instance reaches them.                        *)
EXTENDS Integers, Sequences, SequencesExt, FiniteSetsExt, TLC

CONSTANTS
    MaxNameLen,         \* MAX_NAME_LEN, 255 octets
    MaxLabels,          \* MAX_LABELS, 127
    MaxLabelLen,        \* 63, the longest label a length octet expresses
    MaxPointerOffset    \* MAX_POINTER_OFFSET, 0x3fff

ASSUME NameLimits ==
    /\ MaxNameLen \in Nat /\ MaxLabels \in Nat
    /\ MaxLabelLen \in 1 .. 63 /\ MaxPointerOffset \in 0 .. 16383

MaxPointerHops == MaxLabels + 1

Err == [ok |-> FALSE]
Dot == 46
Backslash == 92
Digit(o) == o \in 48 .. 57

(* make_ascii_lowercase, and the letters 0x20 randomisation may turn.        *)
Lower(octets) == [i \in DOMAIN octets |->
    IF octets[i] \in 65 .. 90 THEN octets[i] + 32 ELSE octets[i]]

\* WireBytes: every read is bounds-checked, none is clamped to a record.
byte_at(buf, p) == IF p < Len(buf) THEN buf[p + 1] ELSE -1
slice(buf, p, q) == SubSeq(buf, p + 1, q)
capped(bytes, n) == SubSeq(bytes, 1, IF n < 0 THEN 0 ELSE IF n < Len(bytes) THEN n ELSE Len(bytes))
u16(n) == <<n \div 256, n % 256>>
u16_at(buf, p) == buf[p + 1] * 256 + buf[p + 2]

-----------------------------------------------------------------------------
(* The canonical form.                                                       *)
root == <<>>
encoded(labels) == FlattenSeq([i \in DOMAIN labels |-> <<Len(labels[i])>> \o labels[i]])
as_bytes(n) == encoded(n) \o <<0>>
wire_len(n) == Len(as_bytes(n))
canonical(n) == [i \in DOMAIN n |-> Lower(n[i])]
suffix(n, i) == SubSeq(n, i, Len(n))
before(n, i) == encoded(SubSeq(n, 1, i - 1))     \* the octets before suffix i

-----------------------------------------------------------------------------
(* Name::from_wire.  `end` is fixed by the first pointer; a pointer may lead  *)
(* anywhere in the message, and only the hop count bounds a chain of them.   *)
label_step(buf, s) ==
    LET len == byte_at(buf, s.p)
        next == s.p + 1 + len
        off == (len % 64) * 256 + byte_at(buf, s.p + 1)
        failed == [s EXCEPT !.done = TRUE, !.ok = FALSE]
    IN  IF s.done THEN s
        ELSE IF len = 0 THEN
            IF Len(s.labels) >= MaxLabels THEN failed
            ELSE [s EXCEPT !.done = TRUE, !.end = IF s.jumped THEN @ ELSE s.p + 1]
        ELSE IF len \in 1 .. 63 THEN
            IF \/ len > MaxLabelLen \/ next > Len(buf)
               \/ s.total + 1 + len > MaxNameLen
               \/ Len(s.labels) >= MaxLabels
            THEN failed
            ELSE [s EXCEPT !.p = next, !.total = @ + 1 + len,
                           !.labels = Append(@, Lower(slice(buf, s.p + 1, next)))]
        ELSE IF \/ len < 192 \/ s.p + 1 >= Len(buf) \/ off >= Len(buf)
                \/ s.hops + 1 > MaxPointerHops
            THEN failed
        ELSE [s EXCEPT !.p = off, !.hops = @ + 1, !.jumped = TRUE,
                       !.end = IF s.jumped THEN @ ELSE s.p + 2]

(* A turn takes a label, follows a pointer or ends the loop.                 *)
walk_labels(buf, start) ==
    LET turns == MaxLabels + MaxPointerHops + 1
        after[i \in 0 .. turns] == IF i = 0 THEN start ELSE label_step(buf, after[i - 1])
    IN  after[turns]

named(s) == IF s.ok THEN [ok |-> TRUE, name |-> s.labels, end |-> s.end] ELSE Err
from_wire(buf, pos) == named(walk_labels(buf, [ok |-> TRUE, done |-> FALSE, p |-> pos,
    end |-> pos, jumped |-> FALSE, hops |-> 0, total |-> 1, labels |-> <<>>]))

-----------------------------------------------------------------------------
(* finish_label: the limits the presentation form is held to.                *)
finish_label(s) ==
    IF \/ Len(s.current) > MaxLabelLen
       \/ s.total + 1 + Len(s.current) > MaxNameLen
       \/ Len(s.labels) >= MaxLabels
    THEN Err
    ELSE [s EXCEPT !.total = @ + 1 + Len(s.current), !.current = <<>>,
                   !.labels = Append(@, s.current)]

(* A backslash takes the next octet literally, or three digits as one octet.  *)
escape(text) ==
    IF text = <<>> THEN Err
    ELSE IF ~Digit(text[1]) THEN [ok |-> TRUE, octet |-> text[1], used |-> 1]
    ELSE IF Len(text) < 3 \/ ~Digit(text[2]) \/ ~Digit(text[3]) THEN Err
    ELSE LET v == (text[1] - 48) * 100 + (text[2] - 48) * 10 + (text[3] - 48)
         IN  IF v > 255 THEN Err ELSE [ok |-> TRUE, octet |-> v, used |-> 3]

scan_step(text, s) ==
    LET o == text[s.p]
        e == escape(SubSeq(text, s.p + 1, Len(text)))
        take(octet, used) == [s EXCEPT !.current = Append(@, octet), !.p = @ + used]
    IN  IF ~s.ok THEN s
        ELSE IF s.p > Len(text) THEN s
        ELSE IF o = Backslash THEN (IF e.ok THEN take(e.octet, 1 + e.used) ELSE Err)
        ELSE IF o # Dot THEN take(o, 1)
        ELSE IF s.current # <<>> THEN finish_label([s EXCEPT !.p = @ + 1])
        ELSE IF s.p = Len(text) THEN [s EXCEPT !.p = @ + 1]
        ELSE Err

(* A turn takes one octet of the text at least.                              *)
scan_text(text, start) ==
    LET after[i \in 0 .. Len(text)] == IF i = 0 THEN start ELSE scan_step(text, after[i - 1])
        ended(s) == IF ~s.ok THEN Err ELSE IF s.current = <<>> THEN s ELSE finish_label(s)
    IN  ended(after[Len(text)])

(* Name::from_ascii: the running total starts at zero, so it does not count  *)
(* the root octet that the wire reader counts.                               *)
from_ascii(text) ==
    LET s == scan_text(text, [ok |-> TRUE, p |-> 1, total |-> 0, labels |-> <<>>,
                               current |-> <<>>])
    IN  IF s.ok THEN [ok |-> TRUE, name |-> canonical(s.labels)] ELSE Err

Escaped == {32, 34, 40, 41, 59, 64}
show_octet(o) ==
    IF o \in {Dot, Backslash} THEN <<Backslash, o>>
    ELSE IF o \in Escaped \/ o \notin 33 .. 126
         THEN <<Backslash, 48 + o \div 100, 48 + ((o \div 10) % 10), 48 + (o % 10)>>
    ELSE <<o>>

to_ascii(n) ==
    LET show(l) == FlattenSeq([i \in DOMAIN l |-> show_octet(l[i])])
    IN  IF n = root THEN <<Dot>>
        ELSE FlattenSeq([i \in DOMAIN n |->
                 IF i = 1 THEN show(n[i]) ELSE <<Dot>> \o show(n[i])])

-----------------------------------------------------------------------------
(* NameCompressor: the offset at which each non-root suffix was first        *)
(* written.  Writing points at the longest suffix already known.             *)
NoOffsets == [s \in {} |-> 0]

\* entry().or_insert: what is known stays.
known_or(offsets, new) == [s \in DOMAIN offsets \union DOMAIN new |->
    IF s \in DOMAIN offsets THEN offsets[s] ELSE new[s]]

\* Fault: every suffix recorded at the start of the name.
FaultRecord(offsets, base, n, upto) ==
    LET new == {i \in 1 .. upto : base <= MaxPointerOffset}
    IN  known_or(offsets, [s \in {suffix(n, i) : i \in new} |-> base])

record(offsets, base, n, upto) ==
    LET at(i) == base + Len(before(n, i))
        new == {i \in 1 .. upto : at(i) <= MaxPointerOffset}
    IN  known_or(offsets, [s \in {suffix(n, i) : i \in new} |->
                               at(CHOOSE i \in new : suffix(n, i) = s)])

write_name(w, n) ==
    LET known == {i \in 1 .. Len(n) : suffix(n, i) \in DOMAIN w.offsets}
    IN  IF known = {}
        THEN [w EXCEPT !.out = @ \o as_bytes(n),
                       !.offsets = record(@, Len(w.out), n, Len(n))]
        ELSE LET i == Min(known)
                 off == w.offsets[suffix(n, i)]
             IN  [w EXCEPT !.out = @ \o before(n, i) \o <<192 + off \div 256, off % 256>>,
                           !.offsets = record(@, Len(w.out), n, i - 1)]
=============================================================================
