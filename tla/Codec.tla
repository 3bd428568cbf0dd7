------------------------------- MODULE Codec -------------------------------
(* One exchange on the wire: a query is built and serialised, the server     *)
(* parses it, answers it within the transport's limit and serialises the    *)
(* response, the asker parses that and keeps what it read.  The network may  *)
(* hurt one message of the exchange: an octet changed, or the end cut off.   *)
EXTENDS Message

CONSTANTS
    Queries,        \* the messages an asker may send
    Resolutions,    \* what resolving may yield, or an rcode in its place
    Anchored,       \* dnssec_anchored: validation starts at a configured anchor
    FrameWrap,      \* 2^16: what the length prefix of a TCP frame counts modulo
    Fragile,        \* bound: the IDs of the exchanges the network may damage
    Faults          \* bound: the octets a damaged message may get

(* What the code's types say of the data: a query has a question section and *)
(* an EDNS record (build_query, encode_query); a record has the fields its    *)
(* type is written with, and each of them octets to write or a name.          *)
Octets == Seq(Nat)
DomainName == Seq(Octets)
WireQuestion == [name : DomainName, type : Nat, class : Nat]
WireEdns == [size : Nat, ext : Nat, version : Nat, dnssec : BOOLEAN,
             options : Seq([code : Nat, data : Octets])]
WireQuery(q) ==
    q \in [id : Nat, flags : {q.flags}, questions : Seq(WireQuestion), answers : {<<>>},
           authorities : {<<>>}, additionals : {<<>>}, edns : Seq(WireEdns)]
Field(kind, v) == IF kind = "name~" THEN v \in DomainName ELSE field_octets(kind, v) \in Octets
WireRecord(r) ==
    /\ r \in [name : DomainName, type : Nat, class : Nat, ttl : Octets, rdata : {r.rdata}]
    /\ LET kinds == Written[Type(r.type)]
       IN  Len(kinds) \in Nat /\ \A i \in 1 .. Len(kinds) : Field(kinds[i], r.rdata[i])
WireSection(recs) ==
    recs \in Seq(ToSet(recs)) /\ \A i \in 1 .. Len(recs) : WireRecord(recs[i])

ASSUME WireAssumption ==
    /\ MaxRdLen \in Nat /\ FrameWrap \in Nat \ {0}
    /\ MinUdp \in Nat /\ MinUdp >= 11      \* an OPT record without options fits
    /\ Faults \subseteq Nat
    /\ \A q \in Queries : WireQuery(q) /\ {q.flags.opcode, q.flags.rcode} \subseteq Nat
    /\ \A res \in Resolutions :
           /\ res.rcode \in Nat
           /\ ~res.failed => /\ res.ttl \in Octets
                             /\ WireSection(res.answers) /\ WireSection(res.rrsigs)
                             /\ WireSection(res.authorities)

VARIABLES
    phase,          \* "idle", "query", "reply", "read" or "kept"
    sent,           \* the query as built
    parsed,         \* what the server parsed of it
    arrived,        \* the octets the server received
    room,           \* the UDP limit of the answer, or TCP
    full,           \* the response before truncation
    cut,            \* the response as serialised
    more,           \* whether one record more than was kept would have fitted
    wire,           \* the octets in flight
    hurt,           \* which message was damaged
    heard,          \* what the asker parsed of the response
    again           \* what it parses once more from its own serialisation

wireVars == <<phase, sent, parsed, arrived, room, full, cut, more, wire, hurt, heard, again>>

TCP == -1
NoMessage == NewMessage(0)
Rcode == [FORMERR |-> 1, SERVFAIL |-> 2, NXDOMAIN |-> 3, REFUSED |-> 5]

WireInit ==
    /\ phase = "idle" /\ hurt = "none" /\ wire = <<>> /\ arrived = <<>>
    /\ sent = NoMessage /\ full = NoMessage /\ cut = NoMessage
    /\ parsed = Err /\ heard = Err /\ again = Err
    /\ room = TCP /\ more = FALSE

(* build_query / encode_query: the name may carry any letter case.           *)
SendQuery(q) ==
    /\ phase = "idle"
    /\ sent' = q
    /\ wire' = to_bytes(q).out
    /\ phase' = "query"
    /\ UNCHANGED <<parsed, arrived, room, full, cut, more, hurt, heard, again>>

(* External: the network changes one octet or loses the end of one message.  *)
Damage ==
    /\ phase \in {"query", "reply"} /\ hurt = "none" /\ sent.id \in Fragile
    /\ \/ \E i \in DOMAIN wire, o \in Faults : wire' = [wire EXCEPT ![i] = o]
       \/ \E n \in 0 .. Len(wire) - 1 : wire' = SubSeq(wire, 1, n)
    /\ wire' # wire
    /\ hurt' = phase
    /\ UNCHANGED <<phase, sent, parsed, arrived, room, full, cut, more, heard, again>>

(* PolicyEngine::validate_query under the default policy.                    *)
ZoneTransfers == {251, 252}
validate_query(m) ==
    /\ m.flags.opcode = 0
    /\ Len(m.questions) = 1
    /\ Len(m.questions[1].name) <= 127
    /\ m.questions[1].type \notin ZoneTransfers

(* Resolver::build_response: every record gets the resolution's TTL, the     *)
(* signatures only go to a client that asked for them.                         *)
build_response(query, res) ==
    LET dnssec == query.edns # <<>> /\ query.edns[1].dnssec
        aged(recs) == [i \in DOMAIN recs |-> [recs[i] EXCEPT !.ttl = res.ttl]]
    IN  [NewMessage(query.id) EXCEPT
            !.flags = [DefaultFlags EXCEPT !.qr = TRUE, !.rd = query.flags.rd, !.ra = TRUE,
                !.ad = res.validated /\ Anchored /\ (dnssec \/ query.flags.ad),
                !.cd = query.flags.cd, !.rcode = res.rcode],
            !.questions = query.questions,
            !.answers = aged(res.answers) \o (IF dnssec THEN aged(res.rrsigs) ELSE <<>>),
            !.authorities = aged(res.authorities),
            !.edns = IF query.edns = <<>> THEN <<>>
                     ELSE <<[NewEdns(IF query.edns[1].size < MinUdp THEN MinUdp
                                     ELSE query.edns[1].size)
                             EXCEPT !.dnssec = query.edns[1].dnssec]>>]

(* Resolver::handle_query, with the outcome of resolving chosen.             *)
handle_query(query, outcome) ==
    IF ~validate_query(query) THEN error_response(query, Rcode.FORMERR)
    ELSE IF outcome.failed THEN error_response(query, outcome.rcode)
    ELSE build_response(query, outcome)

(* The answer to octets that do not parse echoes their ID and RD bit.        *)
formerr(octs) ==
    [NewMessage(IF Len(octs) >= 2 THEN u16_at(octs, 0) ELSE 0) EXCEPT
        !.flags = [@ EXCEPT !.qr = TRUE, !.ra = TRUE, !.rcode = Rcode.FORMERR,
                            !.rd = Len(octs) >= 3 /\ octs[3] % 2 = 1]]

udp_limit(query) == IF query.ok /\ query.value.edns # <<>> THEN query.value.edns[1].size
                    ELSE MinUdp

(* server.rs answer(), over UDP with the client's limit or over TCP whole; a *)
(* response that cannot be serialised is replaced by SERVFAIL.               *)
transmitted(query, whole, short, w) ==
    LET failure == error_response(query.value, Rcode.SERVFAIL)
    IN  [full |-> whole, cut |-> IF w.ok THEN short ELSE failure,
         out |-> IF w.ok THEN w.out ELSE to_bytes(failure).out,
         more |-> fits(to_bytes(keep(whole, Len(sections(short)) + 1)),
                       udp_bound(udp_limit(query)))]
shortened(query, whole, short) == transmitted(query, whole, short, to_bytes(short))
answer(query, whole, udp) ==
    shortened(query, whole, IF udp /\ query.ok THEN truncate_for_udp(whole, udp_limit(query))
                            ELSE whole)

\* A TCP frame: the reader takes as many octets as the 16-bit length prefix says.
framed(out) == SubSeq(out, 1, Len(out) % FrameWrap)

Respond(query, a, udp) ==
    /\ parsed' = query
    /\ arrived' = wire
    /\ room' = IF udp THEN udp_limit(query) ELSE TCP
    /\ full' = a.full /\ cut' = a.cut /\ more' = a.more
    /\ wire' = IF udp THEN a.out ELSE framed(a.out)
Handle(query, outcome, udp) ==
    LET whole == IF query.ok THEN handle_query(query.value, outcome) ELSE formerr(wire)
    IN  Respond(query, answer(query, whole, udp), udp)
Answer(outcome, udp) ==
    /\ phase = "query"
    /\ Handle(parse_message(wire), outcome, udp)
    /\ phase' = "reply"
    /\ UNCHANGED <<sent, hurt, heard, again>>

(* The asker parses the response ...                                         *)
Read ==
    /\ phase = "reply"
    /\ heard' = parse_message(wire)
    /\ phase' = "read"
    /\ UNCHANGED <<sent, parsed, arrived, room, full, cut, more, wire, hurt, again>>

(* ... and serialises what it read for its own clients, who parse it again.  *)
Serve ==
    /\ phase = "read" /\ heard.ok
    /\ LET w == to_bytes(heard.value) IN again' = IF w.ok THEN parse_message(w.out) ELSE Err
    /\ phase' = "kept"
    /\ UNCHANGED <<sent, parsed, arrived, room, full, cut, more, wire, hurt, heard>>

(* The exchange is over; the next one starts afresh.                         *)
Settle ==
    /\ phase = "kept" \/ (phase = "read" /\ ~heard.ok)
    /\ phase' = "idle" /\ hurt' = "none" /\ wire' = <<>> /\ arrived' = <<>>
    /\ sent' = NoMessage /\ full' = NoMessage /\ cut' = NoMessage
    /\ parsed' = Err /\ heard' = Err /\ again' = Err
    /\ room' = TCP /\ more' = FALSE

WireNext ==
    \/ \E q \in Queries : SendQuery(q)
    \/ Damage
    \/ \E outcome \in Resolutions, udp \in BOOLEAN : Answer(outcome, udp)
    \/ Read
    \/ Serve
    \/ Settle

WireSpec == WireInit /\ [][WireNext]_wireVars

-----------------------------------------------------------------------------
(* What the two encoders normalise: letter case in names, the order of a     *)
(* type bitmap, the octets of padding.                                       *)
Bitmap(type, k) == Written[Type(type)][k] = "types"
NormalRecord(r) ==
    [r EXCEPT !.rdata = [k \in DOMAIN @ |->
        IF Bitmap(r.type, k) THEN SetToSortSeq(ToSet(@[k]), <) ELSE @[k]]]
NormalSection(recs) == [i \in DOMAIN recs |-> NormalRecord(recs[i])]
NormalOption(o) == IF o.code = PADDING THEN [o EXCEPT !.data = <<0>>] ELSE o
NormalEdns(e) == [e EXCEPT !.options = [i \in DOMAIN @ |-> NormalOption(@[i])]]
Normal(m) ==
    [m EXCEPT !.questions = [i \in DOMAIN @ |-> [@[i] EXCEPT !.name = canonical(@)]],
              !.answers = NormalSection(@), !.authorities = NormalSection(@),
              !.additionals = NormalSection(@),
              !.edns = [i \in DOMAIN @ |-> NormalEdns(@[i])]]

\* The response in flight, short enough for its transport's length field.
Framed == room = TCP => Len(to_bytes(cut).out) < FrameWrap

\* What a message says is what its reader reads: a query reaches the server
\* with its names in lower case, its type bitmaps in order and each Padding
\* option at the writer's length, and otherwise unchanged; a response that a
\* frame can hold reaches its asker unchanged, whatever names the compressor
\* shared between its records; the names asked for survive their presentation
\* form and are one cache identity in any letter case; the asker knows the
\* response for the one to its query; and what a reader accepted, of a damaged
\* message too, and can serialise, its own client accepts with the same
\* content but for those three.
RoundTrip ==
    /\ phase = "reply" /\ hurt # "query" => parsed.ok /\ parsed.value = Normal(sent)
    /\ phase = "reply" /\ parsed.ok => \A q \in ToSet(parsed.value.questions) :
           from_ascii(to_ascii(q.name)) = [ok |-> TRUE, name |-> q.name]
    /\ phase = "reply" /\ hurt = "none" /\ sent.questions # <<>> =>
           query_key(parsed.value).name = canonical(sent.questions[1].name)
    /\ phase = "read" /\ hurt # "reply" /\ Framed => heard.ok /\ heard.value = cut
    /\ phase = "read" /\ hurt = "none" /\ Framed /\ sent.questions # <<>> =>
           response_matches_query(sent, heard.value)
    /\ phase = "kept" /\ to_bytes(heard.value).ok => again.ok /\ again.value = Normal(heard.value)

\* Truncation drops the least: the question and the OPT record stay, the
\* records kept are the first ones, they fit the client's limit beside the OPT
\* record, and the next one would not have.
TruncationTight ==
    phase = "reply" /\ room \in Nat /\ hurt # "reply" =>
        LET bound == udp_bound(room)
            kept == sections(cut)
        IN  /\ cut.questions = full.questions /\ cut.edns = full.edns
            /\ IsPrefix(kept, sections(full))
            /\ kept # <<>> => Len(wire) <= bound
            /\ kept # sections(full) => cut.flags.tc /\ ~more

=============================================================================
