------------------------------ MODULE Message ------------------------------
(* DNS messages of message.rs and their EDNS record of edns.rs: parsing,     *)
(* serialisation with one compressor per message, UDP truncation, and the    *)
(* responses built from a query.                                             *)
EXTENDS RData

CONSTANTS
    MaxQuestions,           \* MAX_QUESTIONS, 16
    MaxSectionRecords,      \* MAX_SECTION_RECORDS, 4096
    MinUdp                  \* the 512 octets no UDP limit goes below

-----------------------------------------------------------------------------
(* HeaderFlags: the flag bits, the opcode and the low four bits of the rcode. *)
FlagBit == [qr |-> 15, aa |-> 10, tc |-> 9, rd |-> 8, ra |-> 7, ad |-> 5, cd |-> 4]
DefaultFlags == [qr |-> FALSE, opcode |-> 0, aa |-> FALSE, tc |-> FALSE, rd |-> TRUE,
                 ra |-> FALSE, ad |-> FALSE, cd |-> FALSE, rcode |-> 0]

flags_to_u16(f) ==
    LET bit(set, weight) == IF set THEN weight ELSE 0
    IN  bit(f.qr, 32768) + (f.opcode % 16) * 2048 + bit(f.aa, 1024) + bit(f.tc, 512)
            + bit(f.rd, 256) + bit(f.ra, 128) + bit(f.ad, 32) + bit(f.cd, 16) + (f.rcode % 16)

flags_from_u16(v) ==
    [b \in DOMAIN DefaultFlags |->
        CASE b = "opcode" -> (v \div 2048) % 16
          [] b = "rcode"  -> v % 16
          [] OTHER        -> (v \div 2 ^ FlagBit[b]) % 2 = 1]

-----------------------------------------------------------------------------
(* EDNS options.  The typed options keep their octets, so the model keeps    *)
(* the data; only padding is reduced, to its length, and written as nothing. *)
ECS == 8
COOKIE == 10
KEEPALIVE == 11
PADDING == 12
KEY_TAG == 14
EDE == 15

Ceil8(bits) == (bits + 7) \div 8
MaxPrefix == <<32, 128>>

(* mask: the network bits of an address, in as few octets as hold them.      *)
mask(addr, prefix) ==
    LET n == Ceil8(prefix)
        unit == 2 ^ (8 - (prefix % 8))
    IN  [i \in 1 .. n |-> IF i = n /\ prefix % 8 # 0
                          THEN (addr[i] \div unit) * unit ELSE addr[i]]

(* Ecs::ipv4 and Ecs::ipv6, as option data.                                  *)
ecs_for(family, addr, prefix) == u16(family) \o <<prefix, 0>> \o mask(addr, prefix)

(* Ecs::parse: known family, prefixes in range, and the canonical address.   *)
ecs_ok(data) ==
    /\ Len(data) >= 4
    /\ data[1] = 0 /\ data[2] \in 1 .. 2
    /\ data[3] <= MaxPrefix[data[2]] /\ data[4] <= MaxPrefix[data[2]]
    /\ Len(data) = 4 + Ceil8(data[3])
    /\ data[3] % 8 # 0 => data[Len(data)] % 2 ^ (8 - (data[3] % 8)) = 0

option_ok(code, data) ==
    CASE code = ECS       -> ecs_ok(data)
      [] code = COOKIE    -> Len(data) >= 8
      [] code = KEEPALIVE -> Len(data) \in {0, 2}
      [] code = KEY_TAG   -> Len(data) % 2 = 0
      [] code = EDE       -> Len(data) >= 2
      [] OTHER            -> TRUE

read_option(buf, p, end) ==
    LET data == octets(buf, p + 4, end, u16_at(buf, p + 2))
        code == u16_at(buf, p)
    IN  IF p + 4 > end THEN Err
        ELSE IF ~data.ok THEN Err
        ELSE IF ~option_ok(code, data.value) THEN Err
        ELSE Got([code |-> code, data |-> IF code = PADDING THEN <<Len(data.value)>>
                                          ELSE data.value], data.next)

options_step(data, got) ==
    IF ~got.ok THEN Err
    ELSE IF got.next >= Len(data) THEN got
    ELSE joined(got, read_option(data, got.next, Len(data)))
parse_options(data) ==
    LET after[i \in 0 .. Len(data)] ==
            IF i = 0 THEN Got(<<>>, 0) ELSE options_step(data, after[i - 1])
    IN  after[Len(data)]

options_wire(options) ==
    FlattenSeq([i \in DOMAIN options |->
        LET data == IF options[i].code = PADDING THEN <<>> ELSE options[i].data
        IN  u16(options[i].code) \o u16(Len(data)) \o data])

NewEdns(size) == [size |-> size, ext |-> 0, version |-> 0, dnssec |-> FALSE, options |-> <<>>]

(* Edns::parse: the class is the payload size, the TTL the extended rcode,   *)
(* the version and the DO bit.                                               *)
parse_edns(rec) ==
    LET o == parse_options(rec.rdata[1])
    IN  IF ~o.ok THEN Err
        ELSE [ok |-> TRUE, value |-> [size |-> rec.class, ext |-> rec.ttl[1],
                version |-> rec.ttl[2], dnssec |-> rec.ttl[3] >= 128, options |-> o.value]]

(* Edns::ttl_field and the OPT record Message::to_bytes writes with it.      *)
opt_record(e) ==
    <<0>> \o u16(RrType.OPT) \o u16(e.size)
        \o <<e.ext, e.version, IF e.dnssec THEN 128 ELSE 0, 0>>
        \o u16(Len(options_wire(e.options))) \o options_wire(e.options)

-----------------------------------------------------------------------------
(* A message; its EDNS record is a sequence of at most one.                  *)
NewMessage(id) == [id |-> id, flags |-> DefaultFlags, questions |-> <<>>, answers |-> <<>>,
                   authorities |-> <<>>, additionals |-> <<>>, edns |-> <<>>]
sections(m) == m.answers \o m.authorities \o m.additionals

read_question(buf, pos) ==
    LET n == from_wire(buf, pos)
    IN  IF ~n.ok THEN Err
        ELSE IF n.end + 4 > Len(buf) THEN Err
        ELSE Got([name |-> n.name, type |-> u16_at(buf, n.end),
                  class |-> u16_at(buf, n.end + 2)], n.end + 4)

section_step(kind, buf, got) ==
    IF ~got.ok THEN Err
    ELSE joined(got, IF kind = 0 THEN read_question(buf, got.next)
                     ELSE parse_record(buf, got.next))
read_section(kind, buf, pos, n) ==
    LET after[i \in 0 .. n] ==
            IF i = 0 THEN Got(<<>>, pos) ELSE section_step(kind, buf, after[i - 1])
    IN  after[n]

(* Message::parse: the OPT record of the additional section becomes the EDNS *)
(* record, and a second one refuses the message.                             *)
OptOf(recs) == SelectSeq(recs, LAMBDA r : r.type = RrType.OPT)
OthersOf(recs) == SelectSeq(recs, LAMBDA r : r.type # RrType.OPT)
assembled(buf, got) ==
    LET opts == OptOf(got[4].value)
        e == parse_edns(opts[1])
    IN  IF ~got[4].ok THEN Err
        ELSE IF Len(opts) > 1 THEN Err
        ELSE IF opts # <<>> /\ ~e.ok THEN Err
        ELSE [ok |-> TRUE, value |->
                [id |-> u16_at(buf, 0), flags |-> flags_from_u16(u16_at(buf, 2)),
                 questions |-> got[1].value, answers |-> got[2].value,
                 authorities |-> got[3].value, additionals |-> OthersOf(got[4].value),
                 edns |-> IF opts = <<>> THEN <<>> ELSE <<e.value>>]]

count(buf, kind) == u16_at(buf, 4 + 2 * kind)
next_section(buf, got, kind) ==
    IF ~got.ok THEN Err ELSE read_section(kind, buf, got.next, count(buf, kind))
read_sections(buf) ==
    LET after[i \in 0 .. 4] ==
            IF i = 0 THEN Got(<<>>, 12) ELSE next_section(buf, after[i - 1], i - 1)
    IN  after
parse_message(buf) ==
    IF Len(buf) < 12 THEN Err
    ELSE IF \/ count(buf, 0) > MaxQuestions
            \/ \E kind \in 1 .. 3 : count(buf, kind) > MaxSectionRecords THEN Err
    ELSE assembled(buf, read_sections(buf))

(* The header and question section, as to_bytes and fit_sections begin.      *)
header(m) ==
    u16(m.id) \o u16(flags_to_u16(m.flags)) \o u16(Len(m.questions)) \o u16(Len(m.answers))
        \o u16(Len(m.authorities)) \o u16(Len(m.additionals) + Len(m.edns))
write_question(w, q) == put(write_name(w, q.name), u16(q.type) \o u16(q.class))
questions_to_wire(w, questions) ==
    LET after[i \in 0 .. Len(questions)] ==
            IF i = 0 THEN w ELSE write_question(after[i - 1], questions[i])
    IN  after[Len(questions)]
head_to_wire(m) ==
    questions_to_wire([out |-> header(m), offsets |-> NoOffsets, compress |-> TRUE, ok |-> TRUE],
                      m.questions)

(* Message::to_bytes: a writer, whose ok tells whether every record fitted.  *)
with_opt(w, edns) == IF edns = <<>> \/ ~w.ok THEN w ELSE put(w, opt_record(edns[1]))
records_to_wire(w, recs, n) ==
    LET after[i \in 0 .. n] == IF i = 0 THEN w ELSE record_to_wire(after[i - 1], recs[i])
    IN  after[n]
to_bytes(m) ==
    with_opt(records_to_wire(head_to_wire(m), sections(m), Len(sections(m))), m.edns)

(* Message::wire_len: a message that cannot be serialised is longer than any. *)
fits(w, limit) == w.ok /\ Len(w.out) <= limit

\* The records before the first that fails or leaves the budget.
counted(m, budget) ==
    LET recs == sections(m)
        over == {i \in 1 .. Len(recs) : ~fits(records_to_wire(head_to_wire(m), recs, i), budget)}
    IN  IF over = {} THEN Len(recs) ELSE Min(over) - 1

\* Fault: the OPT record's footprint is not reserved.
FaultFit(m, limit) == counted(m, limit)

(* fit_sections: how many records, in order, fit beside the OPT record.      *)
fit_sections(m, limit) ==
    LET opt == IF m.edns = <<>> THEN 0 ELSE Len(opt_record(m.edns[1]))
    IN  counted(m, IF limit < opt THEN 0 ELSE limit - opt)

keep(m, n) ==
    [m EXCEPT !.answers = capped(@, n), !.authorities = capped(@, n - Len(m.answers)),
              !.additionals = capped(@, n - Len(m.answers) - Len(m.authorities))]

udp_bound(asked) == IF asked < MinUdp THEN MinUdp ELSE asked
truncate_for_udp(m, asked) ==
    LET limit == udp_bound(asked)
        marked == [m EXCEPT !.flags.tc = TRUE]
    IN  IF fits(to_bytes(m), limit) THEN m ELSE keep(marked, fit_sections(marked, limit))

error_response(m, code) ==
    [NewMessage(m.id) EXCEPT
        !.flags = [@ EXCEPT !.qr = TRUE, !.rd = m.flags.rd, !.ra = TRUE, !.rcode = code],
        !.questions = m.questions,
        !.edns = IF m.edns = <<>> THEN <<>> ELSE <<NewEdns(m.edns[1].size)>>]

(* response_matches_query of query.rs: exact case first, then any case.      *)
response_matches_query(query, response) ==
    /\ query.id = response.id
    /\ query.questions # <<>> /\ response.questions # <<>>
    /\ LET q == query.questions[1]
           r == response.questions[1]
       IN  /\ r.type = q.type /\ r.class = q.class
           /\ canonical(r.name) = canonical(q.name)

(* EcsKey::from_ecs: family, prefix and network bits; a /0 is no partition.  *)
EcsKey(data) == IF data[3] = 0 THEN <<>>
                ELSE <<data[2], data[3]>> \o mask(SubSeq(data, 5, Len(data)), data[3])

(* QueryKey::from_message: the identity the cache and the in-flight table use *)
query_key(m) ==
    LET e == m.edns
        ecs == IF e = <<>> THEN <<>> ELSE SelectSeq(e[1].options, LAMBDA o : o.code = ECS)
    IN  [name |-> m.questions[1].name, type |-> m.questions[1].type,
         class |-> m.questions[1].class, cd |-> m.flags.cd,
         ecs |-> IF ecs = <<>> THEN <<>> ELSE EcsKey(ecs[1].data),
         want_dnssec |-> e # <<>> /\ e[1].dnssec]
=============================================================================
