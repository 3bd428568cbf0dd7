------------------------------- MODULE RData -------------------------------
(* Resource records of rdata.rs.  The payload of a record is the sequence of *)
(* its fields, and each direction of the codec is a table: the fields        *)
(* RData::parse reads for a type, and the fields RData::to_wire writes for   *)
(* it.  The two tables are transcribed from the two match statements of the  *)
(* code, which nothing but a round trip ties together.                       *)
EXTENDS Names

CONSTANT MaxRdLen       \* u16::MAX, what RDLENGTH can say

(* The registry codes of the types the codec treats apart.                   *)
RrType == [A |-> 1, NS |-> 2, CNAME |-> 5, SOA |-> 6, PTR |-> 12, MX |-> 15,
    TXT |-> 16, SIG |-> 24, AAAA |-> 28, SRV |-> 33, NAPTR |-> 35, DNAME |-> 39,
    OPT |-> 41, DS |-> 43, RRSIG |-> 46, NSEC |-> 47, DNSKEY |-> 48, NSEC3 |-> 50,
    NSEC3PARAM |-> 51, TLSA |-> 52, SMIMEA |-> 53, CDS |-> 59, CDNSKEY |-> 60,
    SVCB |-> 64, HTTPS |-> 65, CAA |-> 257]
Type(code) == IF \E t \in DOMAIN RrType : RrType[t] = code
              THEN CHOOSE t \in DOMAIN RrType : RrType[t] = code ELSE "Unknown"

-----------------------------------------------------------------------------
(* What RData::parse reads, in order: integers and addresses of a fixed width *)
(* "name" a possibly compressed name inside the record, "name!" one that must *)
(* end it, "string" a length octet and its octets, "strings" those up to the *)
(* end, "types" a type bitmap, "params" service parameters, "tail" the rest. *)
Width == [u8 |-> 1, u16 |-> 2, u32 |-> 4, ip4 |-> 4, ip6 |-> 16]
ParsedHosts == [A |-> <<"ip4">>, AAAA |-> <<"ip6">>, CNAME |-> <<"name!">>,
    DNAME |-> <<"name!">>, NS |-> <<"name!">>, PTR |-> <<"name!">>,
    MX |-> <<"u16", "name!">>, SOA |-> <<"name", "name", "u32", "u32", "u32", "u32", "u32">>,
    TXT |-> <<"strings">>]
ParsedServices == [SRV |-> <<"u16", "u16", "u16", "name!">>,
    NAPTR |-> <<"u16", "u16", "string", "string", "string", "name!">>]
ParsedKeys == LET ds == <<"u16", "u8", "u8", "tail">>
                  sig == <<"u16", "u8", "u8", "u32", "u32", "u32", "u16", "name", "tail">>
    IN  [DS |-> ds, CDS |-> ds, DNSKEY |-> ds, CDNSKEY |-> ds, RRSIG |-> sig, SIG |-> sig]
ParsedDenial == [NSEC |-> <<"name", "types">>,
    NSEC3 |-> <<"u8", "u8", "u16", "string", "string", "types">>,
    NSEC3PARAM |-> <<"u8", "u8", "u16", "string">>]
ParsedBindings == LET cert == <<"u8", "u8", "u8", "tail">>
                      svc == <<"u16", "name", "params">>
    IN  [CAA |-> <<"u8", "string", "tail">>, TLSA |-> cert, SMIMEA |-> cert,
         SVCB |-> svc, HTTPS |-> svc, Unknown |-> <<"tail">>]
Parsed == ParsedHosts @@ ParsedServices @@ ParsedKeys @@ ParsedDenial
              @@ ParsedBindings @@ [OPT |-> <<"tail">>]

(* What RData::to_wire writes: "name~" may be compressed, "name" never is.   *)
WrittenHosts == [A |-> <<"ip4">>, AAAA |-> <<"ip6">>, CNAME |-> <<"name~">>,
    DNAME |-> <<"name~">>, NS |-> <<"name~">>, PTR |-> <<"name~">>,
    MX |-> <<"u16", "name~">>, SOA |-> <<"name~", "name~", "u32", "u32", "u32", "u32", "u32">>,
    TXT |-> <<"strings">>]
WrittenServices == [SRV |-> <<"u16", "u16", "u16", "name">>,
    NAPTR |-> <<"u16", "u16", "string", "string", "string", "name">>]
WrittenKeys == LET ds == <<"u16", "u8", "u8", "tail">>
                   sig == <<"u16", "u8", "u8", "u32", "u32", "u32", "u16", "name", "tail">>
    IN  [DS |-> ds, CDS |-> ds, DNSKEY |-> ds, CDNSKEY |-> ds, RRSIG |-> sig, SIG |-> sig]
WrittenDenial == [NSEC |-> <<"name", "types">>,
    NSEC3 |-> <<"u8", "u8", "u16", "string", "string", "types">>,
    NSEC3PARAM |-> <<"u8", "u8", "u16", "string">>]
WrittenBindings == LET cert == <<"u8", "u8", "u8", "tail">>
                       svc == <<"u16", "name", "params">>
    IN  [CAA |-> <<"u8", "string", "tail">>, TLSA |-> cert, SMIMEA |-> cert,
         SVCB |-> svc, HTTPS |-> svc, Unknown |-> <<"tail">>]
Written == WrittenHosts @@ WrittenServices @@ WrittenKeys @@ WrittenDenial
               @@ WrittenBindings @@ [OPT |-> <<"tail">>]

-----------------------------------------------------------------------------
(* Reading one field between p and the end of the record: Got(value, next)   *)
(* or Err.  Only a name may look outside the record, through a pointer; its  *)
(* own octets may not.                                                       *)
Got(v, next) == [ok |-> TRUE, value |-> v, next |-> next]

\* One more item behind those already read.
joined(got, item) == IF ~item.ok THEN Err ELSE Got(Append(got.value, item.value), item.next)

octets(buf, p, end, n) == IF p + n > end THEN Err ELSE Got(slice(buf, p, p + n), p + n)

within(n, end) == IF ~n.ok THEN Err ELSE IF n.end > end THEN Err ELSE Got(n.name, n.end)
read_name(buf, p, end) == within(from_wire(buf, p), end)

exactly(n, end) == IF ~n.ok THEN Err ELSE IF n.next # end THEN Err ELSE n
name_exact(buf, p, end) == exactly(read_name(buf, p, end), end)

read_char_string(buf, p, end) ==
    IF p >= end THEN Err ELSE octets(buf, p + 1, end, byte_at(buf, p))

read_param(buf, p, end) ==
    IF p + 4 > end THEN Err
    ELSE LET v == octets(buf, p + 4, end, u16_at(buf, p + 2))
         IN  IF ~v.ok THEN Err ELSE Got(<<u16_at(buf, p), v.value>>, v.next)

Bit(octet, b) == (octet \div 2 ^ (7 - b)) % 2 = 1

(* One window of a type bitmap, as the types it lists in ascending order.    *)
read_window(buf, p, end) ==
    LET len == byte_at(buf, p + 1)
        listed == {256 * byte_at(buf, p) + 8 * x[1] + x[2] :
                     x \in {y \in (0 .. len - 1) \X (0 .. 7) :
                               Bit(byte_at(buf, p + 2 + y[1]), y[2])}}
    IN  IF p + 2 > end \/ len \notin 1 .. 32 \/ p + 2 + len > end THEN Err
        ELSE Got(SetToSortSeq(listed, <), p + 2 + len)

(* The items of a list, read up to the end of the record.                    *)
read_item(list, buf, p, end) ==
    CASE list = "strings" -> read_char_string(buf, p, end)
      [] list = "params"  -> read_param(buf, p, end)
      [] list = "types"   -> read_window(buf, p, end)

list_step(list, buf, got, end) ==
    IF ~got.ok THEN Err
    ELSE IF got.next >= end THEN got
    ELSE joined(got, read_item(list, buf, got.next, end))

\* An item takes one octet at least.
read_list(list, buf, p, end) ==
    LET after[i \in 0 .. end - p] ==
            IF i = 0 THEN Got(<<>>, p) ELSE list_step(list, buf, after[i - 1], end)
    IN  after[end - p]

flattened(w) == IF ~w.ok THEN Err ELSE Got(FlattenSeq(w.value), w.next)
parse_type_bitmap(buf, p, end) == flattened(read_list("types", buf, p, end))

read_field(kind, buf, p, end) ==
    IF kind \in DOMAIN Width THEN octets(buf, p, end, Width[kind])
    ELSE CASE kind = "name"    -> read_name(buf, p, end)
           [] kind = "name!"   -> name_exact(buf, p, end)
           [] kind = "string"  -> read_char_string(buf, p, end)
           [] kind \in {"strings", "params"} -> read_list(kind, buf, p, end)
           [] kind = "types"   -> parse_type_bitmap(buf, p, end)
           [] kind = "tail"    -> octets(buf, p, end, end - p)

(* RData::parse *)
parse_rdata(buf, p, end, type) ==
    FoldLeft(LAMBDA got, kind :
                 IF ~got.ok THEN Err ELSE joined(got, read_field(kind, buf, got.next, end)),
             IF end > Len(buf) THEN Err ELSE Got(<<>>, p), Parsed[Type(type)])

(* Record::parse: the record ends where RDLENGTH says, whatever its payload  *)
(* consumed.                                                                 *)
owned(buf, name, p, end, d) ==
    IF ~d.ok THEN Err
    ELSE Got([name |-> name, type |-> u16_at(buf, p), class |-> u16_at(buf, p + 2),
              ttl |-> slice(buf, p + 4, p + 8), rdata |-> d.value], end)
after_owner(buf, n) ==
    LET end == n.end + 10 + u16_at(buf, n.end + 8)
    IN  IF ~n.ok THEN Err
        ELSE IF n.end + 10 > Len(buf) THEN Err
        ELSE IF end > Len(buf) THEN Err
        ELSE owned(buf, n.name, n.end, end,
                   parse_rdata(buf, n.end + 10, end, u16_at(buf, n.end)))
parse_record(buf, pos) == after_owner(buf, from_wire(buf, pos))

-----------------------------------------------------------------------------
(* A writer w carries the octets written and the compressor's table; without *)
(* a compressor (compress = FALSE) every name is written out.                *)
put(w, bytes) == [w EXCEPT !.out = @ \o bytes]
char_string(s) == LET kept == capped(s, 255) IN <<Len(kept)>> \o kept
param(kv) == u16(kv[1]) \o u16(Len(kv[2])) \o kv[2]

(* write_type_bitmap: ascending windows, each cut after its last used octet. *)
write_window(types, window) ==
    LET mine == {t % 256 : t \in {x \in types : x \div 256 = window}}
        used == Max(mine) \div 8 + 1
        octet(i) == SumSet({2 ^ (7 - (t % 8)) : t \in {x \in mine : x \div 8 = i}})
    IN  <<window, used>> \o [i \in 1 .. used |-> octet(i - 1)]

write_type_bitmap(types) ==
    LET all == ToSet(types)
        windows == SetToSortSeq({t \div 256 : t \in all}, <)
    IN  FlattenSeq([i \in DOMAIN windows |-> write_window(all, windows[i])])

(* The octets of a field that is written without the compressor.             *)
field_octets(kind, v) ==
    IF kind \in DOMAIN Width \union {"tail"} THEN v
    ELSE CASE kind \in {"name", "name~"} -> as_bytes(v)
           [] kind = "string"  -> char_string(v)
           [] kind = "strings" -> FlattenSeq([i \in DOMAIN v |-> char_string(v[i])])
           [] kind = "params"  -> FlattenSeq([i \in DOMAIN v |-> param(v[i])])
           [] kind = "types"   -> write_type_bitmap(v)

write_field(w, kind, v) ==
    IF kind = "name~" /\ w.compress THEN write_name(w, v) ELSE put(w, field_octets(kind, v))

(* RData::to_wire: the fields of the type, each behind the one before.       *)
rdata_to_wire(w, type, fields) ==
    LET kinds == Written[Type(type)]
        after[i \in 0 .. Len(kinds)] ==
            IF i = 0 THEN w ELSE write_field(after[i - 1], kinds[i], fields[i])
    IN  after[Len(kinds)]

(* Record::to_wire: RDLENGTH is patched once the payload is written; a       *)
(* payload the field cannot express fails the write.                         *)
put_u16_at(out, at, n) == [out EXCEPT ![at + 1] = n \div 256, ![at + 2] = n % 256]
patched(w, at, body) ==
    LET rdlen == Len(body.out) - at - 2
    IN  IF ~w.ok \/ rdlen > MaxRdLen THEN [w EXCEPT !.ok = FALSE]
        ELSE [body EXCEPT !.out = put_u16_at(@, at, rdlen)]
with_payload(w, head, r) ==
    patched(w, Len(head.out), rdata_to_wire(put(head, <<0, 0>>), r.type, r.rdata))
record_to_wire(w, r) ==
    LET owner == IF w.compress THEN write_name(w, r.name) ELSE put(w, as_bytes(r.name))
    IN  with_payload(w, put(owner, u16(r.type) \o u16(r.class) \o r.ttl), r)
=============================================================================
