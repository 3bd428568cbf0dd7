------------------------------ MODULE Routing ------------------------------
(* The configuration that decides where an answer comes from: the domain     *)
(* patterns of pattern.rs, the hosts table of hosts.rs, the rules and the    *)
(* answer gate of routing.rs, the blocks of cidr.rs and the reverse names of *)
(* resolver.rs.  A name is its sequence of labels; the text of a pattern is  *)
(* what splitting it at the dots gives, so "*.a.b" is <<"*", "a", "b">> and  *)
(* ".a" is <<"", "a">>.  is_subdomain_of compares octets in the code; here   *)
(* labels hold no length octets, so nesting is label-wise.                   *)
EXTENDS Naturals, Sequences, SequencesExt, FiniteSetsExt

Star == "*"
Bad == [kind |-> "Err"]

-----------------------------------------------------------------------------
\* trim_end_matches('.').
trimmed(parts) == SubSeq(parts, 1, Max({0} \union {i \in DOMAIN parts : parts[i] # ""}))

(* DomainPattern::parse.  A lone star is every name, a leading marker makes  *)
(* a subtree, a star further in a label-wise pattern.                        *)
parse(text) ==
    LET lead == Len(text) > 1 /\ text[1] \in {Star, "+", ""}
        parts == trimmed(IF lead THEN Tail(text) ELSE text)
    IN  CASE text = <<Star>> -> [kind |-> "Any"]
          [] text # <<Star>> /\ (parts = <<>> \/ Contains(parts, "")) -> Bad
          [] OTHER -> [kind |-> IF Contains(parts, Star) THEN "Wildcard"
                                ELSE IF lead THEN "Subtree" ELSE "Exact",
                       lead |-> lead, labels |-> parts]

(* WildcardPattern::matches: a leading star absorbs any number of labels.    *)
label_wise(p, n) ==
    LET skip == Len(n) - Len(p.labels)
    IN  /\ Len(n) >= Len(p.labels) /\ (p.lead \/ skip = 0)
        /\ \A i \in DOMAIN p.labels : p.labels[i] \in {Star, n[skip + i]}

matches(p, n) ==
    CASE p.kind = "Any" -> TRUE
      [] p.kind = "Exact" -> n = p.labels
      [] p.kind = "Subtree" -> IsSuffix(p.labels, n)
      [] p.kind = "Wildcard" -> label_wise(p, n)

\* A leading star counts as one label of a label-wise pattern.
label_count(p) ==
    CASE p.kind = "Any" -> 0
      [] p.kind = "Wildcard" -> Len(p.labels) + (IF p.lead THEN 1 ELSE 0)
      [] OTHER -> Len(p.labels)

\* push, then a stable sort_by_key(Reverse(rank)) of a sorted list.
placed(s, x) ==
    SelectSeq(s, LAMBDA y : y.rank >= x.rank) \o <<x>> \o SelectSeq(s, LAMBDA y : y.rank < x.rank)

-----------------------------------------------------------------------------
(* HostsTable: exact pins and pattern pins, the most labels first.           *)
NoHosts == [ok |-> TRUE, exact |-> <<>>, wildcard |-> <<>>]

\* The addresses of `new` that `old` does not have, appended.
merged(old, new) == FoldLeft(LAMBDA l, a : IF Contains(l, a) THEN l ELSE Append(l, a), old, new)

insert(t, text, addrs) ==
    LET p == parse(text)
        at == {i \in DOMAIN t.wildcard : t.wildcard[i].pat = p}
    IN  IF ~t.ok \/ p.kind \in {"Any", "Err"} \/ addrs = <<>> THEN [t EXCEPT !.ok = FALSE]
        ELSE IF p.kind = "Exact"
        THEN [t EXCEPT !.exact = [n \in DOMAIN @ \union {p.labels} |->
                 IF n # p.labels THEN @[n]
                 ELSE merged(IF n \in DOMAIN @ THEN @[n] ELSE <<>>, addrs)]]
        ELSE IF at # {}
        THEN [t EXCEPT !.wildcard[CHOOSE i \in at : TRUE].addrs = merged(@, addrs)]
        ELSE [t EXCEPT !.wildcard = placed(@, [pat |-> p, rank |-> label_count(p),
                                               addrs |-> merged(<<>>, addrs)])]

\* What is found, or nothing: a sequence of at most one list of addresses.
NoPin == <<>>
lookup(t, n) ==
    LET hits == {i \in DOMAIN t.wildcard : matches(t.wildcard[i].pat, n)}
    IN  IF n \in DOMAIN t.exact THEN <<t.exact[n]>>
        ELSE IF hits # {} THEN <<t.wildcard[Min(hits)].addrs>>
        ELSE NoPin

\* The version an address query asks for; addresses are [v, octets].
Family == [A |-> 4, AAAA |-> 6]
InFamily(addrs, type) == SelectSeq(addrs, LAMBDA ip : ip.v = Family[type])

(* HostsTable::answer: NoPin, or the records of the family, possibly none.   *)
pinned(t, n, type) ==
    IF type \notin DOMAIN Family \/ lookup(t, n) = NoPin THEN NoPin
    ELSE <<InFamily(lookup(t, n)[1], type)>>

-----------------------------------------------------------------------------
(* NameserverPolicy: rules ordered by label count, exact before wildcard.    *)
specificity(p) == 2 * label_count(p) + (IF p.kind = "Exact" THEN 1 ELSE 0)

NoRules == [ok |-> TRUE, rules |-> <<>>]
ruled(texts) ==
    FoldLeft(LAMBDA t, r :
        LET p == parse(r.text)
        IN  IF ~t.ok \/ p.kind \in {"Any", "Err"} THEN [t EXCEPT !.ok = FALSE]
            ELSE [t EXCEPT !.rules = placed(@, [pat |-> p, rank |-> specificity(p), group |-> r.group])],
        NoRules, texts)

Default == 99
\* Fault: the last rule that matches wins.
FaultRoute(policy, n) ==
    LET hits == {i \in DOMAIN policy.rules : matches(policy.rules[i].pat, n)}
    IN  IF hits = {} THEN Default ELSE policy.rules[Max(hits)].group

route(policy, n) ==
    LET hits == {i \in DOMAIN policy.rules : matches(policy.rules[i].pat, n)}
    IN  IF hits = {} THEN Default ELSE policy.rules[Min(hits)].group

(* IpCidr::contains: the family, then the prefix bits octet by octet.        *)
contains(block, ip) ==
    /\ block.v = ip.v
    /\ \A i \in DOMAIN ip.octets :
          LET past == 8 * (i - 1)
              bits == IF block.prefix <= past THEN 0 ELSE Min({8, block.prefix - past})
          IN  ip.octets[i] \div 2^(8 - bits) = block.octets[i] \div 2^(8 - bits)

v4(a, b, c, d) == [v |-> 4, octets |-> <<a, b, c, d>>]
v6(lo) == [v |-> 6, octets |-> [i \in 1 .. 16 |-> IF i = 16 THEN lo ELSE 0]]
cidr(ip, prefix) == [v |-> ip.v, octets |-> ip.octets, prefix |-> prefix]
DEFAULT_BOGUS_CIDRS ==
    {cidr(v4(0, 0, 0, 0), 8), cidr(v4(127, 0, 0, 0), 8), cidr(v4(240, 0, 0, 0), 4),
     cidr(v6(0), 128), cidr(v6(1), 128), cidr([v6(0) EXCEPT !.octets[1] = 1], 64)}

\* FallbackFilter.
forces_fallback(domains, n) == \E d \in domains : matches(parse(d), n)
looks_poisoned(blocks, addrs) == \E ip \in addrs, b \in blocks : contains(b, ip)

-----------------------------------------------------------------------------
\* PolicyEngine::is_blocked.
is_blocked(rules, n) ==
    \E r \in rules : IF r.exact THEN n = r.suffix ELSE IsSuffix(r.suffix, n)

(* parse_in_addr_arpa and parse_ip6_arpa: the labels run least significant   *)
(* first, and only the canonical spelling of an octet or a nibble is read.   *)
NoAddr == [v |-> 0, octets |-> <<>>]
Decimal == [s \in {ToString(k) : k \in 0 .. 255} |-> CHOOSE k \in 0 .. 255 : ToString(k) = s]
Hex == <<"0", "1", "2", "3", "4", "5", "6", "7", "8", "9", "a", "b", "c", "d", "e", "f">>
Nibble(l) == CHOOSE k \in 0 .. 15 : Hex[k + 1] = l

parse_in_addr_arpa(n) ==
    IF Len(n) = 6 /\ SubSeq(n, 5, 6) = <<"in-addr", "arpa">> /\ \A i \in 1 .. 4 : n[i] \in DOMAIN Decimal
    THEN [v |-> 4, octets |-> [i \in 1 .. 4 |-> Decimal[n[5 - i]]]]
    ELSE NoAddr

parse_ip6_arpa(n) ==
    IF Len(n) = 34 /\ SubSeq(n, 33, 34) = <<"ip6", "arpa">> /\ \A i \in 1 .. 32 : Contains(Hex, n[i])
    THEN [v |-> 6, octets |-> [i \in 1 .. 16 |-> 16 * Nibble(n[34 - 2 * i]) + Nibble(n[33 - 2 * i])]]
    ELSE NoAddr
=============================================================================
