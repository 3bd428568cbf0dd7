------------------------------ MODULE MCCodec ------------------------------
(* A catalogue of messages: every record type, names that share suffixes,    *)
(* label octets that presentation must escape, mixed case, EDNS options.     *)
EXTENDS Codec

la == <<97>>
lb == <<98>>
Com == <<la>>
Zone == <<lb, la>>
Host == <<<<97, 46>>, lb, la>>
Odd == <<<<92, 200>>, la>>
Mixed == <<<<66>>, <<65>>>>

q(n, t) == [name |-> n, type |-> t, class |-> 1]
Query(id, qs) == [NewMessage(id) EXCEPT !.questions = qs]
WithEdns(m, size, do, opts) ==
    [m EXCEPT !.edns = <<[NewEdns(size) EXCEPT !.dnssec = do, !.options = opts]>>]

Subnet(p) == [code |-> ECS, data |-> ecs_for(1, <<10, 255, 3, 7>>, p)]
Padded == [code |-> PADDING, data |-> <<0>>]
Cookie == [code |-> COOKIE, data |-> <<1, 2, 3, 4, 5, 6, 7, 8>>]

SomeQueries ==
    {Query(3, <<q(n, 1)>>) : n \in {root, Com, Odd, Mixed}}
        \union {Query(258, <<q(Host, 1)>>), Query(3, <<q(Zone, 252)>>), Query(3, <<>>),
                Query(3, <<q(Host, 1), q(Zone, 1)>>)}
        \union {WithEdns(Query(p, <<q(Zone, 1)>>), 80, TRUE, <<Subnet(p), Cookie>>) : p \in {0, 1, 9, 16}}
        \union {WithEdns(Query(3, <<q(Mixed, 16)>>), 0, FALSE, <<Padded>>)}

rec(n, t, d) == [name |-> n, type |-> t, class |-> 1, ttl |-> <<0, 0, 0, 9>>, rdata |-> d]
w == <<1, 2>>
d == <<0, 0, 1, 2>>
RData1 == [A |-> <<d>>, NS |-> <<Zone>>, CNAME |-> <<Host>>, SOA |-> <<Zone, Host, d, d, d, d, d>>,
    PTR |-> <<Com>>, MX |-> <<w, Host>>, TXT |-> <<<<<<7>>, <<>>, <<8, 9>>>>>>,
    SIG |-> <<w, <<5>>, <<2>>, d, d, d, w, Zone, <<3>>>>,
    AAAA |-> <<d \o d \o d \o d>>, SRV |-> <<w, w, w, Host>>,
    NAPTR |-> <<w, w, <<65>>, <<>>, <<66, 67>>, Zone>>, DNAME |-> <<Com>>,
    DS |-> <<w, <<5>>, <<2>>, d>>, RRSIG |-> <<w, <<5>>, <<2>>, d, d, d, w, Zone, <<3>>>>,
    NSEC |-> <<Host, <<1, 15, 16, 257>>>>, DNSKEY |-> <<w, <<3>>, <<5>>, d>>,
    NSEC3 |-> <<<<1>>, <<0>>, w, <<9>>, <<4, 4>>, <<0, 46>>>>,
    NSEC3PARAM |-> <<<<1>>, <<0>>, w, <<>>>>, TLSA |-> <<<<3>>, <<1>>, <<1>>, w>>,
    SMIMEA |-> <<<<3>>, <<1>>, <<1>>, w>>, CDS |-> <<w, <<5>>, <<2>>, <<>>>>,
    CDNSKEY |-> <<w, <<3>>, <<5>>, d>>, SVCB |-> <<w, root, <<<<1, <<104>>>>, <<4, d>>>>>>,
    HTTPS |-> <<w, Host, <<>>>>, CAA |-> <<<<0>>, <<105>>, <<33>>>>]
Of(t) == rec(Host, RrType[t], RData1[t])

Found(recs, auth) == [failed |-> FALSE, answers |-> recs, authorities |-> auth, validated |-> TRUE,
    rrsigs |-> <<Of("RRSIG")>>, ttl |-> <<0, 0, 0, 3>>, rcode |-> 0]
Failed(code) == [failed |-> TRUE, rcode |-> code]

All(ts) == [i \in DOMAIN ts |-> Of(ts[i])]
SomeResolutions ==
    {Found(All(<<"A", "AAAA", "CNAME">>), All(<<"SOA">>)), Found(All(<<"PTR", "MX", "TXT">>), All(<<"NS">>)),
     Found(All(<<"SRV", "NAPTR", "DNAME", "SIG">>), <<>>), Found(All(<<"DS", "DNSKEY", "CDS", "CDNSKEY">>), <<>>),
     Found(All(<<"NSEC3PARAM", "TLSA", "SMIMEA">>), All(<<"NSEC", "NSEC3">>)),
     Found(All(<<"SVCB", "HTTPS", "CAA">>), <<>>),
     Found(<<Of("CNAME"), rec(Zone, 1, <<d>>), rec(Zone, 99, <<w>>)>>, <<Of("NS")>>),
     Found(<<Of("TXT"), rec(Com, 16, <<<<d \o d \o d \o d, d \o d \o d \o d>>>>)>>, <<>>),
     Failed(Rcode.SERVFAIL), Failed(Rcode.NXDOMAIN)}

SomeFaults == {0, 13, 192}
=============================================================================
