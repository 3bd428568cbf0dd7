----------------------------- MODULE MCServing -----------------------------
(* Worlds for Serving: each looks at one part of the configuration.          *)
EXTENDS Serving

Reply(answers) == [answers |-> answers, rcode |-> "NOERROR", scope |-> 0, validated |-> FALSE]
Scoped(reply, scope) == [reply EXCEPT !.scope = scope]
CName(n, to) == [name |-> n, type |-> "CNAME", data |-> to]
Addr(n, ip) == [name |-> n, type |-> "A", data |-> ip]
Q(n, type, part) == [name |-> n, type |-> type, part |-> part]
Plain(ip) == [ip |-> ip, proto |-> "Udp", host |-> "", path |-> ""]

a == <<"a">>
b == <<"b">>
c == <<"c">>
Real == v4(8, 8, 8, 8)
Lifetimes == [CNAME |-> 2, A |-> 1, AAAA |-> 1, PTR |-> 1]

Base == [hosts |-> NoHosts, blocked |-> {}, ranges |-> {}, filter |-> {}, synthetic |-> <<>>,
         rules |-> ruled(<<>>), groups |-> (0 :> <<Plain("s1")>> @@ 1 :> <<>>), forced |-> {},
         bogus |-> DEFAULT_BOGUS_CIDRS, anchored |-> FALSE, questions |-> {}, replies |-> <<>>,
         time |-> 0, asks |-> 2, roots |-> FALSE]

(* A chain of three whose last record expires first, and a name without data.*)
Stale == [Base EXCEPT !.time = 2, !.asks = 4, !.questions = {Q(a, "A", Global), Q(c, "A", Global)},
    !.replies = [s1 |-> (<<a, "A">> :> {Reply(<<CName(a, b), CName(b, c), Addr(c, Real)>>)} @@
                         <<c, "A">> :> {Reply(<<Addr(c, Real)>>), Reply(<<>>)})]]

(* Two networks, the one around both, and an alias that differs by scope.    *)
Nets == [Base EXCEPT !.asks = 3,
    !.questions = {Q(a, "A", part) : part \in {Global, <<0>>, <<0, 0>>, <<0, 1>>}},
    !.replies = [s1 |-> (<<a, "A">> :> {Reply(<<CName(a, b), Addr(b, Real)>>),
                                        Scoped(Reply(<<CName(a, c), Addr(c, Real)>>), 1),
                                        Scoped(Reply(<<Addr(a, Real)>>), 2),
                                        Scoped([Reply(<<>>) EXCEPT !.rcode = "NXDOMAIN"], 2)})]]

(* Rules, a forced name, a poisoned default server and two TLS identities.   *)
x == <<"x">>
wx == <<"w", "x">>
Tls(host) == [ip |-> "s4", proto |-> "Tls", host |-> host, path |-> ""]
Same(n) == {Reply(<<Addr(n, Real)>>)}
Routed == {x, wx, <<"v", "w", "x">>, <<"f">>, <<"z">>}
Routes == [Base EXCEPT !.asks = 2, !.questions = {Q(n, "A", Global) : n \in Routed},
    !.groups = (0 :> <<Plain("s1"), Tls("one")>> @@ 1 :> <<Plain("s3")>> @@
                2 :> <<Tls("two"), Plain("s2")>> @@ 3 :> <<>>),
    !.rules = ruled(<<[text |-> <<"+", "x">>, group |-> 2], [text |-> <<"*", "*", "x">>, group |-> 0],
                      [text |-> <<"w", "x">>, group |-> 3]>>),
    !.forced = {<<"f">>}, !.roots = TRUE,
    !.replies = [s \in {"s1", "s2", "s3", "s4", "root"} |->
                    [k \in {<<n, "A">> : n \in Routed} |->
                        IF s = "s1" THEN {Reply(<<Addr(k[1], Real), Addr(k[1], v4(127, 0, 0, 1))>>)}
                        ELSE IF s = "s3" THEN {Reply(<<Addr(k[1], v4(240, 0, 0, 1))>>)}
                        ELSE Same(k[1])]]]

(* Pins, blocks and the fake-IP pool with no range for the second family.    *)
h == <<"h">>
wh == <<"w", "h">>
Synthetic == v4(198, 18, 0, 1)
Ptr == <<"1", "0", "18", "198", "in-addr", "arpa">>
Pins == insert(insert(insert(NoHosts, <<"+", "h">>, <<v4(10, 0, 0, 1)>>),
               <<"*", "w", "h">>, <<v4(10, 0, 0, 2), v6(9)>>), <<"w", "h">>, <<v4(10, 0, 0, 3)>>)
Locals == {h, wh, <<"u", "w", "h">>, x, <<"z">>, <<"n", "z">>}
Pinned == [Base EXCEPT !.hosts = Pins, !.ranges = {4}, !.filter = {<<"z">>},
    !.blocked = {[exact |-> FALSE, suffix |-> <<"w", "h">>], [exact |-> TRUE, suffix |-> <<"z">>]},
    !.synthetic = [s \in Locals \X {4} |-> IF s[1] = x THEN Synthetic ELSE v4(198, 18, 0, 2)],
    !.questions = {Q(n, type, Global) : n \in Locals, type \in {"A", "AAAA"}} \union {Q(Ptr, "PTR", Global)},
    !.replies = [s1 |-> [k \in (Locals \X {"A", "AAAA"}) \union {<<Ptr, "PTR">>} |->
                            IF k[2] = "A" THEN Same(k[1]) ELSE {Reply(<<>>)}]]]
\* The same pins with nothing blocked and no pool, and the walk for the rest.
Hosts == [Pinned EXCEPT !.blocked = {}, !.ranges = {}, !.groups = (0 :> <<>> @@ 1 :> <<>>),
                        !.replies = [root |-> Pinned.replies.s1]]

AllWorlds == [stale |-> Stale, nets |-> Nets, routes |-> Routes, pinned |-> Pinned, hosts |-> Hosts]
Opinions == {[fresh |-> 980, evidence |-> TRUE], [fresh |-> 995, evidence |-> TRUE],
             [fresh |-> 995, evidence |-> FALSE]}
=============================================================================
