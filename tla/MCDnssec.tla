----------------------------- MODULE MCDnssec -----------------------------
(* A zone with two RSA keys of which one has a DS, a key of an algorithm     *)
(* this build cannot judge and one whose tag collides; a zone without keys;  *)
(* signatures that are in force, expired, foreign or mislabelled.            *)
EXTENDS Dnssec

Apex == <<"z">>
Below == <<"h", "z">>
Keyless == <<"u">>
RSA(id, tag) == [id |-> id, alg |-> "RSASHA256", tag |-> tag]
Clash == RSA("k4", 1)
Main == RSA("k1", 1)
Spare == RSA("k2", 2)
Curve == [id |-> "k3", alg |-> "ED25519", tag |-> 3]
SomeSigners ==
    [z \in {Apex, Keyless} |->
        IF z = Keyless THEN [keys |-> <<>>, ds |-> {}]
        ELSE [keys |-> <<Clash, Main, Spare, Curve>>,
              ds |-> {[of |-> "k1", alg |-> "RSASHA256", tag |-> 1, digest |-> "SHA256"],
                      [of |-> "k2", alg |-> "RSASHA256", tag |-> 2, digest |-> "SHA1"]}]]

HostSet == [owner |-> Below, type |-> "A"]
AliasSet == [owner |-> Apex, type |-> "CNAME"]
DenialSet == [owner |-> Apex, type |-> "SOA"]
By(k, g) == [owner |-> g.owner, type |-> g.type, alg |-> k.alg, tag |-> k.tag, signer |-> Apex,
             inception |-> 1, expiration |-> 5, labels |-> Len(g.owner), by |-> k.id, over |-> g]
Expired(s) == [s EXCEPT !.expiration = 3]
Future(s) == [s EXCEPT !.inception = 5]
Forged(s) == [s EXCEPT !.by = "none"]
Foreign == [Forged(By(Main, HostSet)) EXCEPT !.signer = Keyless]

HostSigs == {<<>>, <<By(Main, HostSet)>>, <<By(Spare, HostSet)>>, <<By(Curve, HostSet)>>, <<Expired(By(Main, HostSet))>>,
             <<Forged(By(Main, HostSet)), By(Main, HostSet)>>, <<Forged(By(Main, HostSet)), By(Curve, HostSet)>>,
             <<[By(Main, HostSet) EXCEPT !.labels = 1]>>, <<Foreign>>,
             <<By(Main, HostSet), Foreign>>, <<Foreign, By(Main, HostSet)>>}
AliasSigs == {<<>>, <<Future(By(Main, AliasSet)), By(Main, AliasSet)>>}
Message(groups, sigs, auth, authsigs) ==
    [answers |-> groups, sigs |-> sigs, authority |-> auth, authsigs |-> authsigs]
SomeMessages ==
    {Message({HostSet}, s, {}, <<>>) : s \in HostSigs}
        \union {Message({HostSet, AliasSet}, s \o a, {}, <<>>) : s \in HostSigs, a \in AliasSigs}
        \union {Message({HostSet}, <<By(Main, HostSet)>>, {DenialSet, [DenialSet EXCEPT !.type = "A"]}, a) :
                    a \in {<<>>, <<By(Main, DenialSet)>>, <<Forged(By(Main, DenialSet))>>}}
        \union {Message({}, <<>>, {DenialSet}, <<>>)}
=============================================================================
