------------------------------- MODULE Dnssec -------------------------------
(* DNSSEC validation of an answer (dnssec/mod.rs).  A signature is symbolic: *)
(* it names the key that made it and the RRset it was made over, and the     *)
(* digest of a DS names the key it was taken of; the RSA and SHA-256         *)
(* computations behind them are assumed sound.  The keys and the DS records  *)
(* of the signer come from nested resolutions, each of which may fail; a     *)
(* second validation that starts meanwhile finds the guard taken.            *)
EXTENDS Naturals, Sequences, SequencesExt, FiniteSetsExt, FiniteSets

CONSTANTS
    Validators,   \* threads that validate
    Messages,     \* [answers, sigs, authority, authsigs]: RRset groups and RRSIGs
    Signers,      \* what a signer publishes: its DNSKEYs in order, its DS records
    Now,          \* now_secs
    HasAnchor,    \* dnssec_anchored: a trust anchor is configured
    Nobody

VARIABLES
    guard,        \* VALIDATING: who holds the slot
    val           \* val[t]: the validation of thread t

dnssecVars == <<guard, val>>

Published == UNION {ToSet(Signers[z].keys) : z \in DOMAIN Signers}

(* An RRSIG stands at the owner of the RRset it signs.  One that a published *)
(* key made carries the key's algorithm and names the zone that publishes    *)
(* it: the signer and the algorithm are under the signature.                 *)
ASSUME DnssecAssumption ==
    /\ Nobody \notin Validators /\ Now \in Nat /\ HasAnchor \in BOOLEAN
    /\ \A z \in DOMAIN Signers : Signers[z].keys \in Seq(Published)
    /\ \A m \in Messages :
          /\ m = [answers |-> m.answers, sigs |-> m.sigs, authority |-> m.authority, authsigs |-> m.authsigs]
          /\ IsFiniteSet(m.answers) /\ IsFiniteSet(m.authority)
          /\ \A sigs \in {m.sigs, m.authsigs} :
                /\ sigs \in Seq(ToSet(sigs))
                /\ \A s \in ToSet(sigs) :
                      /\ s.signer \in DOMAIN Signers /\ s.owner = s.over.owner
                      /\ s.inception \in Nat /\ s.expiration \in Nat
                      /\ \A k \in Published :
                            s.by = k.id => s.alg = k.alg /\ k \in ToSet(Signers[s.signer].keys)

-----------------------------------------------------------------------------
(* verify_rrsig.  A mismatch of algorithm, window, labels or tag is `bad`,   *)
(* as a wrong signature is; `err` is an algorithm this build cannot judge.   *)
verify_rrsig(key, sig, group) ==
    IF \/ sig.alg # key.alg \/ Now < sig.inception \/ Now > sig.expiration
       \/ sig.labels # Len(sig.owner) \/ sig.tag # key.tag
    THEN "bad"
    ELSE IF sig.alg # "RSASHA256" THEN "err"
    ELSE IF sig.by = key.id /\ sig.over = group THEN "good" ELSE "bad"

validate_rrset(group, sigs, keys) ==
    LET seen(v) == \E i \in DOMAIN keys, s \in sigs : verify_rrsig(keys[i], s, group) = v
    IN  IF sigs = {} THEN IF keys = <<>> THEN "Insecure" ELSE "Bogus"
        ELSE IF seen("good") THEN "Secure"
        ELSE IF seen("bad") THEN "Bogus" ELSE "Indeterminate"

\* Fault: the signatures the zone made with its own name only.
FaultCovering(sigs, group) ==
    {i \in DOMAIN sigs : sigs[i].type = group.type /\ group.owner = sigs[i].signer}

\* rrsigs_for and the filter of verify_section: the places of the signatures kept.
Covers(sig, group) == sig.type = group.type /\ group.owner \in {sig.signer, sig.owner}
Covering(sigs, group) == {i \in DOMAIN sigs : Covers(sigs[i], group)}

dnskey_matches_ds(key, ds) ==
    ds.alg = key.alg /\ ds.tag = key.tag /\ ds.digest = "SHA256" /\ ds.of = key.id

(* Verdict::state and is_signature_verified.                                 *)
State(verdict) ==
    CASE verdict = "Secure" -> IF HasAnchor THEN "ChainAnchored" ELSE "CryptoVerified"
      [] verdict = "Insecure" -> "Insecure"
      [] OTHER -> "Indeterminate"
is_signature_verified(verdict) == State(verdict) \in {"ChainAnchored", "CryptoVerified"}

-----------------------------------------------------------------------------
Blank == [answers |-> {}, sigs |-> <<>>, authority |-> {}, authsigs |-> <<>>]
Tally == [signed |-> 0, authenticated |-> 0, all |-> TRUE, worst |-> "Insecure"]
Fresh == [pc |-> "idle", msg |-> Blank, section |-> "answer", todo |-> <<>>, keys |-> <<>>,
          left |-> <<>>, tally |-> Tally, verdict |-> "none", authority |-> "none", lost |-> FALSE]

DnssecInit == guard = Nobody /\ val = [t \in Validators |-> Fresh]

Turns(t, r) == val' = [val EXCEPT ![t] = r]
Sigs(r) == IF r.section = "answer" THEN r.msg.sigs ELSE r.msg.authsigs
Covered(r) == Covering(Sigs(r), Head(r.todo))
\* The zone the first of them names.
Signer(r) == Signers[Sigs(r)[Min(Covered(r))].signer]

(* validate_resolution_detailed and validate_message_detailed.               *)
Begin(t, m) ==
    LET r == [Fresh EXCEPT !.msg = m]
    IN  /\ val[t].pc = "idle"
        /\ IF m.answers = {}
           THEN Turns(t, [r EXCEPT !.pc = "done", !.verdict = "Insecure"]) /\ UNCHANGED guard
           ELSE IF guard # Nobody
           THEN Turns(t, [r EXCEPT !.pc = "done", !.verdict = "Indeterminate", !.lost = TRUE])
                /\ UNCHANGED guard
           ELSE Turns(t, [r EXCEPT !.pc = "group", !.todo = SetToSeq(m.answers)]) /\ guard' = t

\* Fault: an unsigned group is passed over.
FaultUnsigned(tally) == tally
Unsigned(tally) == [tally EXCEPT !.all = FALSE]

\* The verdict of a signed group, counted.
Counted(tally, v) ==
    [tally EXCEPT !.signed = @ + 1, !.all = @ /\ v = "Secure",
                  !.authenticated = IF v = "Secure" THEN @ + 1 ELSE @,
                  !.worst = IF v = "Bogus" \/ (v = "Indeterminate" /\ @ = "Insecure") THEN v ELSE @]
Judged(r, v) ==
    [r EXCEPT !.pc = "group", !.todo = Tail(@), !.keys = <<>>, !.left = <<>>, !.tally = Counted(@, v)]

(* The next group: unsigned, or the DNSKEYs of its first signature's signer, *)
(* which may not be had.                                                     *)
Group(t) ==
    LET r == val[t]
        keys == Signer(r).keys
    IN  /\ r.pc = "group" /\ r.todo # <<>>
        /\ IF Covered(r) = {}
           THEN Turns(t, [r EXCEPT !.todo = Tail(@), !.tally = Unsigned(@)])
           ELSE \/ Turns(t, [Judged(r, "Indeterminate") EXCEPT !.lost = TRUE])
                \/ IF keys = <<>> THEN Turns(t, Judged(r, "Indeterminate"))
                   ELSE Turns(t, [r EXCEPT !.pc = "key", !.keys = keys, !.left = keys])
        /\ UNCHANGED guard

(* validate_group, key by key: one that verifies is looked up in the         *)
(* parent's DS records; when none is found there the shared rule decides.    *)
Key(t) ==
    LET r == val[t]
        g == Head(r.todo)
        k == Head(r.left)
        sigs == {Sigs(r)[i] : i \in Covered(r)}
        signs == \E s \in sigs : verify_rrsig(k, s, g) = "good"
        next == [r EXCEPT !.left = Tail(@)]
    IN  /\ r.pc = "key"
        /\ IF r.left = <<>> THEN Turns(t, Judged(r, validate_rrset(g, sigs, r.keys)))
           ELSE IF ~signs THEN Turns(t, next)
           ELSE \/ Turns(t, [next EXCEPT !.lost = TRUE])
                \/ IF \E ds \in Signer(r).ds : dnskey_matches_ds(k, ds)
                   THEN Turns(t, Judged(r, "Secure")) ELSE Turns(t, next)
        /\ UNCHANGED guard

\* The verdict of a section.
Verdict(tally) ==
    IF tally.signed > 0 /\ tally.all THEN "Secure"
    ELSE IF tally.worst = "Bogus" THEN "Bogus"
    ELSE IF tally.signed = 0 THEN "Insecure" ELSE tally.worst

(* verify_chain at the end of a section: the authority groups that belong to *)
(* a negative answer follow the answer, and then the guard is free again.    *)
Conclude(t) ==
    LET r == val[t]
        relevant == {g \in r.msg.authority : g.type \in {"SOA", "NSEC", "NSEC3", "NS"}}
        answered == [r EXCEPT !.verdict = Verdict(r.tally)]
    IN  /\ r.pc = "group" /\ r.todo = <<>>
        /\ IF r.section = "answer" /\ relevant # {}
           THEN Turns(t, [answered EXCEPT !.section = "authority", !.todo = SetToSeq(relevant),
                                          !.tally = Tally]) /\ UNCHANGED guard
           ELSE /\ guard' = Nobody
                /\ IF r.section = "answer" THEN Turns(t, [answered EXCEPT !.pc = "done"])
                   ELSE Turns(t, [r EXCEPT !.pc = "done", !.authority =
                            IF r.tally.signed \in 1 .. r.tally.authenticated THEN "yes" ELSE "no"])

DnssecNext ==
    \E t \in Validators :
        \/ \E m \in Messages : Begin(t, m)
        \/ Group(t)
        \/ Key(t)
        \/ Conclude(t)

DnssecSpec == DnssecInit /\ [][DnssecNext]_dnssecVars

-----------------------------------------------------------------------------
Verified == {t \in Validators : val[t].pc = "done" /\ is_signature_verified(val[t].verdict)}

\* The key whose signature holds for the group, by the reference.
SignedBy(k, m, g) ==
    \E i \in DOMAIN m.sigs :
        LET s == m.sigs[i]
        IN  /\ s.by = k.id /\ s.over = g /\ s.alg = "RSASHA256" /\ s.tag = k.tag
            /\ s.type = g.type /\ s.inception <= Now /\ Now <= s.expiration
            /\ s.labels = Len(s.owner) /\ Contains(Signers[s.signer].keys, k)

(* The all-rule of RFC 4035: an answer counts as verified only if every one  *)
(* of its RRsets carries a signature in force, by a published key, over that *)
(* very RRset; failed fetches and a taken guard never help.                  *)
AllRule ==
    \A t \in Verified : \A g \in val[t].msg.answers : \E k \in Published : SignedBy(k, val[t].msg, g)

HasDs(z, k) == \E ds \in Signers[z].ds :
                  ds.of = k.id /\ ds.tag = k.tag /\ ds.alg = k.alg /\ ds.digest = "SHA256"

\* The zone named by the first signature that covers the group: the only one asked.
FirstSigner(m, g) == m.sigs[Min({i \in DOMAIN m.sigs : Covers(m.sigs[i], g)})].signer

(* An answer is verified when every nested resolution succeeds and each of   *)
(* its RRsets is properly signed by a key with a DS, of the zone that the    *)
(* first signature covering it names: whatever that first signature is worth *)
(* and whatever signatures, of whatever zones, come after it.                *)
HonestIsVerified ==
    \A t \in Validators :
        LET m == val[t].msg
        IN  (/\ val[t].pc = "done" /\ ~val[t].lost /\ m.answers # {}
             /\ \A g \in m.answers : \E k \in Published :
                   /\ SignedBy(k, m, g)
                   /\ Contains(Signers[FirstSigner(m, g)].keys, k) /\ HasDs(FirstSigner(m, g), k))
            => t \in Verified

(* "The signature must verify against a key that is *also* covered by a DS   *)
(* in the parent zone; a key that verifies but is not anchored proves        *)
(* nothing": every RRset of a verified answer is signed by such a key.       *)
VerifiedIsAnchored ==
    \A t \in Verified : \A g \in val[t].msg.answers :
        \E k \in Published, z \in DOMAIN Signers : HasDs(z, k) /\ SignedBy(k, val[t].msg, g)
=============================================================================
