---------------------------- MODULE AnswersProofs ---------------------------
(***************************************************************************)
(* Machine-checked proofs about Dnssec, for any validators, messages,      *)
(* signatures, zones and keys, whichever nested resolutions fail, and      *)
(* about Codec, for any queries, resolutions, limits and damage.           *)
(***************************************************************************)
EXTENDS Dnssec, Codec, FiniteSetTheorems, SequenceTheorems, NaturalsInduction, WellFoundedInduction, TLAPS

-----------------------------------------------------------------------------
(* Sequences and sets *)

(* The least element of a set of natural numbers is one of them. *)
LEMMA MinIsLeast ==
    ASSUME NEW T \in SUBSET Nat, T # {}
    PROVE  Min(T) \in T /\ \A j \in T : Min(T) <= j
  <1> DEFINE R == {p \in Nat \X Nat : p[1] < p[2]}
  <1>1. IsWellFoundedOn(R, Nat)
    BY NatLessThanWellFounded, Zenon DEF OpToRel
  <1>2. \A j, m \in Nat : <<j, m>> \notin R => m <= j
    OBVIOUS
  <1> HIDE DEF R
  <1>3. PICK m \in T : \A j \in T : <<j, m>> \notin R
    BY <1>1, WFMin
  <1>4. \A j \in T : m <= j
    BY <1>2, <1>3
  <1> QED BY <1>4 DEF Min

(* SetToSeq lists every member of a finite set. *)
LEMMA AllListed ==
    ASSUME NEW S, IsFiniteSet(S)
    PROVE  SetToSeq(S) \in Seq(S) /\ ToSet(SetToSeq(S)) = S
  <1> DEFINE n == Cardinality(S)
             f == SetToSeq(S)
  <1>1. n \in Nat /\ ExistsBijection(1 .. n, S)
    BY FS_CardinalityType
  <1>2. PICK b \in [1 .. n -> S] : IsInjective(b)
    BY <1>1 DEF ExistsBijection, Bijection, Injection, IsInjective
  <1>3. f \in [1 .. n -> S] /\ IsInjective(f)
    BY <1>2 DEF SetToSeq
  <1>4. f \in Seq(S)
    BY <1>1, <1>3
  <1>5. f \in Injection(1 .. n, S)
    BY <1>3 DEF Injection, IsInjective
  <1>6. IsFiniteSet(1 .. n) /\ Cardinality(1 .. n) = n
    BY <1>1, FS_Interval
  <1>7. f \in Surjection(1 .. n, S)
    BY <1>5, <1>6, FS_Injection
  <1>8. \A x \in S : \E i \in 1 .. n : f[i] = x
    BY <1>7 DEF Surjection
  <1> QED BY <1>1, <1>3, <1>4, <1>8 DEF ToSet

(* What is left of a list once its head is taken. *)
LEMMA HeadAndTail ==
    ASSUME NEW S, NEW s \in Seq(S), s # <<>>
    PROVE  /\ Head(s) \in S /\ Tail(s) \in Seq(S)
           /\ Head(s) \in ToSet(s)
           /\ ToSet(s) = {Head(s)} \union ToSet(Tail(s))
  <1>1. Len(s) \in Nat /\ Len(s) >= 1 /\ DOMAIN s = 1 .. Len(s)
    OBVIOUS
  <1>2. Head(s) = s[1] /\ Head(s) \in S /\ Tail(s) \in Seq(S) /\ Len(Tail(s)) = Len(s) - 1
    BY <1>1
  <1>3. DOMAIN Tail(s) = 1 .. Len(s) - 1 /\ \A i \in 1 .. Len(s) - 1 : Tail(s)[i] = s[i + 1]
    BY <1>1, <1>2
  <1>4. ASSUME NEW x \in ToSet(s) PROVE x \in {Head(s)} \union ToSet(Tail(s))
    <2>1. PICK i \in 1 .. Len(s) : x = s[i]
      BY <1>1 DEF ToSet
    <2>2. CASE i = 1
      BY <1>2, <2>1, <2>2
    <2>3. CASE i # 1
      <3>1. i - 1 \in 1 .. Len(s) - 1 /\ Tail(s)[i - 1] = s[i]
        BY <1>1, <1>3, <2>1, <2>3
      <3> QED BY <1>3, <2>1, <3>1 DEF ToSet
    <2> QED BY <2>2, <2>3
  <1>5. ASSUME NEW x \in ToSet(Tail(s)) PROVE x \in ToSet(s)
    <2>1. PICK i \in 1 .. Len(s) - 1 : x = s[i + 1]
      BY <1>3, <1>5 DEF ToSet
    <2>2. i + 1 \in 1 .. Len(s)
      BY <1>1, <2>1
    <2> QED BY <1>1, <2>1, <2>2 DEF ToSet
  <1>6. Head(s) \in ToSet(s)
    BY <1>1, <1>2 DEF ToSet
  <1> QED BY <1>2, <1>4, <1>5, <1>6

-----------------------------------------------------------------------------
(* The inductive invariant *)

Groups == UNION {m.answers \union m.authority : m \in Messages}
Validation ==
    [pc : {"idle", "group", "key", "done"}, msg : Messages \union {Blank},
     section : {"answer", "authority"}, todo : Seq(Groups),
     keys : Seq(Published), left : Seq(Published),
     tally : [signed : Nat, authenticated : Nat, all : BOOLEAN,
              worst : {"Insecure", "Bogus", "Indeterminate"}],
     verdict : {"none", "Secure", "Insecure", "Bogus", "Indeterminate"},
     authority : {"none", "yes", "no"}, lost : BOOLEAN]

(* A signature in force, by a published key, over the group. *)
Signed(m, g) == \E k \in Published : SignedBy(k, m, g)

(* The message of which HonestIsVerified speaks, without its DS records. *)
Honest(m) ==
    /\ m.answers # {}
    /\ \A g \in m.answers : \E k \in Published :
          SignedBy(k, m, g) /\ Contains(Signers[FirstSigner(m, g)].keys, k)

Answering(r) == r.pc \in {"group", "key"} /\ r.section = "answer"

(* One validation: the keys under trial are those of the signer. *)
Trying(r) ==
    /\ r.pc # "idle" => r.msg \in Messages
    /\ r.pc = "key" => /\ r.todo # <<>> /\ Covered(r) # {}
                       /\ r.keys = Signer(r).keys /\ r.left \in Seq(ToSet(r.keys))

(* So far no group without a signature has passed for a good one. *)
Sound(r) ==
    /\ Answering(r) => \A g \in r.msg.answers :
          g \in ToSet(r.todo) \/ (r.tally.all => Signed(r.msg, g))
    /\ r.verdict = "Secure" => \A g \in r.msg.answers : Signed(r.msg, g)

(* So far an honest message has lost nothing. *)
Complete(r) ==
    /\ Answering(r) => ToSet(r.todo) \subseteq r.msg.answers
    /\ Answering(r) /\ ~r.lost /\ Honest(r.msg) =>
          r.tally.all /\ (r.tally.signed = 0 => r.todo # <<>>)
    /\ (r.pc = "done" \/ r.section = "authority") /\ ~r.lost /\ Honest(r.msg) => r.verdict = "Secure"

Good(r) == r \in Validation /\ Trying(r) /\ Sound(r) /\ Complete(r)
IInv == DOMAIN val = Validators /\ \A t \in Validators : Good(val[t])

-----------------------------------------------------------------------------
(* The signatures of a group *)

(* Signatures and the signer of the group in hand are what DnssecAssumption
   says of those of the message. *)
LEMMA CoveringSound ==
    ASSUME NEW r \in Validation, r.msg \in Messages, Covered(r) # {}
    PROVE  /\ Signer(r).keys \in Seq(Published)
           /\ Signer(r).keys \in Seq(ToSet(Signer(r).keys))
           /\ Min(Covered(r)) \in Covered(r)
           /\ Covered(r) \subseteq DOMAIN Sigs(r)
  <1> DEFINE sigs == Sigs(r)
             i == Min(Covered(r))
  <1>1. sigs \in {r.msg.sigs, r.msg.authsigs}
    BY DEF Sigs
  <1>2. /\ sigs \in Seq(ToSet(sigs))
        /\ \A s \in ToSet(sigs) : s.signer \in DOMAIN Signers
    BY <1>1, DnssecAssumption
  <1>3. Covered(r) \subseteq DOMAIN sigs
    BY DEF Covered, Covering
  <1>4. DOMAIN sigs \subseteq Nat
    BY <1>2
  <1>5. i \in Covered(r)
    BY <1>3, <1>4, MinIsLeast
  <1>6. sigs[i].signer \in DOMAIN Signers
    BY <1>2, <1>3, <1>5 DEF ToSet
  <1>7. Signer(r).keys \in Seq(Published)
    BY <1>6, DnssecAssumption DEF Signer
  <1>8. Signer(r).keys \in Seq(ToSet(Signer(r).keys))
    BY <1>7 DEF ToSet
  <1> QED BY <1>3, <1>5, <1>7, <1>8

(* A key under trial that verifies a signature of the group signs it by the
   reference: the signature is over this group, in force, and of the zone that
   publishes the key. *)
LEMMA VerifiedIsSigned ==
    ASSUME NEW r \in Validation, r.msg \in Messages, r.section = "answer",
           NEW i \in Covered(r), NEW k \in Published,
           verify_rrsig(k, Sigs(r)[i], Head(r.todo)) = "good"
    PROVE  Signed(r.msg, Head(r.todo))
  <1> DEFINE g == Head(r.todo)
             s == r.msg.sigs[i]
  <1>1. Sigs(r) = r.msg.sigs /\ i \in DOMAIN r.msg.sigs /\ s.type = g.type
    BY DEF Sigs, Covered, Covering, Covers
  <1>2. /\ ~(s.alg # k.alg \/ Now < s.inception \/ Now > s.expiration \/ s.labels # Len(s.owner) \/ s.tag # k.tag)
        /\ s.alg = "RSASHA256" /\ s.by = k.id /\ s.over = g
    BY <1>1, Zenon DEF verify_rrsig
  <1>3. s \in ToSet(r.msg.sigs) /\ r.msg.sigs \in {r.msg.sigs, r.msg.authsigs}
    BY <1>1 DEF ToSet
  <1>4. /\ s.by = k.id => k \in ToSet(Signers[s.signer].keys)
        /\ s.signer \in DOMAIN Signers /\ s.inception \in Nat /\ s.expiration \in Nat /\ Now \in Nat
    BY <1>3, DnssecAssumption
  <1>5. Contains(Signers[s.signer].keys, k)
    <2>1. Signers[s.signer].keys \in Seq(Published)
      BY <1>4, DnssecAssumption
    <2>2. DOMAIN Signers[s.signer].keys = 1 .. Len(Signers[s.signer].keys)
      BY <2>1
    <2> QED BY <1>2, <1>4, <2>2 DEF Contains, ToSet
  <1>6. s.inception <= Now /\ Now <= s.expiration
    BY <1>2, <1>4
  <1> QED BY <1>1, <1>2, <1>5, <1>6 DEF Signed, SignedBy

(* A group of an honest message is signed: the signer's keys hold one that
   verifies a signature of the group. *)
LEMMA HonestGroupVerifies ==
    ASSUME NEW r \in Validation, r.msg \in Messages, r.section = "answer", Honest(r.msg),
           Head(r.todo) \in r.msg.answers
    PROVE  /\ Covered(r) # {}
           /\ \E k \in ToSet(Signer(r).keys), i \in Covered(r) :
                 verify_rrsig(k, Sigs(r)[i], Head(r.todo)) = "good"
  <1> DEFINE g == Head(r.todo)
             m == r.msg
  <1>1. PICK k \in Published : SignedBy(k, m, g) /\ Contains(Signers[FirstSigner(m, g)].keys, k)
    BY DEF Honest
  <1>2. PICK i \in DOMAIN m.sigs :
          /\ m.sigs[i].by = k.id /\ m.sigs[i].over = g /\ m.sigs[i].alg = "RSASHA256"
          /\ m.sigs[i].tag = k.tag /\ m.sigs[i].type = g.type
          /\ m.sigs[i].inception <= Now /\ Now <= m.sigs[i].expiration
          /\ m.sigs[i].labels = Len(m.sigs[i].owner)
    BY <1>1 DEF SignedBy
  <1> DEFINE s == m.sigs[i]
  <1>3. s \in ToSet(m.sigs) /\ m.sigs \in {m.sigs, m.authsigs}
    BY <1>2 DEF ToSet
  <1>4. /\ s.owner = g.owner /\ s.alg = k.alg /\ k \in ToSet(Signers[s.signer].keys)
        /\ s.inception \in Nat /\ s.expiration \in Nat /\ Now \in Nat
        /\ m.sigs \in Seq(ToSet(m.sigs))
    BY <1>2, <1>3, DnssecAssumption
  <1>5. Sigs(r) = m.sigs /\ i \in Covered(r)
    BY <1>2, <1>4 DEF Sigs, Covered, Covering, Covers
  <1>6. verify_rrsig(k, s, g) = "good"
    <2>1. ~(s.alg # k.alg \/ Now < s.inception \/ Now > s.expiration \/ s.labels # Len(s.owner) \/ s.tag # k.tag)
      BY <1>2, <1>4
    <2> QED BY <1>2, <2>1 DEF verify_rrsig
  <1>7. Signer(r) = Signers[FirstSigner(m, g)]
    BY <1>5 DEF Signer, FirstSigner, Covered, Covering
  <1>8. k \in ToSet(Signer(r).keys)
    BY <1>1, <1>7 DEF Contains, ToSet
  <1> QED BY <1>5, <1>6, <1>8

-----------------------------------------------------------------------------
(* What the steps make of a validation *)

(* Counting a verdict. *)
LEMMA CountedTally ==
    ASSUME NEW r \in Validation, NEW v \in {"Secure", "Insecure", "Bogus", "Indeterminate"}
    PROVE  /\ Counted(r.tally, v) \in [signed : Nat, authenticated : Nat, all : BOOLEAN,
                                       worst : {"Insecure", "Bogus", "Indeterminate"}]
           /\ Counted(r.tally, v).all = (r.tally.all /\ v = "Secure")
           /\ Counted(r.tally, v).signed # 0
  <1> DEFINE T == [signed : Nat, authenticated : Nat, all : BOOLEAN,
                   worst : {"Insecure", "Bogus", "Indeterminate"}]
             y == r.tally
             b == y.all /\ v = "Secure"
             c == IF v = "Secure" THEN y.authenticated + 1 ELSE y.authenticated
             w == IF v = "Bogus" \/ (v = "Indeterminate" /\ y.worst = "Insecure") THEN v ELSE y.worst
  <1>1. y \in T
    BY DEF Validation
  <1>2. y.signed + 1 \in Nat /\ y.signed + 1 # 0 /\ c \in Nat /\ w \in {"Insecure", "Bogus", "Indeterminate"}
    BY <1>1
  <1>3. b \in BOOLEAN
    BY <1>1
  <1>4. Counted(y, v) = [y EXCEPT !.signed = y.signed + 1, !.all = b, !.authenticated = c, !.worst = w]
    BY Zenon DEF Counted
  <1> HIDE DEF y, b, c, w
  <1>5. /\ Counted(y, v) \in T /\ Counted(y, v).signed = y.signed + 1 /\ Counted(y, v).all = b
    BY <1>1, <1>2, <1>3, <1>4
  <1> QED BY <1>2, <1>5, Zenon DEF b, y

(* A group is judged: the rest of the list is left, and the tally holds the
   verdict.  The judgement is right if "Secure" is only said of a signed group,
   and nothing else of a group of an honest message that lost nothing. *)
LEMMA JudgedGood ==
    ASSUME NEW r, Good(r), r.pc \in {"group", "key"}, r.todo # <<>>,
           NEW v \in {"Secure", "Insecure", "Bogus", "Indeterminate"}, NEW lost \in BOOLEAN,
           r.lost => lost,
           r.section = "answer" /\ v = "Secure" => Signed(r.msg, Head(r.todo)),
           r.section = "answer" /\ ~lost /\ Honest(r.msg) => v = "Secure"
    PROVE  Good([Judged(r, v) EXCEPT !.lost = lost])
  <1> DEFINE j == [Judged(r, v) EXCEPT !.lost = lost]
  <1>1. r \in Validation /\ r.msg \in Messages
    BY DEF Good, Trying
  <1>2. Tail(r.todo) \in Seq(Groups) /\ ToSet(r.todo) = {Head(r.todo)} \union ToSet(Tail(r.todo))
    <2>1. r.todo \in Seq(Groups)
      BY <1>1 DEF Validation
    <2> QED BY <2>1, HeadAndTail
  <1>3. <<>> \in Seq(Published)
    OBVIOUS
  <1>4. /\ j.pc = "group" /\ j.msg = r.msg /\ j.section = r.section /\ j.todo = Tail(r.todo)
        /\ j.keys = <<>> /\ j.left = <<>> /\ j.tally = Counted(r.tally, v) /\ j.verdict = r.verdict
        /\ j.authority = r.authority /\ j.lost = lost
    BY <1>1 DEF Validation, Judged
  <1>5. j \in Validation
    <2>1. Counted(r.tally, v) \in [signed : Nat, authenticated : Nat, all : BOOLEAN,
                                   worst : {"Insecure", "Bogus", "Indeterminate"}]
      BY <1>1, CountedTally
    <2> HIDE DEF Counted
    <2> QED BY <1>1, <1>2, <1>3, <2>1 DEF Validation, Judged
  <1> HIDE DEF j
  <1>6. j.tally.all = (r.tally.all /\ v = "Secure") /\ j.tally.signed # 0
    BY <1>1, <1>4, CountedTally
  <1>7. Trying(j)
    BY <1>1, <1>4 DEF Trying
  <1>8. Sound(j)
    <2>1. ASSUME Answering(j), NEW g \in j.msg.answers
          PROVE  g \in ToSet(j.todo) \/ (j.tally.all => Signed(j.msg, g))
      <3>1. Answering(r)
        BY <1>4, <2>1 DEF Answering
      <3>2. g \in ToSet(r.todo) \/ (r.tally.all => Signed(r.msg, g))
        BY <1>4, <3>1 DEF Good, Sound
      <3> QED BY <1>2, <1>4, <1>6, <3>1, <3>2 DEF Answering
    <2>2. j.verdict = "Secure" => \A g \in j.msg.answers : Signed(j.msg, g)
      BY <1>4 DEF Good, Sound
    <2> QED BY <2>1, <2>2 DEF Sound
  <1>9. Complete(j)
    <2>1. Answering(j) <=> r.section = "answer"
      BY <1>4 DEF Answering
    <2>2. Answering(r) <=> r.section = "answer"
      BY DEF Answering
    <2>3. Answering(j) => ToSet(j.todo) \subseteq j.msg.answers
      BY <1>2, <1>4, <2>1, <2>2 DEF Good, Complete
    <2>4. Answering(j) /\ ~j.lost /\ Honest(j.msg) =>
             j.tally.all /\ (j.tally.signed = 0 => j.todo # <<>>)
      BY <1>4, <1>6, <2>1, <2>2 DEF Good, Complete
    <2>5. (j.pc = "done" \/ j.section = "authority") /\ ~j.lost /\ Honest(j.msg) => j.verdict = "Secure"
      BY <1>4 DEF Good, Complete
    <2> QED BY <2>3, <2>4, <2>5 DEF Complete
  <1> QED BY <1>5, <1>7, <1>8, <1>9 DEF Good, j

(* A fresh validation is good. *)
LEMMA FreshGood == Good(Fresh)
  <1>1. <<>> \in Seq(Groups) /\ <<>> \in Seq(Published)
    OBVIOUS
  <1>2. Fresh \in Validation
    <2>1. Tally \in [signed : Nat, authenticated : Nat, all : BOOLEAN,
                     worst : {"Insecure", "Bogus", "Indeterminate"}]
      BY DEF Tally
    <2> HIDE DEF Tally
    <2> QED BY <1>1, <2>1 DEF Fresh, Validation
  <1> QED BY <1>2 DEF Good, Trying, Sound, Complete, Answering, Fresh

(* Begin: nothing to validate, the guard taken, or every group on the list. *)
LEMMA BegunGood ==
    ASSUME NEW m \in Messages
    PROVE  LET r == [Fresh EXCEPT !.msg = m]
           IN  /\ m.answers = {} => Good([r EXCEPT !.pc = "done", !.verdict = "Insecure"])
               /\ Good([r EXCEPT !.pc = "done", !.verdict = "Indeterminate", !.lost = TRUE])
               /\ m.answers # {} => Good([r EXCEPT !.pc = "group", !.todo = SetToSeq(m.answers)])
  <1> DEFINE r == [Fresh EXCEPT !.msg = m]
             x == [r EXCEPT !.pc = "done", !.verdict = "Insecure"]
             y == [r EXCEPT !.pc = "done", !.verdict = "Indeterminate", !.lost = TRUE]
             z == [r EXCEPT !.pc = "group", !.todo = SetToSeq(m.answers)]
  <1>1. SetToSeq(m.answers) \in Seq(m.answers) /\ ToSet(SetToSeq(m.answers)) = m.answers
    BY DnssecAssumption, AllListed
  <1>2. SetToSeq(m.answers) \in Seq(Groups)
    <2>1. m.answers \subseteq Groups
      BY DEF Groups
    <2> QED BY <1>1, <2>1
  <1>3. Fresh \in Validation
    BY FreshGood DEF Good
  <1>4. x \in Validation /\ y \in Validation /\ z \in Validation
    BY <1>2, <1>3 DEF Validation
  <1>5. /\ x.pc = "done" /\ x.msg = m /\ x.section = "answer" /\ x.verdict = "Insecure"
        /\ y.pc = "done" /\ y.msg = m /\ y.section = "answer" /\ y.verdict = "Indeterminate" /\ y.lost = TRUE
        /\ z.pc = "group" /\ z.msg = m /\ z.section = "answer" /\ z.verdict = "none"
        /\ z.todo = SetToSeq(m.answers) /\ z.tally.all = TRUE
    BY DEF Fresh, Tally
  <1> HIDE DEF x, y, z
  <1>6. m.answers = {} => Good(x)
    BY <1>4, <1>5 DEF Good, Trying, Sound, Complete, Answering, Honest
  <1>7. Good(y)
    BY <1>4, <1>5 DEF Good, Trying, Sound, Complete, Answering
  <1>8. ASSUME m.answers # {} PROVE Good(z)
    <2>1. z.todo # <<>>
      <3>1. \A u : u \in ToSet(z.todo) => z.todo # <<>>
        BY DEF ToSet
      <3> QED BY <1>1, <1>5, <1>8, <3>1
    <2> QED BY <1>1, <1>4, <1>5, <2>1 DEF Good, Trying, Sound, Complete, Answering
  <1> QED BY <1>6, <1>7, <1>8 DEF x, y, z

(* Group: an unsigned group spoils the answer, and has no place in an honest
   message; a signed one sets out to try the keys of its signer. *)
LEMMA PassedGood ==
    ASSUME NEW r, Good(r), r.pc = "group", r.todo # <<>>, Covered(r) = {}
    PROVE  Good([r EXCEPT !.todo = Tail(r.todo), !.tally = Unsigned(r.tally)])
  <1> DEFINE j == [r EXCEPT !.todo = Tail(r.todo), !.tally = Unsigned(r.tally)]
  <1>1. r \in Validation /\ r.msg \in Messages
    BY DEF Good, Trying
  <1>2. Tail(r.todo) \in Seq(Groups) /\ ToSet(r.todo) = {Head(r.todo)} \union ToSet(Tail(r.todo))
    <2>1. r.todo \in Seq(Groups)
      BY <1>1 DEF Validation
    <2> QED BY <2>1, HeadAndTail
  <1>3. /\ Unsigned(r.tally) \in [signed : Nat, authenticated : Nat, all : BOOLEAN,
                                  worst : {"Insecure", "Bogus", "Indeterminate"}]
        /\ Unsigned(r.tally).all = FALSE
    BY <1>1 DEF Unsigned, Validation
  <1>4. j \in Validation
    BY <1>1, <1>2, <1>3 DEF Validation
  <1>5. /\ j.pc = "group" /\ j.msg = r.msg /\ j.section = r.section /\ j.todo = Tail(r.todo)
        /\ j.tally = Unsigned(r.tally) /\ j.verdict = r.verdict /\ j.lost = r.lost
    BY <1>1 DEF Validation
  <1> HIDE DEF j
  <1>6. ASSUME Answering(j) PROVE ~Honest(r.msg)
    <2>1. Head(r.todo) \in r.msg.answers /\ r.section = "answer"
      BY <1>2, <1>5, <1>6 DEF Good, Complete, Answering
    <2> QED BY <1>1, <2>1, HonestGroupVerifies
  <1>7. Trying(j)
    BY <1>1, <1>5 DEF Trying
  <1>8. Sound(j)
    BY <1>3, <1>5 DEF Sound, Good
  <1>9. Complete(j)
    BY <1>2, <1>5, <1>6 DEF Complete, Good, Answering
  <1> QED BY <1>4, <1>7, <1>8, <1>9 DEF Good, j

LEMMA TriedGood ==
    ASSUME NEW r, Good(r), r.pc = "group", r.todo # <<>>, Covered(r) # {}
    PROVE  Good([r EXCEPT !.pc = "key", !.keys = Signer(r).keys, !.left = Signer(r).keys])
  <1> DEFINE ks == Signer(r).keys
             j == [r EXCEPT !.pc = "key", !.keys = ks, !.left = ks]
  <1>1. r \in Validation /\ r.msg \in Messages
    BY DEF Good, Trying
  <1>2. ks \in Seq(Published) /\ ks \in Seq(ToSet(ks))
    BY <1>1, CoveringSound
  <1> HIDE DEF ks
  <1>3. j \in Validation
    BY <1>1, <1>2 DEF Validation
  <1>4. /\ j.pc = "key" /\ j.msg = r.msg /\ j.section = r.section /\ j.todo = r.todo
        /\ j.tally = r.tally /\ j.verdict = r.verdict /\ j.lost = r.lost /\ j.keys = ks /\ j.left = ks
    BY <1>1 DEF Validation
  <1> HIDE DEF j
  <1>5. Covered(j) = Covered(r) /\ Signer(j) = Signer(r)
    BY <1>4 DEF Covered, Signer, Sigs
  <1>6. Trying(j)
    BY <1>1, <1>2, <1>4, <1>5 DEF Trying, ks
  <1>7. Sound(j) /\ Complete(j)
    BY <1>4 DEF Good, Sound, Complete, Answering
  <1> QED BY <1>3, <1>6, <1>7 DEF Good, j, ks

(* Key: the next key's turn, with or without its DS records. *)
LEMMA NextKeyGood ==
    ASSUME NEW r, Good(r), r.pc = "key", r.left # <<>>, NEW lost \in BOOLEAN, r.lost => lost
    PROVE  Good([r EXCEPT !.left = Tail(r.left), !.lost = lost])
  <1> DEFINE j == [r EXCEPT !.left = Tail(r.left), !.lost = lost]
  <1>1. r \in Validation /\ r.msg \in Messages /\ r.left \in Seq(ToSet(r.keys))
    BY DEF Good, Trying
  <1>2. Tail(r.left) \in Seq(Published) /\ Tail(r.left) \in Seq(ToSet(r.keys))
    <2>1. r.left \in Seq(Published)
      BY <1>1 DEF Validation
    <2> QED BY <1>1, <2>1, HeadAndTail
  <1>3. j \in Validation
    BY <1>1, <1>2 DEF Validation
  <1>4. /\ j.pc = "key" /\ j.msg = r.msg /\ j.section = r.section /\ j.todo = r.todo
        /\ j.tally = r.tally /\ j.verdict = r.verdict /\ j.lost = lost /\ j.keys = r.keys
        /\ j.left = Tail(r.left)
    BY <1>1 DEF Validation
  <1> HIDE DEF j
  <1>5. Covered(j) = Covered(r) /\ Signer(j) = Signer(r)
    BY <1>4 DEF Covered, Signer, Sigs
  <1>6. Trying(j)
    BY <1>1, <1>2, <1>4, <1>5 DEF Trying, Good
  <1>7. Sound(j) /\ Complete(j)
    BY <1>4 DEF Good, Sound, Complete, Answering
  <1> QED BY <1>3, <1>6, <1>7 DEF Good, j

(* A step that leaves `lost` alone. *)
LEMMA KeepsLost ==
    ASSUME NEW r \in Validation, NEW v
    PROVE  /\ Judged(r, v) = [Judged(r, v) EXCEPT !.lost = r.lost]
           /\ [r EXCEPT !.left = Tail(r.left)] = [r EXCEPT !.left = Tail(r.left), !.lost = r.lost]
           /\ [[r EXCEPT !.left = Tail(r.left)] EXCEPT !.lost = TRUE]
                 = [r EXCEPT !.left = Tail(r.left), !.lost = TRUE]
  BY DEF Validation, Judged

(* Key: when every key has had its turn, the shared rule decides. *)
LEMMA RuleIsRight ==
    ASSUME NEW r, Good(r), r.pc = "key"
    PROVE  LET v == validate_rrset(Head(r.todo), {Sigs(r)[i] : i \in Covered(r)}, r.keys)
           IN  /\ v \in {"Secure", "Insecure", "Bogus", "Indeterminate"}
               /\ r.section = "answer" /\ v = "Secure" => Signed(r.msg, Head(r.todo))
               /\ r.section = "answer" /\ Honest(r.msg) => v = "Secure"
  <1> DEFINE g == Head(r.todo)
             sigs == {Sigs(r)[i] : i \in Covered(r)}
             seen(x) == \E i \in DOMAIN r.keys, s \in sigs : verify_rrsig(r.keys[i], s, g) = x
             v == validate_rrset(g, sigs, r.keys)
  <1>1. r \in Validation /\ r.msg \in Messages /\ r.todo # <<>> /\ Covered(r) # {} /\ r.keys = Signer(r).keys
    BY DEF Good, Trying
  <1>2. r.keys \in Seq(Published) /\ r.todo \in Seq(Groups)
    BY <1>1 DEF Validation
  <1>3. sigs # {}
    BY <1>1
  <1>4. v = IF seen("good") THEN "Secure" ELSE IF seen("bad") THEN "Bogus" ELSE "Indeterminate"
    BY <1>3 DEF validate_rrset
  <1> HIDE DEF v
  <1>5. ASSUME r.section = "answer", v = "Secure" PROVE Signed(r.msg, g)
    <2>1. PICK i \in DOMAIN r.keys, s \in sigs : verify_rrsig(r.keys[i], s, g) = "good"
      BY <1>4, <1>5
    <2>2. PICK n \in Covered(r) : s = Sigs(r)[n]
      OBVIOUS
    <2>3. r.keys[i] \in Published
      BY <1>2
    <2> QED BY <1>1, <1>5, <2>1, <2>2, <2>3, VerifiedIsSigned
  <1>6. ASSUME r.section = "answer", Honest(r.msg) PROVE v = "Secure"
    <2>1. g \in r.msg.answers
      <3>1. g \in ToSet(r.todo)
        BY <1>1, <1>2, HeadAndTail
      <3> QED BY <1>6, <3>1 DEF Good, Complete, Answering
    <2>2. PICK k \in ToSet(r.keys), n \in Covered(r) : verify_rrsig(k, Sigs(r)[n], g) = "good"
      BY <1>1, <1>6, <2>1, HonestGroupVerifies
    <2>3. PICK i \in DOMAIN r.keys : k = r.keys[i]
      BY DEF ToSet
    <2>4. Sigs(r)[n] \in sigs
      OBVIOUS
    <2>5. seen("good")
      BY <2>2, <2>3, <2>4
    <2> QED BY <1>4, <2>5
  <1>7. v \in {"Secure", "Insecure", "Bogus", "Indeterminate"}
    BY <1>4
  <1> QED BY <1>5, <1>6, <1>7 DEF v

(* Conclude: the answer is verified only if the tally holds every group, and
   an honest one is. *)
LEMMA VerdictIsRight ==
    ASSUME NEW r, Good(r), r.pc = "group", r.todo = <<>>, r.section = "answer"
    PROVE  /\ Verdict(r.tally) \in {"Secure", "Insecure", "Bogus", "Indeterminate"}
           /\ Verdict(r.tally) = "Secure" => \A g \in r.msg.answers : Signed(r.msg, g)
           /\ ~r.lost /\ Honest(r.msg) => Verdict(r.tally) = "Secure"
  <1>1. r \in Validation /\ Answering(r)
    BY DEF Good, Answering
  <1>2. r.tally.signed \in Nat /\ r.tally.worst \in {"Insecure", "Bogus", "Indeterminate"}
    BY <1>1 DEF Validation
  <1>3. ToSet(r.todo) = {}
    BY DEF ToSet
  <1>4. Verdict(r.tally) = "Secure" => r.tally.all
    BY <1>2 DEF Verdict
  <1>5. r.tally.all => \A g \in r.msg.answers : Signed(r.msg, g)
    BY <1>1, <1>3 DEF Good, Sound
  <1>6. ~r.lost /\ Honest(r.msg) => r.tally.all /\ r.tally.signed # 0
    BY <1>1 DEF Good, Complete
  <1>7. r.tally.all /\ r.tally.signed # 0 => Verdict(r.tally) = "Secure"
    BY <1>2 DEF Verdict
  <1>8. Verdict(r.tally) \in {"Secure", "Insecure", "Bogus", "Indeterminate"}
    BY <1>2 DEF Verdict
  <1> QED BY <1>4, <1>5, <1>6, <1>7, <1>8

LEMMA ConcludedGood ==
    ASSUME NEW r, Good(r), r.pc = "group", r.todo = <<>>, r.section = "answer",
           NEW rest \in Seq(Groups)
    PROVE  LET a == [r EXCEPT !.verdict = Verdict(r.tally)]
           IN  /\ Good([a EXCEPT !.pc = "done"])
               /\ Good([a EXCEPT !.section = "authority", !.todo = rest, !.tally = Tally])
  <1> DEFINE v == Verdict(r.tally)
             a == [r EXCEPT !.verdict = v]
             x == [a EXCEPT !.pc = "done"]
             y == [a EXCEPT !.section = "authority", !.todo = rest, !.tally = Tally]
  <1>1. r \in Validation /\ r.msg \in Messages
    BY DEF Good, Trying
  <1>2. /\ v \in {"Secure", "Insecure", "Bogus", "Indeterminate"}
        /\ v = "Secure" => \A g \in r.msg.answers : Signed(r.msg, g)
        /\ ~r.lost /\ Honest(r.msg) => v = "Secure"
    BY VerdictIsRight
  <1> HIDE DEF v
  <1>3. Tally \in [signed : Nat, authenticated : Nat, all : BOOLEAN,
                   worst : {"Insecure", "Bogus", "Indeterminate"}]
    BY DEF Tally
  <1>4. x \in Validation
    BY <1>1, <1>2 DEF Validation
  <1>5. y \in Validation
    BY <1>1, <1>2, <1>3 DEF Validation
  <1>6. /\ x.pc = "done" /\ x.msg = r.msg /\ x.verdict = v /\ x.lost = r.lost
        /\ y.pc = "group" /\ y.section = "authority" /\ y.msg = r.msg /\ y.verdict = v /\ y.lost = r.lost
    BY <1>1 DEF Validation
  <1> HIDE DEF x, y
  <1>7. Good(x)
    BY <1>1, <1>2, <1>4, <1>6 DEF Good, Trying, Sound, Complete, Answering
  <1>8. Good(y)
    BY <1>1, <1>2, <1>5, <1>6 DEF Good, Trying, Sound, Complete, Answering
  <1> QED BY <1>7, <1>8 DEF x, y, v

LEMMA ClosedGood ==
    ASSUME NEW r, Good(r), r.pc = "group", r.section = "authority", NEW a \in {"yes", "no"}
    PROVE  Good([r EXCEPT !.pc = "done", !.authority = a])
  <1> DEFINE x == [r EXCEPT !.pc = "done", !.authority = a]
  <1>1. r \in Validation /\ r.msg \in Messages
    BY DEF Good, Trying
  <1>2. x \in Validation
    BY <1>1 DEF Validation
  <1>3. x.pc = "done" /\ x.msg = r.msg /\ x.verdict = r.verdict /\ x.lost = r.lost
    BY <1>1 DEF Validation
  <1> HIDE DEF x
  <1> QED BY <1>1, <1>2, <1>3 DEF Good, Trying, Sound, Complete, Answering, x

-----------------------------------------------------------------------------
(* The steps *)

LEMMA TurnKeepsGood ==
    ASSUME IInv, NEW t \in Validators, NEW x, Good(x), Turns(t, x)
    PROVE  IInv'
  BY DEF IInv, Turns

LEMMA InvStart == DnssecInit => IInv
  BY FreshGood DEF DnssecInit, IInv

LEMMA BeginKeeps ==
    ASSUME IInv, NEW t \in Validators, NEW m \in Messages, Begin(t, m)
    PROVE  IInv'
  <1> DEFINE r == [Fresh EXCEPT !.msg = m]
  <1>1. \/ m.answers = {} /\ Turns(t, [r EXCEPT !.pc = "done", !.verdict = "Insecure"])
        \/ Turns(t, [r EXCEPT !.pc = "done", !.verdict = "Indeterminate", !.lost = TRUE])
        \/ m.answers # {} /\ Turns(t, [r EXCEPT !.pc = "group", !.todo = SetToSeq(m.answers)])
    BY Zenon DEF Begin
  <1> QED BY <1>1, BegunGood, TurnKeepsGood

LEMMA GroupKeeps ==
    ASSUME IInv, NEW t \in Validators, Group(t)
    PROVE  IInv'
  <1> DEFINE r == val[t]
  <1>1. Good(r) /\ r.pc = "group" /\ r.todo # <<>>
    BY DEF IInv, Group
  <1>2. r \in Validation /\ r.msg \in Messages
    BY <1>1 DEF Good, Trying
  <1>3. CASE Covered(r) = {} /\ Turns(t, [r EXCEPT !.todo = Tail(r.todo), !.tally = Unsigned(r.tally)])
    <2>1. Good([r EXCEPT !.todo = Tail(r.todo), !.tally = Unsigned(r.tally)])
      BY <1>1, <1>3, PassedGood
    <2> QED BY <1>3, <2>1, TurnKeepsGood
  <1>4. CASE Turns(t, [Judged(r, "Indeterminate") EXCEPT !.lost = TRUE])
    <2>1. Good([Judged(r, "Indeterminate") EXCEPT !.lost = TRUE])
      BY <1>1, JudgedGood
    <2> QED BY <1>4, <2>1, TurnKeepsGood
  <1>5. CASE Covered(r) # {} /\ Signer(r).keys = <<>> /\ Turns(t, Judged(r, "Indeterminate"))
    <2>1. ~(r.section = "answer" /\ Honest(r.msg))
      <3> SUFFICES ASSUME r.section = "answer", Honest(r.msg) PROVE FALSE
        OBVIOUS
      <3>1. Head(r.todo) \in r.msg.answers
        <4>1. Head(r.todo) \in ToSet(r.todo)
          BY <1>1, <1>2, HeadAndTail DEF Validation
        <4> QED BY <1>1, <4>1 DEF Good, Complete, Answering
      <3>2. \E k \in ToSet(Signer(r).keys) : TRUE
        BY <1>2, <3>1, HonestGroupVerifies
      <3> QED BY <1>5, <3>2 DEF ToSet
    <2>2. r.lost \in BOOLEAN
      BY <1>2 DEF Validation
    <2>3. Good([Judged(r, "Indeterminate") EXCEPT !.lost = r.lost])
      BY <1>1, <2>1, <2>2, JudgedGood
    <2>4. Good(Judged(r, "Indeterminate"))
      BY <1>2, <2>3, KeepsLost
    <2> QED BY <1>5, <2>4, TurnKeepsGood
  <1>6. CASE Covered(r) # {} /\ Turns(t, [r EXCEPT !.pc = "key", !.keys = Signer(r).keys, !.left = Signer(r).keys])
    <2>1. Good([r EXCEPT !.pc = "key", !.keys = Signer(r).keys, !.left = Signer(r).keys])
      BY <1>1, <1>6, TriedGood
    <2> QED BY <1>6, <2>1, TurnKeepsGood
  <1> QED BY <1>3, <1>4, <1>5, <1>6, Zenon DEF Group

LEMMA KeyKeeps ==
    ASSUME IInv, NEW t \in Validators, Key(t)
    PROVE  IInv'
  <1> DEFINE r == val[t]
             g == Head(r.todo)
             k == Head(r.left)
             sigs == {Sigs(r)[i] : i \in Covered(r)}
             signs == \E s \in sigs : verify_rrsig(k, s, g) = "good"
             next == [r EXCEPT !.left = Tail(r.left)]
  <1>1. Good(r) /\ r.pc = "key"
    BY DEF IInv, Key
  <1>2. /\ r \in Validation /\ r.msg \in Messages /\ r.todo # <<>>
        /\ r.lost \in BOOLEAN /\ r.left \in Seq(Published)
    BY <1>1 DEF Good, Trying, Validation
  <1>3. CASE Turns(t, Judged(r, validate_rrset(g, sigs, r.keys)))
    <2> DEFINE v == validate_rrset(g, sigs, r.keys)
    <2>1. /\ v \in {"Secure", "Insecure", "Bogus", "Indeterminate"}
          /\ r.section = "answer" /\ v = "Secure" => Signed(r.msg, g)
          /\ r.section = "answer" /\ Honest(r.msg) => v = "Secure"
      BY <1>1, RuleIsRight
    <2> HIDE DEF v
    <2>2. Good([Judged(r, v) EXCEPT !.lost = r.lost])
      BY <1>1, <1>2, <2>1, JudgedGood
    <2>3. Good(Judged(r, v))
      BY <1>2, <2>2, KeepsLost
    <2> QED BY <1>3, <2>3, TurnKeepsGood DEF v
  <1>4. CASE r.left # <<>> /\ Turns(t, next)
    <2>1. Good([r EXCEPT !.left = Tail(r.left), !.lost = r.lost])
      BY <1>1, <1>2, <1>4, NextKeyGood
    <2>2. Good(next)
      BY <1>2, <2>1, KeepsLost
    <2> QED BY <1>4, <2>2, TurnKeepsGood
  <1>5. CASE r.left # <<>> /\ Turns(t, [next EXCEPT !.lost = TRUE])
    <2>1. Good([r EXCEPT !.left = Tail(r.left), !.lost = TRUE])
      BY <1>1, <1>5, NextKeyGood
    <2>2. Good([next EXCEPT !.lost = TRUE])
      BY <1>2, <2>1, KeepsLost
    <2> QED BY <1>5, <2>2, TurnKeepsGood
  <1>6. CASE r.left # <<>> /\ signs /\ Turns(t, Judged(r, "Secure"))
    <2>1. k \in Published
      BY <1>2, <1>6, HeadAndTail
    <2>2. PICK i \in Covered(r) : verify_rrsig(k, Sigs(r)[i], g) = "good"
      BY <1>6
    <2>3. r.section = "answer" => Signed(r.msg, g)
      BY <1>2, <2>1, <2>2, VerifiedIsSigned
    <2>4. Good([Judged(r, "Secure") EXCEPT !.lost = r.lost])
      BY <1>1, <1>2, <2>3, JudgedGood
    <2>5. Good(Judged(r, "Secure"))
      BY <1>2, <2>4, KeepsLost
    <2> QED BY <1>6, <2>5, TurnKeepsGood
  <1> QED BY <1>3, <1>4, <1>5, <1>6, Zenon DEF Key

LEMMA ConcludeKeeps ==
    ASSUME IInv, NEW t \in Validators, Conclude(t)
    PROVE  IInv'
  <1> DEFINE r == val[t]
             relevant == {g \in r.msg.authority : g.type \in {"SOA", "NSEC", "NSEC3", "NS"}}
             answered == [r EXCEPT !.verdict = Verdict(r.tally)]
             a == IF r.tally.signed \in 1 .. r.tally.authenticated THEN "yes" ELSE "no"
  <1>1. Good(r) /\ r.pc = "group" /\ r.todo = <<>>
    BY DEF IInv, Conclude
  <1>2. r \in Validation /\ r.msg \in Messages /\ r.section \in {"answer", "authority"}
    BY <1>1 DEF Good, Trying, Validation
  <1>3. SetToSeq(relevant) \in Seq(Groups)
    <2>1. relevant \in SUBSET r.msg.authority /\ IsFiniteSet(r.msg.authority)
      BY <1>2, DnssecAssumption
    <2>2. IsFiniteSet(relevant)
      BY <2>1, FS_Subset
    <2>3. relevant \subseteq Groups
      BY <1>2 DEF Groups
    <2> HIDE DEF relevant
    <2>4. SetToSeq(relevant) \in Seq(relevant)
      BY <2>2, AllListed
    <2> QED BY <2>3, <2>4
  <1> HIDE DEF relevant
  <1>4. a \in {"yes", "no"}
    OBVIOUS
  <1> HIDE DEF a
  <1>5. CASE r.section = "answer" /\ Turns(t, [answered EXCEPT !.section = "authority",
                                               !.todo = SetToSeq(relevant), !.tally = Tally])
    <2>1. Good([answered EXCEPT !.section = "authority", !.todo = SetToSeq(relevant), !.tally = Tally])
      BY <1>1, <1>3, <1>5, ConcludedGood
    <2> QED BY <1>5, <2>1, TurnKeepsGood
  <1>6. CASE r.section = "answer" /\ Turns(t, [answered EXCEPT !.pc = "done"])
    <2>1. Good([answered EXCEPT !.pc = "done"])
      BY <1>1, <1>3, <1>6, ConcludedGood
    <2> QED BY <1>6, <2>1, TurnKeepsGood
  <1>7. CASE r.section # "answer" /\ Turns(t, [r EXCEPT !.pc = "done", !.authority = a])
    <2>1. Good([r EXCEPT !.pc = "done", !.authority = a])
      BY <1>1, <1>2, <1>4, <1>7, ClosedGood
    <2> QED BY <1>7, <2>1, TurnKeepsGood
  <1> QED BY <1>5, <1>6, <1>7, Zenon DEF Conclude, relevant, a

LEMMA InvStep == IInv /\ [DnssecNext]_dnssecVars => IInv'
  <1> SUFFICES ASSUME IInv, [DnssecNext]_dnssecVars PROVE IInv'
    OBVIOUS
  <1>1. CASE UNCHANGED dnssecVars
    BY <1>1 DEF IInv, dnssecVars
  <1>2. CASE DnssecNext
    BY <1>2, BeginKeeps, GroupKeeps, KeyKeeps, ConcludeKeeps DEF DnssecNext
  <1> QED BY <1>1, <1>2

-----------------------------------------------------------------------------
(* The theorems *)

(* A verdict counts as verified only when it is Secure. *)
LEMMA OnlySecureCounts ==
    ASSUME NEW v \in {"none", "Secure", "Insecure", "Bogus", "Indeterminate"}
    PROVE  is_signature_verified(v) <=> v = "Secure"
  <1>1. CASE v = "Secure"
    BY <1>1 DEF is_signature_verified, State
  <1>2. CASE v # "Secure"
    BY <1>2 DEF is_signature_verified, State
  <1> QED BY <1>1, <1>2

(* validate_resolution_detailed: in every behaviour an answer counts as
   verified only if each of its RRsets carries a signature in force, by a
   published key, over that very RRset (AllRule), whatever signatures come with
   it, in whatever order, and whichever fetches of DNSKEY or DS records fail. *)
THEOREM EveryRRsetIsSigned == DnssecSpec => []AllRule
  <1>1. IInv => AllRule
    <2> SUFFICES ASSUME IInv, NEW t \in Verified, NEW g \in val[t].msg.answers
                 PROVE  \E k \in Published : SignedBy(k, val[t].msg, g)
      BY DEF AllRule
    <2>1. t \in Validators /\ is_signature_verified(val[t].verdict)
      BY DEF Verified
    <2>2. Good(val[t]) /\ val[t].verdict \in {"none", "Secure", "Insecure", "Bogus", "Indeterminate"}
      BY <2>1 DEF IInv, Good, Validation
    <2>3. val[t].verdict = "Secure"
      BY <2>1, <2>2, OnlySecureCounts
    <2> QED BY <2>2, <2>3 DEF Good, Sound, Signed
  <1> QED BY <1>1, InvStart, InvStep, PTL DEF DnssecSpec

(* An answer whose every RRset is signed by a key with a DS, of the zone that
   the first signature covering it names, is verified, whatever else it carries,
   unless a nested resolution failed or the guard was taken (HonestIsVerified). *)
THEOREM HonestAnswersVerify == DnssecSpec => []HonestIsVerified
  <1>1. IInv => HonestIsVerified
    <2> SUFFICES ASSUME IInv, NEW t \in Validators,
                        val[t].pc = "done", ~val[t].lost, val[t].msg.answers # {},
                        \A g \in val[t].msg.answers : \E k \in Published :
                            /\ SignedBy(k, val[t].msg, g)
                            /\ Contains(Signers[FirstSigner(val[t].msg, g)].keys, k)
                 PROVE  t \in Verified
      BY Zenon DEF HonestIsVerified
    <2>1. Honest(val[t].msg)
      BY Zenon DEF Honest
    <2>2. val[t].verdict = "Secure"
      BY <2>1 DEF IInv, Good, Complete
    <2> QED BY <2>2, OnlySecureCounts DEF Verified
  <1> QED BY <1>1, InvStart, InvStep, PTL DEF DnssecSpec

-----------------------------------------------------------------------------
(* The codec: counting, and loops as counted turns *)

(* A set of numbers that holds zero and every successor holds them all. *)
LEMMA Counting ==
    ASSUME NEW T \in SUBSET Nat, 0 \in T, \A k \in T : k + 1 \in T
    PROVE  T = Nat
  <1> DEFINE R == {p \in Nat \X Nat : p[1] < p[2]}
             Rest == Nat \ T
  <1>1. IsWellFoundedOn(R, Nat)
    BY NatLessThanWellFounded, Zenon DEF OpToRel
  <1>2. \A j, m \in Nat : j < m => << j, m >> \in R
    OBVIOUS
  <1> HIDE DEF R
  <1>3. ASSUME Rest # {} PROVE FALSE
    <2>1. PICK m \in Rest : \A j \in Rest : << j, m >> \notin R
      BY <1>1, <1>3, WFMin
    <2>2. m \in Nat /\ m # 0 /\ m - 1 \in Nat /\ m - 1 < m  BY <2>1
    <2>3. m - 1 \in T  BY <1>2, <2>1, <2>2
    <2>4. (m - 1) + 1 \in T  BY <2>3
    <2> QED BY <2>1, <2>2, <2>4
  <1> QED BY <1>3

(* The fields of a record are written one behind the other. *)
LEMMA FieldsInTurn ==
    ASSUME NEW w, NEW type, NEW fields, Len(Written[Type(type)]) \in Nat
    PROVE  \E g : /\ g[0] = w
                  /\ \A i \in 1..Len(Written[Type(type)]) : g[i] = write_field(g[i - 1], Written[Type(type)][i], fields[i])
                  /\ rdata_to_wire(w, type, fields) = g[Len(Written[Type(type)])]
  <1> DEFINE n0 == Len(Written[Type(type)])
             x0 == w
             Step(d, i) == write_field(d, Written[Type(type)][i], fields[i])
             Run(k, g) == g = [i \in 0..k |-> IF i = 0 THEN x0 ELSE Step(g[i - 1], i)]
             T == {k \in Nat : \E g : Run(k, g)}
             r == CHOOSE g : Run(n0, g)
  <1>0. n0 \in Nat
    OBVIOUS
  <1>1. rdata_to_wire(w, type, fields) = r[n0]
    BY DEF rdata_to_wire
  <1> HIDE DEF Step, x0, n0
  <1>2. 0 \in T
    <2> DEFINE g == [i \in 0..0 |-> x0]
    <2>1. Run(0, g)  OBVIOUS
    <2> HIDE DEF g, Run
    <2> QED BY <2>1
  <1>3. ASSUME NEW k \in T PROVE k + 1 \in T
    <2>1. k \in Nat  OBVIOUS
    <2>2. PICK g : Run(k, g)  BY <1>3
    <2> DEFINE h == [i \in 0..(k + 1) |-> IF i = k + 1 THEN Step(g[k], k + 1) ELSE g[i]]
               e == [i \in 0..(k + 1) |-> IF i = 0 THEN x0 ELSE Step(h[i - 1], i)]
    <2>3. \A i \in 0..k : g[i] = IF i = 0 THEN x0 ELSE Step(g[i - 1], i)  BY <2>2
    <2>4. \A i \in 0..k : h[i] = g[i]  BY <2>1
    <2>5. h[k + 1] = Step(h[k], k + 1)  BY <2>1, <2>4
    <2>6. \A i \in 0..k : i # 0 => h[i] = Step(h[i - 1], i)
      <3>1. TAKE i \in 0..k
      <3>2. i # 0 => i - 1 \in 0..k  BY <2>1
      <3> HIDE DEF h
      <3> QED BY <2>3, <2>4, <3>2
    <2>7. h[0] = x0  BY <2>1, <2>3, <2>4
    <2>8. \A i \in 0..(k + 1) : h[i] = IF i = 0 THEN x0 ELSE Step(h[i - 1], i)
      <3> HIDE DEF h
      <3>1. TAKE i \in 0..(k + 1)
      <3>2. CASE i = k + 1
        <4>1. i - 1 = k /\ i # 0  BY <2>1, <3>2
        <4> QED BY <2>5, <3>2, <4>1
      <3>3. CASE i \in 0..k
        BY <2>6, <2>7, <3>3
      <3> QED BY <2>1, <3>2, <3>3
    <2>9. h = e
      <3>1. h = [i \in 0..(k + 1) |-> h[i]]  OBVIOUS
      <3> HIDE DEF h
      <3> QED BY <2>8, <3>1
    <2>10. Run(k + 1, h)  BY <2>9
    <2> HIDE DEF h, Run
    <2> QED BY <2>1, <2>10
  <1>4. T = Nat
    <2> HIDE DEF Run
    <2>1. T \in SUBSET Nat  OBVIOUS
    <2> HIDE DEF T
    <2> QED BY <1>2, <1>3, <2>1, Counting
  <1>5. Run(n0, r)
    <2> HIDE DEF Run, r
    <2>1. \E g : Run(n0, g)  BY <1>4, <1>0
    <2> QED BY <2>1 DEF r
  <1> HIDE DEF r
  <1>6. r[0] = x0 /\ \A i \in 1..n0 : r[i] = Step(r[i - 1], i)
    BY <1>5, <1>0
  <1>7. \A i \in 1..Len(Written[Type(type)]) : r[i] = write_field(r[i - 1], Written[Type(type)][i], fields[i])
    BY <1>6 DEF Step, n0
  <1>8. r[0] = w
    BY <1>6 DEF x0
  <1>9. rdata_to_wire(w, type, fields) = r[Len(Written[Type(type)])]
    BY <1>1 DEF n0
  <1> QED BY <1>7, <1>8, <1>9, Zenon

(* So are the questions of a message ... *)
LEMMA QuestionsInTurn ==
    ASSUME NEW w, NEW questions, Len(questions) \in Nat
    PROVE  \E g : /\ g[0] = w
                  /\ \A i \in 1..Len(questions) : g[i] = write_question(g[i - 1], questions[i])
                  /\ questions_to_wire(w, questions) = g[Len(questions)]
  <1> DEFINE n0 == Len(questions)
             x0 == w
             Step(d, i) == write_question(d, questions[i])
             Run(k, g) == g = [i \in 0..k |-> IF i = 0 THEN x0 ELSE Step(g[i - 1], i)]
             T == {k \in Nat : \E g : Run(k, g)}
             r == CHOOSE g : Run(n0, g)
  <1>0. n0 \in Nat
    OBVIOUS
  <1>1. questions_to_wire(w, questions) = r[n0]
    BY DEF questions_to_wire
  <1> HIDE DEF Step, x0, n0
  <1>2. 0 \in T
    <2> DEFINE g == [i \in 0..0 |-> x0]
    <2>1. Run(0, g)  OBVIOUS
    <2> HIDE DEF g, Run
    <2> QED BY <2>1
  <1>3. ASSUME NEW k \in T PROVE k + 1 \in T
    <2>1. k \in Nat  OBVIOUS
    <2>2. PICK g : Run(k, g)  BY <1>3
    <2> DEFINE h == [i \in 0..(k + 1) |-> IF i = k + 1 THEN Step(g[k], k + 1) ELSE g[i]]
               e == [i \in 0..(k + 1) |-> IF i = 0 THEN x0 ELSE Step(h[i - 1], i)]
    <2>3. \A i \in 0..k : g[i] = IF i = 0 THEN x0 ELSE Step(g[i - 1], i)  BY <2>2
    <2>4. \A i \in 0..k : h[i] = g[i]  BY <2>1
    <2>5. h[k + 1] = Step(h[k], k + 1)  BY <2>1, <2>4
    <2>6. \A i \in 0..k : i # 0 => h[i] = Step(h[i - 1], i)
      <3>1. TAKE i \in 0..k
      <3>2. i # 0 => i - 1 \in 0..k  BY <2>1
      <3> HIDE DEF h
      <3> QED BY <2>3, <2>4, <3>2
    <2>7. h[0] = x0  BY <2>1, <2>3, <2>4
    <2>8. \A i \in 0..(k + 1) : h[i] = IF i = 0 THEN x0 ELSE Step(h[i - 1], i)
      <3> HIDE DEF h
      <3>1. TAKE i \in 0..(k + 1)
      <3>2. CASE i = k + 1
        <4>1. i - 1 = k /\ i # 0  BY <2>1, <3>2
        <4> QED BY <2>5, <3>2, <4>1
      <3>3. CASE i \in 0..k
        BY <2>6, <2>7, <3>3
      <3> QED BY <2>1, <3>2, <3>3
    <2>9. h = e
      <3>1. h = [i \in 0..(k + 1) |-> h[i]]  OBVIOUS
      <3> HIDE DEF h
      <3> QED BY <2>8, <3>1
    <2>10. Run(k + 1, h)  BY <2>9
    <2> HIDE DEF h, Run
    <2> QED BY <2>1, <2>10
  <1>4. T = Nat
    <2> HIDE DEF Run
    <2>1. T \in SUBSET Nat  OBVIOUS
    <2> HIDE DEF T
    <2> QED BY <1>2, <1>3, <2>1, Counting
  <1>5. Run(n0, r)
    <2> HIDE DEF Run, r
    <2>1. \E g : Run(n0, g)  BY <1>4, <1>0
    <2> QED BY <2>1 DEF r
  <1> HIDE DEF r
  <1>6. r[0] = x0 /\ \A i \in 1..n0 : r[i] = Step(r[i - 1], i)
    BY <1>5, <1>0
  <1>7. \A i \in 1..Len(questions) : r[i] = write_question(r[i - 1], questions[i])
    BY <1>6 DEF Step, n0
  <1>8. r[0] = w
    BY <1>6 DEF x0
  <1>9. questions_to_wire(w, questions) = r[Len(questions)]
    BY <1>1 DEF n0
  <1> QED BY <1>7, <1>8, <1>9, Zenon

(* ... and its records. *)
LEMMA RecordsInTurn ==
    ASSUME NEW w, NEW recs, NEW n \in Nat
    PROVE  \E g : /\ g[0] = w
                  /\ \A i \in 1..n : g[i] = record_to_wire(g[i - 1], recs[i])
                  /\ records_to_wire(w, recs, n) = g[n]
  <1> DEFINE n0 == n
             x0 == w
             Step(d, i) == record_to_wire(d, recs[i])
             Run(k, g) == g = [i \in 0..k |-> IF i = 0 THEN x0 ELSE Step(g[i - 1], i)]
             T == {k \in Nat : \E g : Run(k, g)}
             r == CHOOSE g : Run(n0, g)
  <1>0. n0 \in Nat
    OBVIOUS
  <1>1. records_to_wire(w, recs, n) = r[n0]
    BY DEF records_to_wire
  <1> HIDE DEF Step, x0, n0
  <1>2. 0 \in T
    <2> DEFINE g == [i \in 0..0 |-> x0]
    <2>1. Run(0, g)  OBVIOUS
    <2> HIDE DEF g, Run
    <2> QED BY <2>1
  <1>3. ASSUME NEW k \in T PROVE k + 1 \in T
    <2>1. k \in Nat  OBVIOUS
    <2>2. PICK g : Run(k, g)  BY <1>3
    <2> DEFINE h == [i \in 0..(k + 1) |-> IF i = k + 1 THEN Step(g[k], k + 1) ELSE g[i]]
               e == [i \in 0..(k + 1) |-> IF i = 0 THEN x0 ELSE Step(h[i - 1], i)]
    <2>3. \A i \in 0..k : g[i] = IF i = 0 THEN x0 ELSE Step(g[i - 1], i)  BY <2>2
    <2>4. \A i \in 0..k : h[i] = g[i]  BY <2>1
    <2>5. h[k + 1] = Step(h[k], k + 1)  BY <2>1, <2>4
    <2>6. \A i \in 0..k : i # 0 => h[i] = Step(h[i - 1], i)
      <3>1. TAKE i \in 0..k
      <3>2. i # 0 => i - 1 \in 0..k  BY <2>1
      <3> HIDE DEF h
      <3> QED BY <2>3, <2>4, <3>2
    <2>7. h[0] = x0  BY <2>1, <2>3, <2>4
    <2>8. \A i \in 0..(k + 1) : h[i] = IF i = 0 THEN x0 ELSE Step(h[i - 1], i)
      <3> HIDE DEF h
      <3>1. TAKE i \in 0..(k + 1)
      <3>2. CASE i = k + 1
        <4>1. i - 1 = k /\ i # 0  BY <2>1, <3>2
        <4> QED BY <2>5, <3>2, <4>1
      <3>3. CASE i \in 0..k
        BY <2>6, <2>7, <3>3
      <3> QED BY <2>1, <3>2, <3>3
    <2>9. h = e
      <3>1. h = [i \in 0..(k + 1) |-> h[i]]  OBVIOUS
      <3> HIDE DEF h
      <3> QED BY <2>8, <3>1
    <2>10. Run(k + 1, h)  BY <2>9
    <2> HIDE DEF h, Run
    <2> QED BY <2>1, <2>10
  <1>4. T = Nat
    <2> HIDE DEF Run
    <2>1. T \in SUBSET Nat  OBVIOUS
    <2> HIDE DEF T
    <2> QED BY <1>2, <1>3, <2>1, Counting
  <1>5. Run(n0, r)
    <2> HIDE DEF Run, r
    <2>1. \E g : Run(n0, g)  BY <1>4, <1>0
    <2> QED BY <2>1 DEF r
  <1> HIDE DEF r
  <1>6. r[0] = x0 /\ \A i \in 1..n0 : r[i] = Step(r[i - 1], i)
    BY <1>5, <1>0
  <1>7. \A i \in 1..n : r[i] = record_to_wire(r[i - 1], recs[i])
    BY <1>6 DEF Step, n0
  <1>8. r[0] = w
    BY <1>6 DEF x0
  <1>9. records_to_wire(w, recs, n) = r[n]
    BY <1>1 DEF n0
  <1> QED BY <1>7, <1>8, <1>9, Zenon

(* A name is read one label or pointer after the other ... *)
LEMMA LabelsInTurn ==
    ASSUME NEW buf, NEW start
    PROVE  \E g : /\ g[0] = start
                  /\ \A i \in 1..(MaxLabels + MaxPointerHops + 1) : g[i] = label_step(buf, g[i - 1])
                  /\ walk_labels(buf, start) = g[(MaxLabels + MaxPointerHops + 1)]
  <1> DEFINE n0 == (MaxLabels + MaxPointerHops + 1)
             x0 == start
             Step(d, i) == label_step(buf, d)
             Run(k, g) == g = [i \in 0..k |-> IF i = 0 THEN x0 ELSE Step(g[i - 1], i)]
             T == {k \in Nat : \E g : Run(k, g)}
             r == CHOOSE g : Run(n0, g)
  <1>0. n0 \in Nat
    BY NameLimits DEF MaxPointerHops
  <1>1. walk_labels(buf, start) = r[n0]
    BY DEF walk_labels
  <1> HIDE DEF Step, x0, n0
  <1>2. 0 \in T
    <2> DEFINE g == [i \in 0..0 |-> x0]
    <2>1. Run(0, g)  OBVIOUS
    <2> HIDE DEF g, Run
    <2> QED BY <2>1
  <1>3. ASSUME NEW k \in T PROVE k + 1 \in T
    <2>1. k \in Nat  OBVIOUS
    <2>2. PICK g : Run(k, g)  BY <1>3
    <2> DEFINE h == [i \in 0..(k + 1) |-> IF i = k + 1 THEN Step(g[k], k + 1) ELSE g[i]]
               e == [i \in 0..(k + 1) |-> IF i = 0 THEN x0 ELSE Step(h[i - 1], i)]
    <2>3. \A i \in 0..k : g[i] = IF i = 0 THEN x0 ELSE Step(g[i - 1], i)  BY <2>2
    <2>4. \A i \in 0..k : h[i] = g[i]  BY <2>1
    <2>5. h[k + 1] = Step(h[k], k + 1)  BY <2>1, <2>4
    <2>6. \A i \in 0..k : i # 0 => h[i] = Step(h[i - 1], i)
      <3>1. TAKE i \in 0..k
      <3>2. i # 0 => i - 1 \in 0..k  BY <2>1
      <3> HIDE DEF h
      <3> QED BY <2>3, <2>4, <3>2
    <2>7. h[0] = x0  BY <2>1, <2>3, <2>4
    <2>8. \A i \in 0..(k + 1) : h[i] = IF i = 0 THEN x0 ELSE Step(h[i - 1], i)
      <3> HIDE DEF h
      <3>1. TAKE i \in 0..(k + 1)
      <3>2. CASE i = k + 1
        <4>1. i - 1 = k /\ i # 0  BY <2>1, <3>2
        <4> QED BY <2>5, <3>2, <4>1
      <3>3. CASE i \in 0..k
        BY <2>6, <2>7, <3>3
      <3> QED BY <2>1, <3>2, <3>3
    <2>9. h = e
      <3>1. h = [i \in 0..(k + 1) |-> h[i]]  OBVIOUS
      <3> HIDE DEF h
      <3> QED BY <2>8, <3>1
    <2>10. Run(k + 1, h)  BY <2>9
    <2> HIDE DEF h, Run
    <2> QED BY <2>1, <2>10
  <1>4. T = Nat
    <2> HIDE DEF Run
    <2>1. T \in SUBSET Nat  OBVIOUS
    <2> HIDE DEF T
    <2> QED BY <1>2, <1>3, <2>1, Counting
  <1>5. Run(n0, r)
    <2> HIDE DEF Run, r
    <2>1. \E g : Run(n0, g)  BY <1>4, <1>0
    <2> QED BY <2>1 DEF r
  <1> HIDE DEF r
  <1>6. r[0] = x0 /\ \A i \in 1..n0 : r[i] = Step(r[i - 1], i)
    BY <1>5, <1>0
  <1>7. \A i \in 1..(MaxLabels + MaxPointerHops + 1) : r[i] = label_step(buf, r[i - 1])
    BY <1>6 DEF Step, n0
  <1>8. r[0] = start
    BY <1>6 DEF x0
  <1>9. walk_labels(buf, start) = r[(MaxLabels + MaxPointerHops + 1)]
    BY <1>1 DEF n0
  <1> QED BY <1>7, <1>8, <1>9, Zenon

(* ... and a section one question or record after the other. *)
LEMMA SectionInTurn ==
    ASSUME NEW kind, NEW buf, NEW pos, NEW n \in Nat
    PROVE  \E g : /\ g[0] = Got(<<>>, pos)
                  /\ \A i \in 1..n : g[i] = section_step(kind, buf, g[i - 1])
                  /\ read_section(kind, buf, pos, n) = g[n]
  <1> DEFINE n0 == n
             x0 == Got(<<>>, pos)
             Step(d, i) == section_step(kind, buf, d)
             Run(k, g) == g = [i \in 0..k |-> IF i = 0 THEN x0 ELSE Step(g[i - 1], i)]
             T == {k \in Nat : \E g : Run(k, g)}
             r == CHOOSE g : Run(n0, g)
  <1>0. n0 \in Nat
    OBVIOUS
  <1>1. read_section(kind, buf, pos, n) = r[n0]
    BY DEF read_section
  <1> HIDE DEF Step, x0, n0
  <1>2. 0 \in T
    <2> DEFINE g == [i \in 0..0 |-> x0]
    <2>1. Run(0, g)  OBVIOUS
    <2> HIDE DEF g, Run
    <2> QED BY <2>1
  <1>3. ASSUME NEW k \in T PROVE k + 1 \in T
    <2>1. k \in Nat  OBVIOUS
    <2>2. PICK g : Run(k, g)  BY <1>3
    <2> DEFINE h == [i \in 0..(k + 1) |-> IF i = k + 1 THEN Step(g[k], k + 1) ELSE g[i]]
               e == [i \in 0..(k + 1) |-> IF i = 0 THEN x0 ELSE Step(h[i - 1], i)]
    <2>3. \A i \in 0..k : g[i] = IF i = 0 THEN x0 ELSE Step(g[i - 1], i)  BY <2>2
    <2>4. \A i \in 0..k : h[i] = g[i]  BY <2>1
    <2>5. h[k + 1] = Step(h[k], k + 1)  BY <2>1, <2>4
    <2>6. \A i \in 0..k : i # 0 => h[i] = Step(h[i - 1], i)
      <3>1. TAKE i \in 0..k
      <3>2. i # 0 => i - 1 \in 0..k  BY <2>1
      <3> HIDE DEF h
      <3> QED BY <2>3, <2>4, <3>2
    <2>7. h[0] = x0  BY <2>1, <2>3, <2>4
    <2>8. \A i \in 0..(k + 1) : h[i] = IF i = 0 THEN x0 ELSE Step(h[i - 1], i)
      <3> HIDE DEF h
      <3>1. TAKE i \in 0..(k + 1)
      <3>2. CASE i = k + 1
        <4>1. i - 1 = k /\ i # 0  BY <2>1, <3>2
        <4> QED BY <2>5, <3>2, <4>1
      <3>3. CASE i \in 0..k
        BY <2>6, <2>7, <3>3
      <3> QED BY <2>1, <3>2, <3>3
    <2>9. h = e
      <3>1. h = [i \in 0..(k + 1) |-> h[i]]  OBVIOUS
      <3> HIDE DEF h
      <3> QED BY <2>8, <3>1
    <2>10. Run(k + 1, h)  BY <2>9
    <2> HIDE DEF h, Run
    <2> QED BY <2>1, <2>10
  <1>4. T = Nat
    <2> HIDE DEF Run
    <2>1. T \in SUBSET Nat  OBVIOUS
    <2> HIDE DEF T
    <2> QED BY <1>2, <1>3, <2>1, Counting
  <1>5. Run(n0, r)
    <2> HIDE DEF Run, r
    <2>1. \E g : Run(n0, g)  BY <1>4, <1>0
    <2> QED BY <2>1 DEF r
  <1> HIDE DEF r
  <1>6. r[0] = x0 /\ \A i \in 1..n0 : r[i] = Step(r[i - 1], i)
    BY <1>5, <1>0
  <1>7. \A i \in 1..n : r[i] = section_step(kind, buf, r[i - 1])
    BY <1>6 DEF Step, n0
  <1>8. r[0] = Got(<<>>, pos)
    BY <1>6 DEF x0
  <1>9. read_section(kind, buf, pos, n) = r[n]
    BY <1>1 DEF n0
  <1> QED BY <1>7, <1>8, <1>9, Zenon

(* The four sections of a message are read in turn. *)
LEMMA MessageInTurn ==
    ASSUME NEW buf
    PROVE  \E g : /\ g[0] = Got(<<>>, 12)
                  /\ \A i \in 1..4 : g[i] = next_section(buf, g[i - 1], i - 1)
                  /\ read_sections(buf) = g
  <1> DEFINE n0 == 4
             x0 == Got(<<>>, 12)
             Step(d, i) == next_section(buf, d, i - 1)
             Run(k, g) == g = [i \in 0..k |-> IF i = 0 THEN x0 ELSE Step(g[i - 1], i)]
             T == {k \in Nat : \E g : Run(k, g)}
             r == CHOOSE g : Run(n0, g)
  <1>0. n0 \in Nat
    OBVIOUS
  <1>1. read_sections(buf) = r
    BY DEF read_sections
  <1> HIDE DEF Step, x0, n0
  <1>2. 0 \in T
    <2> DEFINE g == [i \in 0..0 |-> x0]
    <2>1. Run(0, g)  OBVIOUS
    <2> HIDE DEF g, Run
    <2> QED BY <2>1
  <1>3. ASSUME NEW k \in T PROVE k + 1 \in T
    <2>1. k \in Nat  OBVIOUS
    <2>2. PICK g : Run(k, g)  BY <1>3
    <2> DEFINE h == [i \in 0..(k + 1) |-> IF i = k + 1 THEN Step(g[k], k + 1) ELSE g[i]]
               e == [i \in 0..(k + 1) |-> IF i = 0 THEN x0 ELSE Step(h[i - 1], i)]
    <2>3. \A i \in 0..k : g[i] = IF i = 0 THEN x0 ELSE Step(g[i - 1], i)  BY <2>2
    <2>4. \A i \in 0..k : h[i] = g[i]  BY <2>1
    <2>5. h[k + 1] = Step(h[k], k + 1)  BY <2>1, <2>4
    <2>6. \A i \in 0..k : i # 0 => h[i] = Step(h[i - 1], i)
      <3>1. TAKE i \in 0..k
      <3>2. i # 0 => i - 1 \in 0..k  BY <2>1
      <3> HIDE DEF h
      <3> QED BY <2>3, <2>4, <3>2
    <2>7. h[0] = x0  BY <2>1, <2>3, <2>4
    <2>8. \A i \in 0..(k + 1) : h[i] = IF i = 0 THEN x0 ELSE Step(h[i - 1], i)
      <3> HIDE DEF h
      <3>1. TAKE i \in 0..(k + 1)
      <3>2. CASE i = k + 1
        <4>1. i - 1 = k /\ i # 0  BY <2>1, <3>2
        <4> QED BY <2>5, <3>2, <4>1
      <3>3. CASE i \in 0..k
        BY <2>6, <2>7, <3>3
      <3> QED BY <2>1, <3>2, <3>3
    <2>9. h = e
      <3>1. h = [i \in 0..(k + 1) |-> h[i]]  OBVIOUS
      <3> HIDE DEF h
      <3> QED BY <2>8, <3>1
    <2>10. Run(k + 1, h)  BY <2>9
    <2> HIDE DEF h, Run
    <2> QED BY <2>1, <2>10
  <1>4. T = Nat
    <2> HIDE DEF Run
    <2>1. T \in SUBSET Nat  OBVIOUS
    <2> HIDE DEF T
    <2> QED BY <1>2, <1>3, <2>1, Counting
  <1>5. Run(n0, r)
    <2> HIDE DEF Run, r
    <2>1. \E g : Run(n0, g)  BY <1>4, <1>0
    <2> QED BY <2>1 DEF r
  <1> HIDE DEF r
  <1>6. r[0] = x0 /\ \A i \in 1..n0 : r[i] = Step(r[i - 1], i)
    BY <1>5, <1>0
  <1>7. \A i \in 1..4 : r[i] = next_section(buf, r[i - 1], i - 1)
    BY <1>6 DEF Step, n0
  <1>8. r[0] = Got(<<>>, 12)
    BY <1>6 DEF x0
  <1>9. read_sections(buf) = r
    BY <1>1
  <1> QED BY <1>7, <1>8, <1>9, Zenon

(* Sequences joined are a sequence. *)
LEMMA FlattenTyped ==
    ASSUME NEW S, NEW ss \in Seq(Seq(S)) PROVE FlattenSeq(ss) \in Seq(S)
  <1> DEFINE n == Len(ss)
             Step(d, i) == d \o ss[i]
             Run(k, g) == g = [i \in 1..k |-> IF i = 1 THEN ss[i] ELSE Step(g[i - 1], i)]
             T == {k \in Nat : \E g : Run(k + 1, g)}
             r == CHOOSE g : Run(n, g)
  <1>1. n \in Nat /\ FlattenSeq(ss) = IF n = 0 THEN ss ELSE r[n]
    BY DEF FlattenSeq
  <1>2. CASE n = 0
    BY <1>1, <1>2
  <1>3. CASE n # 0
    <2> HIDE DEF Step
    <2>1. 0 \in T
      <3> DEFINE g == [i \in 1..1 |-> ss[i]]
      <3>1. Run(0 + 1, g)  OBVIOUS
      <3> HIDE DEF g, Run
      <3> QED BY <3>1
    <2>2. ASSUME NEW k \in T PROVE k + 1 \in T
      <3>1. k \in Nat  OBVIOUS
      <3>2. PICK g : Run(k + 1, g)  BY <2>2
      <3> DEFINE m == k + 2
                 h == [i \in 1..m |-> IF i = m THEN Step(g[k + 1], m) ELSE g[i]]
                 e == [i \in 1..m |-> IF i = 1 THEN ss[i] ELSE Step(h[i - 1], i)]
      <3>3. \A i \in 1..(k + 1) : g[i] = IF i = 1 THEN ss[i] ELSE Step(g[i - 1], i)  BY <3>2
      <3>4. \A i \in 1..(k + 1) : h[i] = g[i]  BY <3>1
      <3>5. h[m] = Step(h[k + 1], m)  BY <3>1, <3>4
      <3>6. \A i \in 1..(k + 1) : h[i] = IF i = 1 THEN ss[i] ELSE Step(h[i - 1], i)
        <4>1. TAKE i \in 1..(k + 1)
        <4>2. i # 1 => i - 1 \in 1..(k + 1)  BY <3>1
        <4> HIDE DEF h
        <4> QED BY <3>3, <3>4, <4>2
      <3>7. \A i \in 1..m : h[i] = IF i = 1 THEN ss[i] ELSE Step(h[i - 1], i)
        <4> HIDE DEF h
        <4>1. TAKE i \in 1..m
        <4>2. CASE i = m
          <5>1. i - 1 = k + 1 /\ i # 1  BY <3>1, <4>2
          <5> QED BY <3>5, <4>2, <5>1
        <4>3. CASE i \in 1..(k + 1)
          BY <3>6, <4>3
        <4> QED BY <3>1, <4>2, <4>3
      <3>8. h = e
        <4>1. h = [i \in 1..m |-> h[i]]  OBVIOUS
        <4> HIDE DEF h
        <4> QED BY <3>7, <4>1
      <3>9. Run(m, h)  BY <3>8
      <3>10. m = (k + 1) + 1 /\ k + 1 \in Nat  BY <3>1
      <3> HIDE DEF h, Run, m
      <3> QED BY <3>9, <3>10
    <2>3. T = Nat
      <3> HIDE DEF Run
      <3>1. T \in SUBSET Nat  OBVIOUS
      <3> HIDE DEF T
      <3> QED BY <2>1, <2>2, <3>1, Counting
    <2>4. Run(n, r)
      <3> HIDE DEF Run, r, n
      <3>1. n - 1 \in Nat /\ (n - 1) + 1 = n  BY <1>1, <1>3
      <3>2. \E g : Run(n, g)  BY <2>3, <3>1
      <3> QED BY <3>2 DEF r
    <2> HIDE DEF r
    <2>5. \A i \in 1..n : r[i] = IF i = 1 THEN ss[i] ELSE Step(r[i - 1], i)
      BY <2>4
    <2> DEFINE U == {k \in Nat : k + 1 <= n => r[k + 1] \in Seq(S)}
    <2>6. 0 \in U
      <3>1. 1 \in 1..n  BY <1>1, <1>3
      <3> QED BY <2>5, <3>1
    <2>7. ASSUME NEW k \in U, (k + 1) + 1 <= n PROVE r[(k + 1) + 1] \in Seq(S)
      <3>1. k \in Nat /\ r[k + 1] \in Seq(S) /\ (k + 1) + 1 \in 1..n /\ (k + 1) + 1 # 1
            /\ ((k + 1) + 1) - 1 = k + 1
        BY <1>1, <2>7
      <3>2. r[(k + 1) + 1] = Step(r[k + 1], (k + 1) + 1)  BY <2>5, <3>1
      <3>3. ss[(k + 1) + 1] \in Seq(S)  BY <3>1
      <3> QED BY <3>1, <3>2, <3>3, ConcatProperties DEF Step
    <2>8. U = Nat
      <3>1. U \in SUBSET Nat /\ \A k \in U : k + 1 \in U  BY <2>7
      <3> HIDE DEF U
      <3> QED BY <2>6, <3>1, Counting
    <2>9. n - 1 \in Nat /\ (n - 1) + 1 = n
      <3> HIDE DEF n
      <3> QED BY <1>1, <1>3
    <2>10. r[(n - 1) + 1] \in Seq(S)
      <3> HIDE DEF n
      <3> QED BY <2>8, <2>9
    <2>11. r[n] \in Seq(S)
      <3> HIDE DEF n
      <3> QED BY <2>9, <2>10
    <2> QED BY <1>1, <1>3, <2>11
  <1> QED BY <1>2, <1>3

(* A name's octets, whole or up to a suffix. *)
LEMMA NameOctets ==
    ASSUME NEW n \in DomainName
    PROVE  /\ encoded(n) \in Octets /\ as_bytes(n) \in Octets
           /\ \A i \in 1..Len(n) : before(n, i) \in Octets /\ suffix(n, i) \in DomainName
  <1>1. ASSUME NEW m \in DomainName PROVE encoded(m) \in Octets
    <2> DEFINE ss == [i \in DOMAIN m |-> <<Len(m[i])>> \o m[i]]
    <2>1. DOMAIN m = 1..Len(m) /\ Len(m) \in Nat /\ \A i \in 1..Len(m) : m[i] \in Seq(Nat)
      BY DEF DomainName, Octets
    <2>2. \A i \in 1..Len(m) : ss[i] \in Seq(Nat)
      <3> SUFFICES ASSUME NEW i \in 1..Len(m) PROVE <<Len(m[i])>> \o m[i] \in Seq(Nat)
        BY <2>1
      <3>1. m[i] \in Seq(Nat) /\ <<Len(m[i])>> \in Seq(Nat)
        BY <2>1
      <3> QED BY <3>1, ConcatProperties
    <2>3. ss = [i \in 1..Len(m) |-> ss[i]]
      BY <2>1
    <2> HIDE DEF ss
    <2>4. ss \in Seq(Seq(Nat))
      BY <2>1, <2>2, <2>3, SeqDef
    <2>5. FlattenSeq(ss) \in Seq(Nat)
      BY <2>4, FlattenTyped
    <2> QED BY <2>5 DEF encoded, ss, Octets
  <1>2. as_bytes(n) \in Octets
    <2>1. encoded(n) \in Seq(Nat) /\ <<0>> \in Seq(Nat)
      BY <1>1 DEF Octets
    <2> QED BY <2>1, ConcatProperties DEF as_bytes, Octets
  <1>3. ASSUME NEW i \in 1..Len(n) PROVE before(n, i) \in Octets /\ suffix(n, i) \in DomainName
    <2>1. n \in Seq(Octets) /\ Len(n) \in Nat
      BY DEF DomainName
    <2>2. SubSeq(n, 1, i - 1) \in Seq(Octets)
      <3>1. i - 1 \in 1 - 1..Len(n) /\ 1 \in 1..Len(n) + 1
        BY <2>1
      <3> QED BY <2>1, <3>1, SubSeqProperties
    <2>3. SubSeq(n, i, Len(n)) \in Seq(Octets)
      <3>1. Len(n) \in i - 1..Len(n) /\ i \in 1..Len(n) + 1
        BY <2>1
      <3> QED BY <2>1, <3>1, SubSeqProperties
    <2> QED BY <1>1, <2>2, <2>3 DEF before, suffix, DomainName
  <1> QED BY <1>1, <1>2, <1>3

(* What a writer carries.  The writers of this section compress. *)
Writer(w) ==
    /\ w \in [out : Octets, offsets : {w.offsets}, compress : {TRUE}, ok : BOOLEAN]
    /\ \A s \in DOMAIN w.offsets : w.offsets[s] \in Nat

(* Two writers that know the same names at the same offsets: whatever is
   written next takes as many octets with one as with the other. *)
Alike(v, w) ==
    /\ Writer(v) /\ Writer(w)
    /\ Len(v.out) = Len(w.out) /\ v.offsets = w.offsets /\ v.ok = w.ok

(* The step from v and w to x and y keeps them alike and takes nothing off. *)
Onward(v, w, x, y) == Alike(x, y) /\ Len(v.out) <= Len(x.out) /\ v.ok = x.ok

(* Octets behind octets. *)
LEMMA Behind ==
    ASSUME NEW a \in Octets, NEW b \in Octets
    PROVE  a \o b \in Octets /\ Len(a \o b) = Len(a) + Len(b) /\ Len(a) \in Nat /\ Len(b) \in Nat
  BY ConcatProperties DEF Octets

(* Plain octets take as many with one writer as with the other. *)
LEMMA PutAlike ==
    ASSUME NEW v, NEW w, Alike(v, w), NEW bytes \in Octets
    PROVE  /\ Onward(v, w, put(v, bytes), put(w, bytes))
           /\ Len(put(v, bytes).out) = Len(v.out) + Len(bytes)
  <1>1. v.out \in Octets /\ w.out \in Octets
    BY DEF Alike, Writer
  <1>2. /\ v.out \o bytes \in Octets /\ Len(v.out \o bytes) = Len(v.out) + Len(bytes)
        /\ w.out \o bytes \in Octets /\ Len(w.out \o bytes) = Len(w.out) + Len(bytes)
        /\ Len(v.out) \in Nat /\ Len(bytes) \in Nat
    BY <1>1, Behind
  <1> DEFINE x == v.out \o bytes
             y == w.out \o bytes
  <1>3. put(v, bytes) = [v EXCEPT !.out = x] /\ put(w, bytes) = [w EXCEPT !.out = y]
    BY DEF put
  <1> HIDE DEF x, y
  <1>4. /\ put(v, bytes).out = x /\ put(v, bytes).offsets = v.offsets
        /\ put(v, bytes).ok = v.ok /\ Writer(put(v, bytes))
    BY <1>2, <1>3 DEF Alike, Writer, x
  <1>5. /\ put(w, bytes).out = y /\ put(w, bytes).offsets = w.offsets
        /\ put(w, bytes).ok = w.ok /\ Writer(put(w, bytes))
    BY <1>2, <1>3 DEF Alike, Writer, y
  <1>6. Len(x) = Len(v.out) + Len(bytes) /\ Len(y) = Len(w.out) + Len(bytes)
    BY <1>2 DEF x, y
  <1> QED BY <1>2, <1>4, <1>5, <1>6 DEF Alike, Onward

(* The offsets recorded for a name are numbers. *)
LEMMA RecordTyped ==
    ASSUME NEW offsets, \A s \in DOMAIN offsets : offsets[s] \in Nat,
           NEW base \in Nat, NEW n \in DomainName, NEW upto \in 0..Len(n)
    PROVE  \A s \in DOMAIN record(offsets, base, n, upto) : record(offsets, base, n, upto)[s] \in Nat
  <1> DEFINE at(i) == base + Len(before(n, i))
             new == {i \in 1 .. upto : at(i) <= MaxPointerOffset}
             added == [s \in {suffix(n, i) : i \in new} |-> at(CHOOSE i \in new : suffix(n, i) = s)]
  <1>1. record(offsets, base, n, upto) = known_or(offsets, added)
    BY DEF record
  <1>2. Len(n) \in Nat
    BY DEF DomainName
  <1>3. \A i \in new : at(i) \in Nat
    <2> SUFFICES ASSUME NEW i \in 1..Len(n) PROVE at(i) \in Nat
      BY <1>2
    <2>1. before(n, i) \in Seq(Nat)
      BY NameOctets DEF Octets
    <2> QED BY <2>1
  <1>4. \A s \in DOMAIN added : added[s] \in Nat
    <2> HIDE DEF new, at
    <2> TAKE s \in DOMAIN added
    <2>1. \E i \in new : suffix(n, i) = s
      OBVIOUS
    <2> QED BY <1>3, <2>1
  <1> HIDE DEF added
  <1> QED BY <1>1, <1>4 DEF known_or

(* Writing a name goes the same way with both. *)
LEMMA NameAlike ==
    ASSUME NEW v, NEW w, Alike(v, w), NEW n \in DomainName
    PROVE  Onward(v, w, write_name(v, n), write_name(w, n))
  <1> DEFINE known == {i \in 1 .. Len(n) : suffix(n, i) \in DOMAIN v.offsets}
             base == Len(v.out)
             f == record(v.offsets, base, n, Len(n))
  <1>1. /\ v.out \in Octets /\ w.out \in Octets /\ base \in Nat /\ Len(w.out) = base
        /\ w.offsets = v.offsets /\ \A s \in DOMAIN v.offsets : v.offsets[s] \in Nat
        /\ Len(n) \in Nat
    BY DEF Alike, Writer, Octets, DomainName
  <1>2. ASSUME NEW bytes \in Octets, NEW upto \in 0..Len(n),
               write_name(v, n) = [v EXCEPT !.out = @ \o bytes, !.offsets = record(@, base, n, upto)],
               write_name(w, n) = [w EXCEPT !.out = @ \o bytes, !.offsets = record(@, base, n, upto)]
        PROVE  Onward(v, w, write_name(v, n), write_name(w, n))
    <2> DEFINE g == record(v.offsets, base, n, upto)
               x == v.out \o bytes
               y == w.out \o bytes
    <2>1. \A s \in DOMAIN g : g[s] \in Nat
      BY <1>1, RecordTyped
    <2>2. /\ x \in Octets /\ y \in Octets /\ Len(x) = Len(y) /\ Len(v.out) <= Len(x)
      <3>1. x \in Octets /\ Len(x) = Len(v.out) + Len(bytes) /\ Len(bytes) \in Nat
        BY <1>1, Behind
      <3>2. y \in Octets /\ Len(y) = Len(w.out) + Len(bytes)
        BY <1>1, Behind
      <3> HIDE DEF x, y
      <3> QED BY <1>1, <3>1, <3>2
    <2>3. write_name(v, n) = [v EXCEPT !.out = x, !.offsets = g]
      BY <1>2
    <2>4. write_name(w, n) = [w EXCEPT !.out = y, !.offsets = g]
      BY <1>1, <1>2
    <2> HIDE DEF x, y, g
    <2>5. /\ Writer(write_name(v, n)) /\ write_name(v, n).out = x /\ write_name(v, n).offsets = g
          /\ write_name(v, n).ok = v.ok
      BY <2>1, <2>2, <2>3 DEF Alike, Writer
    <2>6. /\ Writer(write_name(w, n)) /\ write_name(w, n).out = y /\ write_name(w, n).offsets = g
          /\ write_name(w, n).ok = w.ok
      BY <2>1, <2>2, <2>4 DEF Alike, Writer
    <2> QED BY <2>2, <2>5, <2>6 DEF Alike, Onward
  <1>3. CASE known = {}
    <2>1. write_name(v, n) = [v EXCEPT !.out = @ \o as_bytes(n), !.offsets = record(@, base, n, Len(n))]
      BY <1>3 DEF write_name
    <2>2. write_name(w, n) = [w EXCEPT !.out = @ \o as_bytes(n), !.offsets = record(@, base, n, Len(n))]
      BY <1>1, <1>3 DEF write_name
    <2>3. as_bytes(n) \in Octets /\ Len(n) \in 0..Len(n)
      BY <1>1, NameOctets
    <2> HIDE DEF base, known
    <2> QED BY <1>2, <2>1, <2>2, <2>3
  <1>4. CASE known # {}
    <2> DEFINE i == Min(known)
               off == v.offsets[suffix(n, i)]
               tail == <<192 + off \div 256, off % 256>>
    <2>1. i \in known
      <3>1. known \in SUBSET Nat
        OBVIOUS
      <3> HIDE DEF known
      <3> QED BY <1>4, <3>1, MinIsLeast
    <2>2. i \in 1..Len(n) /\ off \in Nat
      BY <1>1, <2>1
    <2>3. tail \in Octets /\ before(n, i) \in Octets
      <3> HIDE DEF i, off
      <3>1. off \div 256 \in Nat /\ off % 256 \in Nat
        BY <2>2
      <3> QED BY <2>2, <3>1, NameOctets DEF Octets
    <2>4. /\ before(n, i) \o tail \in Octets
          /\ v.out \o (before(n, i) \o tail) = (v.out \o before(n, i)) \o tail
          /\ w.out \o (before(n, i) \o tail) = (w.out \o before(n, i)) \o tail
      <3> HIDE DEF i, tail
      <3>1. \A a, b, c \in Octets : a \o (b \o c) = (a \o b) \o c
        BY ConcatAssociative, SMTT(30) DEF Octets
      <3>2. before(n, i) \o tail \in Octets
        BY <2>3, Behind
      <3> QED BY <1>1, <2>3, <3>1, <3>2, ZenonT(60)
    <2>5. write_name(v, n) = [v EXCEPT !.out = @ \o before(n, i) \o tail, !.offsets = record(@, base, n, i - 1)]
      BY <1>4 DEF write_name
    <2>6. write_name(w, n) = [w EXCEPT !.out = @ \o before(n, i) \o tail, !.offsets = record(@, base, n, i - 1)]
      BY <1>1, <1>4 DEF write_name
    <2>7. i - 1 \in 0..Len(n)
      BY <1>1, <2>2
    <2> HIDE DEF i, tail, base, known
    <2>8. write_name(v, n) = [v EXCEPT !.out = @ \o (before(n, i) \o tail), !.offsets = record(@, base, n, i - 1)]
      BY <2>4, <2>5
    <2>9. write_name(w, n) = [w EXCEPT !.out = @ \o (before(n, i) \o tail), !.offsets = record(@, base, n, i - 1)]
      BY <2>4, <2>6
    <2> QED BY <1>2, <2>4, <2>7, <2>8, <2>9
  <1> QED BY <1>3, <1>4

(* A field is written the same way with both ... *)
LEMMA FieldAlike ==
    ASSUME NEW v, NEW w, Alike(v, w), NEW kind, NEW datum, Field(kind, datum)
    PROVE  Onward(v, w, write_field(v, kind, datum), write_field(w, kind, datum))
  <1>1. v.compress = TRUE /\ w.compress = TRUE
    BY DEF Alike, Writer
  <1>2. CASE kind = "name~"
    <2>1. datum \in DomainName
      BY <1>2 DEF Field
    <2>2. write_field(v, kind, datum) = write_name(v, datum) /\ write_field(w, kind, datum) = write_name(w, datum)
      BY <1>1, <1>2 DEF write_field
    <2> QED BY <2>1, <2>2, NameAlike
  <1>3. CASE kind # "name~"
    <2>1. field_octets(kind, datum) \in Octets
      BY <1>3 DEF Field
    <2>2. /\ write_field(v, kind, datum) = put(v, field_octets(kind, datum))
          /\ write_field(w, kind, datum) = put(w, field_octets(kind, datum))
      BY <1>3 DEF write_field
    <2> QED BY <2>1, <2>2, PutAlike
  <1> QED BY <1>2, <1>3

(* One step onward after another. *)
LEMMA OnwardStill ==
    ASSUME NEW u, NEW t, NEW v, NEW w, NEW x, NEW y, Alike(u, t), Onward(u, t, v, w), Onward(v, w, x, y)
    PROVE  Onward(u, t, x, y)
  <1>1. Len(u.out) \in Nat /\ Len(v.out) \in Nat /\ Len(x.out) \in Nat
    BY DEF Onward, Alike, Writer, Octets
  <1> QED BY <1>1 DEF Onward

(* ... and so is the payload of a record. *)
LEMMA PayloadAlike ==
    ASSUME NEW v, NEW w, Alike(v, w), NEW r, WireRecord(r)
    PROVE  Onward(v, w, rdata_to_wire(v, r.type, r.rdata), rdata_to_wire(w, r.type, r.rdata))
  <1> DEFINE kinds == Written[Type(r.type)]
             n == Len(kinds)
  <1>1. n \in Nat /\ \A i \in 1..n : Field(kinds[i], r.rdata[i])
    BY DEF WireRecord
  <1> DEFINE Chain(u, f) == /\ f[0] = u
                            /\ \A i \in 1..n : f[i] = write_field(f[i - 1], kinds[i], r.rdata[i])
                            /\ rdata_to_wire(u, r.type, r.rdata) = f[n]
  <1>2. ASSUME NEW u PROVE \E f : Chain(u, f)
    BY <1>1, FieldsInTurn
  <1> HIDE DEF n, kinds, Chain
  <1>3. PICK g : Chain(v, g)
    BY <1>2
  <1>4. PICK h : Chain(w, h)
    BY <1>2
  <1>5. /\ g[0] = v /\ rdata_to_wire(v, r.type, r.rdata) = g[n]
        /\ \A i \in 1..n : g[i] = write_field(g[i - 1], kinds[i], r.rdata[i])
    BY <1>3 DEF Chain
  <1>6. /\ h[0] = w /\ rdata_to_wire(w, r.type, r.rdata) = h[n]
        /\ \A i \in 1..n : h[i] = write_field(h[i - 1], kinds[i], r.rdata[i])
    BY <1>4 DEF Chain
  <1> DEFINE T == {k \in Nat : k <= n => Onward(v, w, g[k], h[k])}
  <1>7. 0 \in T
    <2>1. Len(v.out) \in Nat
      BY DEF Alike, Writer, Octets
    <2> QED BY <1>5, <1>6, <2>1 DEF Onward
  <1>8. ASSUME NEW k \in T, k + 1 <= n PROVE Onward(v, w, g[k + 1], h[k + 1])
    <2>1. k + 1 \in 1..n /\ (k + 1) - 1 = k /\ Onward(v, w, g[k], h[k])
      BY <1>1, <1>8
    <2>2. /\ g[k + 1] = write_field(g[k], kinds[k + 1], r.rdata[k + 1])
          /\ h[k + 1] = write_field(h[k], kinds[k + 1], r.rdata[k + 1])
          /\ Field(kinds[k + 1], r.rdata[k + 1])
      BY <1>1, <1>5, <1>6, <2>1
    <2>3. Onward(g[k], h[k], g[k + 1], h[k + 1])
      BY <2>1, <2>2, FieldAlike DEF Onward
    <2> QED BY <2>1, <2>3, OnwardStill
  <1>9. T = Nat
    <2>1. T \in SUBSET Nat /\ \A k \in T : k + 1 \in T
      BY <1>8
    <2> HIDE DEF T
    <2> QED BY <1>7, <2>1, Counting
  <1> QED BY <1>1, <1>5, <1>6, <1>9

(* Two octets of a number. *)
LEMMA TwoOctets ==
    ASSUME NEW k \in Nat
    PROVE  u16(k) \in Octets /\ Len(u16(k)) = 2 /\ k \div 256 \in Nat /\ k % 256 \in Nat
  <1>1. k \div 256 \in Nat /\ k % 256 \in Nat
    OBVIOUS
  <1> QED BY <1>1 DEF u16, Octets

(* Two octets changed in place. *)
LEMMA PutAtTyped ==
    ASSUME NEW s \in Octets, NEW at \in Nat, NEW k \in Nat
    PROVE  put_u16_at(s, at, k) \in Octets /\ Len(put_u16_at(s, at, k)) = Len(s)
  <1> DEFINE n == Len(s)
             t == put_u16_at(s, at, k)
  <1>1. k \div 256 \in Nat /\ k % 256 \in Nat
    BY TwoOctets
  <1>2. n \in Nat /\ DOMAIN s = 1..n /\ \A i \in 1..n : s[i] \in Nat
    BY DEF Octets
  <1>3. DOMAIN t = 1..n /\ \A i \in 1..n : t[i] \in Nat
    BY <1>1, <1>2 DEF put_u16_at
  <1>4. t = [i \in 1..n |-> t[i]]
    BY <1>3 DEF put_u16_at
  <1> HIDE DEF t, n
  <1>5. t \in Seq(Nat) /\ Len(t) = n
    BY <1>2, <1>3, <1>4, IsASeq, LenProperties
  <1> QED BY <1>5 DEF t, n, Octets

(* Patching the length leaves the writer as long as it was. *)
LEMMA PatchAlike ==
    ASSUME NEW v, NEW w, Alike(v, w), NEW x, NEW y, Alike(x, y), NEW at \in Nat, at + 2 <= Len(x.out)
    PROVE  Alike(patched(v, at, x), patched(w, at, y))
  <1> DEFINE len == Len(x.out) - at - 2
             big == ~v.ok \/ len > MaxRdLen
             new(s) == put_u16_at(s, at, len)
  <1>1. Len(y.out) = Len(x.out) /\ w.ok = v.ok /\ len \in Nat
    <2>1. Len(x.out) \in Nat
      BY DEF Alike, Writer, Octets
    <2> QED BY <2>1 DEF Alike
  <1>2. CASE big
    <2>1. patched(v, at, x) = [v EXCEPT !.ok = FALSE] /\ patched(w, at, y) = [w EXCEPT !.ok = FALSE]
      BY <1>1, <1>2 DEF patched
    <2> QED BY <2>1 DEF Alike, Writer
  <1>3. CASE ~big
    <2>1. patched(v, at, x) = [x EXCEPT !.out = new(x.out)] /\ patched(w, at, y) = [y EXCEPT !.out = new(y.out)]
      BY <1>1, <1>3 DEF patched, Alike, Writer
    <2>2. ASSUME NEW s \in Octets PROVE new(s) \in Octets /\ Len(new(s)) = Len(s)
      BY <1>1, PutAtTyped
    <2> DEFINE p == new(x.out)
               q == new(y.out)
    <2>3. p \in Octets /\ q \in Octets /\ Len(p) = Len(x.out) /\ Len(q) = Len(x.out)
      <3>1. x.out \in Octets /\ y.out \in Octets
        BY DEF Alike, Writer
      <3> HIDE DEF new
      <3> QED BY <1>1, <2>2, <3>1
    <2> HIDE DEF p, q
    <2>4. patched(v, at, x) = [x EXCEPT !.out = p] /\ patched(w, at, y) = [y EXCEPT !.out = q]
      BY <2>1 DEF p, q
    <2> QED BY <1>1, <2>3, <2>4, ZenonT(60) DEF Alike, Writer
  <1> QED BY <1>2, <1>3

(* A record takes as many octets with one writer as with the other. *)
LEMMA RecordAlike ==
    ASSUME NEW v, NEW w, Alike(v, w), NEW r, WireRecord(r)
    PROVE  Alike(record_to_wire(v, r), record_to_wire(w, r))
  <1> DEFINE fixed == u16(r.type) \o u16(r.class) \o r.ttl
             a == write_name(v, r.name)
             b == write_name(w, r.name)
             c == put(a, fixed)
             d == put(b, fixed)
             x == rdata_to_wire(put(c, <<0, 0>>), r.type, r.rdata)
             y == rdata_to_wire(put(d, <<0, 0>>), r.type, r.rdata)
  <1>1. r.name \in DomainName /\ r.type \in Nat /\ r.class \in Nat /\ r.ttl \in Octets
    BY DEF WireRecord
  <1>2. fixed \in Octets /\ <<0, 0>> \in Octets /\ Len(<<0, 0>>) = 2
    <2>1. u16(r.type) \in Octets /\ u16(r.class) \in Octets
      BY <1>1, TwoOctets
    <2>2. u16(r.type) \o u16(r.class) \in Octets
      BY <2>1, Behind
    <2>3. (u16(r.type) \o u16(r.class)) \o r.ttl \in Octets
      BY <1>1, <2>2, Behind
    <2>4. <<0, 0>> \in Octets /\ Len(<<0, 0>>) = 2
      BY DEF Octets
    <2> QED BY <2>3, <2>4
  <1>3. v.compress = TRUE /\ w.compress = TRUE
    BY DEF Alike, Writer
  <1>4. record_to_wire(v, r) = patched(v, Len(c.out), x) /\ record_to_wire(w, r) = patched(w, Len(d.out), y)
    BY <1>3 DEF record_to_wire, with_payload
  <1> HIDE DEF fixed
  <1>5. Alike(a, b)
    BY <1>1, NameAlike DEF Onward
  <1>6. Alike(c, d)
    BY <1>2, <1>5, PutAlike DEF Onward
  <1> HIDE DEF a, b, c, d
  <1>7. Alike(put(c, <<0, 0>>), put(d, <<0, 0>>)) /\ Len(put(c, <<0, 0>>).out) = Len(c.out) + 2
    BY <1>2, <1>6, PutAlike DEF Onward
  <1>8. Onward(put(c, <<0, 0>>), put(d, <<0, 0>>), x, y)
    BY <1>7, PayloadAlike
  <1>9. Len(c.out) \in Nat /\ Len(d.out) = Len(c.out)
    BY <1>6 DEF Alike, Writer, Octets
  <1> HIDE DEF x, y
  <1>10. Alike(x, y) /\ Len(c.out) + 2 <= Len(x.out)
    BY <1>7, <1>8 DEF Onward
  <1> QED BY <1>4, <1>9, <1>10, PatchAlike

(* The first n records do, if they are the same on both sides. *)
LEMMA RecordsAlike ==
    ASSUME NEW v, NEW w, Alike(v, w), NEW n \in Nat, NEW recs, NEW rest,
           \A i \in 1..n : rest[i] = recs[i] /\ WireRecord(recs[i])
    PROVE  Alike(records_to_wire(v, recs, n), records_to_wire(w, rest, n))
  <1>1. PICK g : /\ g[0] = v
                 /\ \A i \in 1..n : g[i] = record_to_wire(g[i - 1], recs[i])
                 /\ records_to_wire(v, recs, n) = g[n]
    BY RecordsInTurn
  <1>2. PICK h : /\ h[0] = w
                 /\ \A i \in 1..n : h[i] = record_to_wire(h[i - 1], rest[i])
                 /\ records_to_wire(w, rest, n) = h[n]
    BY RecordsInTurn
  <1> DEFINE T == {k \in Nat : k <= n => Alike(g[k], h[k])}
  <1>3. 0 \in T
    BY <1>1, <1>2
  <1>4. ASSUME NEW k \in T, k + 1 <= n PROVE Alike(g[k + 1], h[k + 1])
    <2>1. k + 1 \in 1..n /\ (k + 1) - 1 = k /\ Alike(g[k], h[k])
      BY <1>4
    <2>2. /\ g[k + 1] = record_to_wire(g[k], recs[k + 1]) /\ h[k + 1] = record_to_wire(h[k], recs[k + 1])
          /\ WireRecord(recs[k + 1])
      BY <1>1, <1>2, <2>1
    <2> QED BY <2>1, <2>2, RecordAlike
  <1>5. T = Nat
    <2>1. T \in SUBSET Nat /\ \A k \in T : k + 1 \in T
      BY <1>4
    <2> HIDE DEF T
    <2> QED BY <1>3, <2>1, Counting
  <1> QED BY <1>1, <1>2, <1>5

(* And the questions. *)
LEMMA QuestionsAlike ==
    ASSUME NEW v, NEW w, Alike(v, w), v.ok, NEW questions \in Seq(WireQuestion)
    PROVE  /\ Alike(questions_to_wire(v, questions), questions_to_wire(w, questions))
           /\ questions_to_wire(v, questions).ok
  <1> DEFINE n == Len(questions)
  <1>1. n \in Nat
    OBVIOUS
  <1>2. PICK g : /\ g[0] = v
                 /\ \A i \in 1..n : g[i] = write_question(g[i - 1], questions[i])
                 /\ questions_to_wire(v, questions) = g[n]
    BY <1>1, QuestionsInTurn
  <1>3. PICK h : /\ h[0] = w
                 /\ \A i \in 1..n : h[i] = write_question(h[i - 1], questions[i])
                 /\ questions_to_wire(w, questions) = h[n]
    BY <1>1, QuestionsInTurn
  <1> HIDE DEF n
  <1> DEFINE T == {k \in Nat : k <= n => Alike(g[k], h[k]) /\ g[k].ok}
  <1>4. 0 \in T
    BY <1>2, <1>3
  <1>5. ASSUME NEW k \in T, k + 1 <= n PROVE Alike(g[k + 1], h[k + 1]) /\ g[k + 1].ok
    <2>1. k + 1 \in 1..n /\ (k + 1) - 1 = k /\ Alike(g[k], h[k]) /\ g[k].ok
      BY <1>1, <1>5
    <2> DEFINE q == questions[k + 1]
               bytes == u16(q.type) \o u16(q.class)
    <2>2. q \in WireQuestion
      BY <2>1 DEF n
    <2>3. g[k + 1] = write_question(g[k], q) /\ h[k + 1] = write_question(h[k], q)
      BY <1>2, <1>3, <2>1
    <2> HIDE DEF q
    <2>4. q.name \in DomainName /\ bytes \in Octets
      <3>1. u16(q.type) \in Octets /\ u16(q.class) \in Octets /\ q.name \in DomainName
        BY <2>2, TwoOctets DEF WireQuestion
      <3> QED BY <3>1, Behind
    <2>5. Onward(g[k], h[k], write_name(g[k], q.name), write_name(h[k], q.name))
      BY <2>1, <2>4, NameAlike
    <2>6. Onward(write_name(g[k], q.name), write_name(h[k], q.name), g[k + 1], h[k + 1])
      BY <2>3, <2>4, <2>5, PutAlike DEF write_question, Onward
    <2> QED BY <2>1, <2>5, <2>6 DEF Onward
  <1>6. T = Nat
    <2>1. T \in SUBSET Nat /\ \A k \in T : k + 1 \in T
      BY <1>5
    <2> HIDE DEF T
    <2> QED BY <1>4, <2>1, Counting
  <1> QED BY <1>1, <1>2, <1>3, <1>6

-----------------------------------------------------------------------------
(* What is read *)

(* The cursor of the label loop. *)
Cursors == [ok : BOOLEAN, done : BOOLEAN, p : Nat, end : Nat, jumped : BOOLEAN, hops : Nat,
            total : Nat, labels : DomainName]

(* What a bounds-checked read yields. *)
LEMMA OctetRead ==
    ASSUME NEW buf \in Octets, NEW p \in Nat
    PROVE  /\ byte_at(buf, p) \in Int
           /\ p < Len(buf) => byte_at(buf, p) \in Nat
           /\ byte_at(buf, p) >= 0 => byte_at(buf, p) \in Nat
           /\ p + 2 <= Len(buf) => u16_at(buf, p) \in Nat
  <1>1. Len(buf) \in Nat /\ \A i \in 1..Len(buf) : buf[i] \in Nat
    BY DEF Octets
  <1>2. p < Len(buf) => p + 1 \in 1..Len(buf) /\ buf[p + 1] \in Nat
    BY <1>1
  <1>3. ASSUME p + 2 <= Len(buf) PROVE u16_at(buf, p) \in Nat
    <2>1. p + 1 \in 1..Len(buf) /\ p + 2 \in 1..Len(buf)
      BY <1>1, <1>3
    <2>2. \A a, b \in Nat : a * 256 + b \in Nat
      OBVIOUS
    <2>3. buf[p + 1] \in Nat /\ buf[p + 2] \in Nat
      BY <1>1, <2>1
    <2> QED BY <2>2, <2>3 DEF u16_at
  <1>4. byte_at(buf, p) = IF p < Len(buf) THEN buf[p + 1] ELSE -1
    BY DEF byte_at
  <1> QED BY <1>2, <1>3, <1>4

(* A turn of the label loop keeps the shape of its state. *)
LEMMA LabelTyped ==
    ASSUME NEW buf \in Octets, NEW s \in Cursors PROVE label_step(buf, s) \in Cursors
  <1> DEFINE len == byte_at(buf, s.p)
             next == s.p + 1 + len
             off == (len % 64) * 256 + byte_at(buf, s.p + 1)
             label == Lower(slice(buf, s.p + 1, next))
             failed == [s EXCEPT !.done = TRUE, !.ok = FALSE]
             end1 == IF s.jumped THEN s.end ELSE s.p + 1
             end2 == IF s.jumped THEN s.end ELSE s.p + 2
             ended == [s EXCEPT !.done = TRUE, !.end = end1]
             grown == [s EXCEPT !.p = next, !.total = @ + 1 + len, !.labels = Append(@, label)]
             jumped == [s EXCEPT !.p = off, !.hops = @ + 1, !.jumped = TRUE, !.end = end2]
  <1>1. /\ Len(buf) \in Nat /\ \A i \in 1..Len(buf) : buf[i] \in Nat
        /\ s.p \in Nat /\ s.labels \in Seq(Octets) /\ s.end \in Nat /\ s.hops + 1 \in Nat
    BY DEF Octets, Cursors, DomainName
  <1>2. failed \in Cursors /\ ended \in Cursors
    <2>1. end1 \in Nat
      BY <1>1
    <2> HIDE DEF end1
    <2> QED BY <2>1 DEF Cursors
  <1>3. ASSUME len \in 1..63, next <= Len(buf) PROVE grown \in Cursors
    <2>1. next \in Nat /\ s.p + 2 \in Nat
      <3> HIDE DEF len
      <3> DEFINE at == s.p
      <3>1. at \in Nat
        BY <1>1
      <3>2. len \in Nat
        BY <1>3
      <3> HIDE DEF at
      <3>3. at + 1 + len \in Nat /\ at + 2 \in Nat
        BY <3>1, <3>2
      <3> QED BY <3>3 DEF at
    <2>2. \A i \in s.p + 2..next : buf[i] \in Nat
      BY <1>1, <1>3, <2>1
    <2>3. slice(buf, s.p + 1, next) \in Seq(Nat)
      <3>1. (s.p + 1) + 1 = s.p + 2
        BY <1>1
      <3> HIDE DEF next
      <3> QED BY <2>1, <2>2, <3>1, SubSeqProperties DEF slice
    <2>4. label \in Octets
      <3> DEFINE a == slice(buf, s.p + 1, next)
                 b == Lower(a)
      <3> HIDE DEF a
      <3>1. a \in Seq(Nat)
        BY <2>3 DEF a
      <3>2. DOMAIN a = 1..Len(a) /\ Len(a) \in Nat /\ \A i \in 1..Len(a) : a[i] \in Nat
        BY <3>1
      <3>3. b = [i \in 1..Len(a) |-> b[i]] /\ \A i \in 1..Len(a) : b[i] \in Nat
        BY <3>2 DEF Lower
      <3> HIDE DEF b
      <3>4. b \in Seq(Nat)
        BY <3>2, <3>3, SeqDef
      <3> QED BY <3>4 DEF b, a, Octets
    <2> HIDE DEF label, next, len
    <2>5. Append(s.labels, label) \in DomainName
      BY <1>1, <2>4, AppendProperties DEF DomainName
    <2>6. s.total + 1 + len \in Nat
      BY <1>3 DEF Cursors
    <2> QED BY <2>1, <2>5, <2>6 DEF Cursors
  <1>4. ASSUME len \notin 1..63, len # 0, len >= 192, s.p + 1 < Len(buf) PROVE jumped \in Cursors
    <2>1. byte_at(buf, s.p + 1) \in Nat
      <3>1. s.p + 1 \in Nat
        BY <1>1
      <3> QED BY <1>4, <3>1, OctetRead
    <2>2. len \in Nat
      <3>1. len \in Int /\ (len >= 0 => len \in Nat)
        BY <1>1, OctetRead
      <3> HIDE DEF len
      <3> QED BY <1>4, <3>1
    <2>3. off \in Nat
      <3> HIDE DEF len
      <3>1. len % 64 \in Nat
        BY <2>2
      <3> QED BY <2>1, <3>1
    <2>4. end2 \in Nat
      BY <1>1
    <2> HIDE DEF off, len, end2
    <2> QED BY <1>1, <2>3, <2>4 DEF Cursors
  <1>5. len \in Int
    BY <1>1, OctetRead
  <1>6. label_step(buf, s) \in
          {s, failed, ended} \union (IF len \in 1..63 /\ next <= Len(buf) THEN {grown} ELSE {})
             \union (IF len # 0 /\ len \notin 1..63 /\ len >= 192 /\ s.p + 1 < Len(buf) THEN {jumped} ELSE {})
    <2> HIDE DEF len
    <2>1. next \in Int /\ s.p + 1 \in Int
      BY <1>1, <1>5
    <2>2. /\ ~(next > Len(buf)) => next <= Len(buf)
          /\ ~(s.p + 1 >= Len(buf)) => s.p + 1 < Len(buf)
          /\ ~(len < 192) => len >= 192
      BY <1>1, <1>5, <2>1
    <2> HIDE DEF next, off, failed, ended, grown, jumped
    <2>3. label_step(buf, s) =
            IF s.done THEN s
            ELSE IF len = 0 THEN IF Len(s.labels) >= MaxLabels THEN failed ELSE ended
            ELSE IF len \in 1 .. 63 THEN
                IF \/ len > MaxLabelLen \/ next > Len(buf)
                   \/ s.total + 1 + len > MaxNameLen \/ Len(s.labels) >= MaxLabels
                THEN failed ELSE grown
            ELSE IF \/ len < 192 \/ s.p + 1 >= Len(buf) \/ off >= Len(buf)
                    \/ s.hops + 1 > MaxPointerHops
                THEN failed
            ELSE jumped
      BY DEF label_step, len, next, off, failed, ended, grown, jumped, end1, end2
    <2> QED BY <2>2, <2>3
  <1> HIDE DEF failed, ended, grown, jumped, len, next
  <1> QED BY <1>2, <1>3, <1>4, <1>6

(* What from_wire accepts is a name, with a position behind it. *)
LEMMA NameRead ==
    ASSUME NEW buf \in Octets, NEW pos \in Nat, from_wire(buf, pos).ok
    PROVE  from_wire(buf, pos).name \in DomainName /\ from_wire(buf, pos).end \in Nat
  <1> DEFINE start == [ok |-> TRUE, done |-> FALSE, p |-> pos, end |-> pos, jumped |-> FALSE,
                       hops |-> 0, total |-> 1, labels |-> <<>>]
             n == (MaxLabels + MaxPointerHops + 1)
  <1>1. n \in Nat
    BY NameLimits DEF MaxPointerHops
  <1>2. start \in Cursors
    BY DEF Cursors, DomainName
  <1> HIDE DEF start
  <1>3. PICK g : /\ g[0] = start
                 /\ \A i \in 1..n : g[i] = label_step(buf, g[i - 1])
                 /\ walk_labels(buf, start) = g[n]
    BY LabelsInTurn
  <1>4. from_wire(buf, pos) = named(walk_labels(buf, start))
    BY DEF from_wire, start
  <1> HIDE DEF n
  <1> DEFINE T == {k \in Nat : k <= n => g[k] \in Cursors}
  <1>5. 0 \in T
    BY <1>2, <1>3
  <1>6. ASSUME NEW k \in T, k + 1 <= n PROVE g[k + 1] \in Cursors
    <2>1. k + 1 \in 1..n /\ (k + 1) - 1 = k /\ g[k] \in Cursors
      BY <1>1, <1>6
    <2>2. g[k + 1] = label_step(buf, g[k])
      BY <1>3, <2>1
    <2> QED BY <2>1, <2>2, LabelTyped
  <1>7. T = Nat
    <2>1. T \in SUBSET Nat /\ \A k \in T : k + 1 \in T
      BY <1>6
    <2> HIDE DEF T
    <2> QED BY <1>5, <2>1, Counting
  <1>8. g[n] \in Cursors
    BY <1>1, <1>7
  <1> QED BY <1>3, <1>4, <1>8 DEF named, Err, Cursors

(* What is read as a question is one. *)
LEMMA QuestionRead ==
    ASSUME NEW buf \in Octets, NEW pos \in Nat, read_question(buf, pos).ok
    PROVE  read_question(buf, pos).value \in WireQuestion /\ read_question(buf, pos).next \in Nat
  <1> DEFINE n == from_wire(buf, pos)
  <1> HIDE DEF n
  <1>1. n.ok /\ ~(n.end + 4 > Len(buf))
    BY DEF read_question, n, Err
  <1>2. n.name \in DomainName /\ n.end \in Nat
    BY <1>1, NameRead DEF n
  <1>3. /\ Len(buf) \in Nat /\ \A i \in 1..Len(buf) : buf[i] \in Nat
    BY DEF Octets
  <1>4. u16_at(buf, n.end) \in Nat /\ u16_at(buf, n.end + 2) \in Nat
    <2>1. n.end + 2 \in Nat /\ n.end + 2 <= Len(buf) /\ (n.end + 2) + 2 <= Len(buf)
      BY <1>1, <1>2, <1>3
    <2> QED BY <1>2, <2>1, OctetRead
  <1>5. read_question(buf, pos) =
          Got([name |-> n.name, type |-> u16_at(buf, n.end), class |-> u16_at(buf, n.end + 2)], n.end + 4)
    BY <1>1 DEF read_question, n
  <1> QED BY <1>2, <1>4, <1>5 DEF Got, WireQuestion

(* A question section that was read is a sequence of questions. *)
LEMMA QuestionsRead ==
    ASSUME NEW buf \in Octets, NEW pos \in Nat, NEW n \in Nat, read_section(0, buf, pos, n).ok
    PROVE  read_section(0, buf, pos, n).value \in Seq(WireQuestion)
  <1>1. PICK g : /\ g[0] = Got(<<>>, pos)
                 /\ \A i \in 1..n : g[i] = section_step(0, buf, g[i - 1])
                 /\ read_section(0, buf, pos, n) = g[n]
    BY SectionInTurn
  <1> DEFINE Fine(got) == got.ok => got.value \in Seq(WireQuestion) /\ got.next \in Nat
             T == {k \in Nat : k <= n => Fine(g[k])}
  <1>2. 0 \in T
    <2>1. g[0].value = <<>> /\ g[0].next = pos
      BY <1>1 DEF Got
    <2>2. Fine(g[0])
      BY <2>1
    <2> HIDE DEF Fine
    <2> QED BY <2>2
  <1>3. ASSUME NEW k \in T, k + 1 <= n PROVE Fine(g[k + 1])
    <2>1. k + 1 \in 1..n /\ (k + 1) - 1 = k /\ Fine(g[k])
      BY <1>3
    <2> DEFINE a == g[k]
               q == read_question(buf, a.next)
    <2>2. g[k + 1] = section_step(0, buf, a)
      BY <1>1, <2>1
    <2>3. CASE ~a.ok
      BY <2>2, <2>3 DEF section_step, Err
    <2>4. CASE a.ok
      <3>1. a.value \in Seq(WireQuestion) /\ a.next \in Nat
        BY <2>1, <2>4
      <3> HIDE DEF a
      <3>2. g[k + 1] = IF ~q.ok THEN Err ELSE Got(Append(a.value, q.value), q.next)
        BY <2>2, <2>4 DEF section_step, joined
      <3>3. q.ok => q.value \in WireQuestion /\ q.next \in Nat
        BY <3>1, QuestionRead
      <3> HIDE DEF q
      <3>4. q.ok => Append(a.value, q.value) \in Seq(WireQuestion)
        BY <3>1, <3>3, AppendProperties
      <3> QED BY <3>2, <3>3, <3>4 DEF Got, Err
    <2> QED BY <2>3, <2>4
  <1>4. T = Nat
    <2> HIDE DEF Fine
    <2>1. T \in SUBSET Nat /\ \A k \in T : k + 1 \in T
      BY <1>3
    <2> HIDE DEF T
    <2> QED BY <1>2, <2>1, Counting
  <1> QED BY <1>1, <1>4

(* What the server parsed has a question section of questions. *)
LEMMA MessageRead ==
    ASSUME NEW buf \in Octets, parse_message(buf).ok
    PROVE  LET m == parse_message(buf).value IN m.questions \in Seq(WireQuestion) /\ m.id \in Nat
  <1> DEFINE got == read_sections(buf)
             done == assembled(buf, got)
  <1>1. \/ parse_message(buf) = Err
        \/ ~(Len(buf) < 12) /\ parse_message(buf) = done
    BY DEF parse_message
  <1>2. ~(Len(buf) < 12) /\ parse_message(buf) = done /\ done.ok
    <2> HIDE DEF done
    <2> QED BY <1>1 DEF Err
  <1> HIDE DEF got
  <1>3. /\ got[4].ok /\ done.value.questions = got[1].value /\ done.value.id = u16_at(buf, 0)
    BY <1>2 DEF assembled, Err
  <1>4. /\ got[0] = Got(<<>>, 12)
        /\ \A i \in 1..4 : got[i] = next_section(buf, got[i - 1], i - 1)
    BY MessageInTurn DEF got
  <1>5. ASSUME NEW i \in 1..4, got[i].ok PROVE got[i - 1].ok
    BY <1>4, <1>5 DEF next_section, Err
  <1>6. got[1].ok
    <2>1. 4 - 1 = 3 /\ 3 - 1 = 2 /\ 2 - 1 = 1
      OBVIOUS
    <2>2. got[3].ok  BY <1>3, <1>5, <2>1
    <2>3. got[2].ok  BY <1>5, <2>1, <2>2
    <2> QED BY <1>5, <2>1, <2>3
  <1>7. got[1] = read_section(0, buf, 12, count(buf, 0))
    <2>1. got[1] = next_section(buf, Got(<<>>, 12), 0)
      BY <1>4
    <2> QED BY <2>1 DEF next_section, Got
  <1>8. count(buf, 0) \in Nat /\ u16_at(buf, 0) \in Nat
    <2>1. Len(buf) \in Nat
      BY DEF Octets
    <2>2. 4 + 2 * 0 = 4 /\ 4 + 2 <= Len(buf) /\ 0 + 2 <= Len(buf)
      <3> HIDE DEF done
      <3> QED BY <1>2, <2>1
    <2> QED BY <2>2, OctetRead DEF count
  <1>9. got[1].value \in Seq(WireQuestion)
    BY <1>6, <1>7, <1>8, QuestionsRead
  <1> QED BY <1>2, <1>3, <1>8, <1>9

-----------------------------------------------------------------------------
(* Messages that can be written *)

Footprint(m) == IF m.edns = <<>> THEN 0 ELSE Len(opt_record(m.edns[1]))

Sendable(m) ==
    /\ m \in [id : Nat, flags : {m.flags}, questions : Seq(WireQuestion), answers : {m.answers},
              authorities : {m.authorities}, additionals : {m.additionals}, edns : {m.edns}]
    /\ m.flags.opcode \in Nat /\ m.flags.rcode \in Nat
    /\ WireSection(m.answers) /\ WireSection(m.authorities) /\ WireSection(m.additionals)
    /\ Len(m.edns) \in Nat /\ (m.edns # <<>> => opt_record(m.edns[1]) \in Octets)

(* A part of a section is a section. *)
LEMMA CappedSection ==
    ASSUME NEW recs, WireSection(recs), NEW k \in Int
    PROVE  LET s == capped(recs, k)
               n == IF k < 0 THEN 0 ELSE IF k < Len(recs) THEN k ELSE Len(recs)
           IN  /\ Len(recs) \in Nat /\ Len(s) = n /\ WireSection(s)
               /\ \A i \in 1..n : s[i] = recs[i]
  <1> DEFINE s == capped(recs, k)
             n == IF k < 0 THEN 0 ELSE IF k < Len(recs) THEN k ELSE Len(recs)
  <1>1. /\ recs \in Seq(ToSet(recs)) /\ Len(recs) \in Nat /\ DOMAIN recs = 1..Len(recs)
        /\ \A i \in 1..Len(recs) : WireRecord(recs[i])
    BY DEF WireSection
  <1>2. n \in Nat /\ n <= Len(recs) /\ s = SubSeq(recs, 1, n)
    BY <1>1 DEF capped
  <1> HIDE DEF n
  <1>3. s \in Seq(ToSet(recs)) /\ Len(s) = n /\ \A i \in 1..n : s[i] = recs[i]
    <2>1. \A i \in 1..n : i \in 1..Len(recs) /\ recs[i] \in ToSet(recs)
      BY <1>1, <1>2 DEF ToSet
    <2>2. /\ SubSeq(recs, 1, n) \in Seq(ToSet(recs))
          /\ Len(SubSeq(recs, 1, n)) = IF 1 <= n THEN n - 1 + 1 ELSE 0
          /\ \A i \in 1..n - 1 + 1 : SubSeq(recs, 1, n)[i] = recs[1 + i - 1]
      BY <1>2, <2>1, SubSeqProperties
    <2> QED BY <1>2, <2>2
  <1> HIDE DEF s
  <1>4. s \in Seq(ToSet(s))
    <2>1. DOMAIN s = 1..n /\ s = [i \in 1..n |-> s[i]]
      BY <1>2, <1>3
    <2>2. \A i \in 1..n : s[i] \in ToSet(s)
      BY <2>1 DEF ToSet
    <2> QED BY <1>2, <2>1, <2>2, SeqDef
  <1>5. WireSection(s)
    BY <1>1, <1>2, <1>3, <1>4 DEF WireSection
  <1> QED BY <1>1, <1>3, <1>5 DEF s, n

(* The sections one behind the other. *)
LEMMA SectionsFacts ==
    ASSUME NEW m, WireSection(m.answers), WireSection(m.authorities), WireSection(m.additionals)
    PROVE  LET a == m.answers
               b == m.authorities
               c == m.additionals
               s == sections(m)
           IN  /\ Len(a) \in Nat /\ Len(b) \in Nat /\ Len(c) \in Nat
               /\ Len(s) = Len(a) + Len(b) + Len(c)
               /\ s = [i \in 1..Len(s) |-> s[i]]
               /\ \A i \in 1..Len(s) :
                      s[i] = IF i <= Len(a) THEN a[i]
                             ELSE IF i <= Len(a) + Len(b) THEN b[i - Len(a)]
                             ELSE c[i - Len(a) - Len(b)]
               /\ \A i \in 1..Len(s) : WireRecord(s[i])
  <1> DEFINE a == m.answers
             b == m.authorities
             c == m.additionals
             S == ToSet(a) \union ToSet(b) \union ToSet(c)
             s == sections(m)
             d == a \o b
  <1>1. /\ a \in Seq(S) /\ b \in Seq(S) /\ c \in Seq(S)
    <2>1. a \in Seq(ToSet(a)) /\ b \in Seq(ToSet(b)) /\ c \in Seq(ToSet(c))
      BY DEF WireSection
    <2>2. ToSet(a) \subseteq S /\ ToSet(b) \subseteq S /\ ToSet(c) \subseteq S
      OBVIOUS
    <2> HIDE DEF S
    <2> QED BY <2>1, <2>2, SeqMonotonic
  <1>2. /\ \A i \in 1..Len(a) : WireRecord(a[i])
        /\ \A i \in 1..Len(b) : WireRecord(b[i])
        /\ \A i \in 1..Len(c) : WireRecord(c[i])
    BY DEF WireSection
  <1>3. s = d \o c
    BY DEF sections
  <1> HIDE DEF S, a, b, c, s
  <1>4. Len(a) \in Nat /\ Len(b) \in Nat /\ Len(c) \in Nat
    BY <1>1
  <1>5. /\ d \in Seq(S) /\ Len(d) = Len(a) + Len(b)
        /\ \A i \in 1..Len(a) + Len(b) : d[i] = IF i <= Len(a) THEN a[i] ELSE b[i - Len(a)]
    BY <1>1, ConcatProperties
  <1> HIDE DEF d
  <1>6. /\ s \in Seq(S) /\ Len(s) = Len(d) + Len(c)
        /\ \A i \in 1..Len(d) + Len(c) : s[i] = IF i <= Len(d) THEN d[i] ELSE c[i - Len(d)]
    <2>1. /\ d \o c \in Seq(S) /\ Len(d \o c) = Len(d) + Len(c)
          /\ \A i \in 1..Len(d) + Len(c) : (d \o c)[i] = IF i <= Len(d) THEN d[i] ELSE c[i - Len(d)]
      <3>1. d \in Seq(S) /\ c \in Seq(S)
        BY <1>1, <1>5
      <3> QED BY <3>1, ConcatProperties
    <2> QED BY <1>3, <2>1
  <1>7. ASSUME NEW i \in 1..Len(s)
        PROVE  /\ s[i] = IF i <= Len(a) THEN a[i]
                         ELSE IF i <= Len(a) + Len(b) THEN b[i - Len(a)]
                         ELSE c[i - Len(a) - Len(b)]
               /\ WireRecord(s[i])
    <2>1. CASE i <= Len(a)
      <3>1. i \in 1..Len(a) /\ i \in 1..Len(a) + Len(b) /\ i \in 1..Len(d) + Len(c) /\ i <= Len(d)
        BY <1>4, <1>5, <1>6, <2>1
      <3> QED BY <1>2, <1>5, <1>6, <2>1, <3>1
    <2>2. CASE ~(i <= Len(a)) /\ i <= Len(a) + Len(b)
      <3>1. i \in 1..Len(a) + Len(b) /\ i \in 1..Len(d) + Len(c) /\ i <= Len(d) /\ i - Len(a) \in 1..Len(b)
        BY <1>4, <1>5, <1>6, <2>2
      <3> QED BY <1>2, <1>5, <1>6, <2>2, <3>1
    <2>3. CASE ~(i <= Len(a) + Len(b))
      <3>1. /\ i \in 1..Len(d) + Len(c) /\ ~(i <= Len(d)) /\ i - Len(d) = i - Len(a) - Len(b)
            /\ i - Len(d) \in 1..Len(c) /\ ~(i <= Len(a))
        BY <1>4, <1>5, <1>6, <2>3
      <3> QED BY <1>2, <1>6, <2>3, <3>1
    <2> QED BY <2>1, <2>2, <2>3
  <1>8. s = [i \in 1..Len(s) |-> s[i]] /\ Len(s) = Len(a) + Len(b) + Len(c)
    BY <1>4, <1>5, <1>6
  <1> QED BY <1>4, <1>7, <1>8 DEF s, a, b, c

(* Keeping the first n records of a message. *)
LEMMA KeepFirst ==
    ASSUME NEW m, Sendable(m), NEW n \in 0..Len(sections(m))
    PROVE  LET k == keep(m, n)
           IN  /\ Sendable(k) /\ k.questions = m.questions /\ k.edns = m.edns /\ k.flags = m.flags
               /\ Len(sections(k)) = n
               /\ \A i \in 1..n : sections(k)[i] = sections(m)[i]
               /\ IsPrefix(sections(k), sections(m))
               /\ n = Len(sections(m)) => sections(k) = sections(m)
  <1> DEFINE a == m.answers
             b == m.authorities
             c == m.additionals
             k == keep(m, n)
             x == capped(a, n)
             y == capped(b, n - Len(a))
             z == capped(c, n - Len(a) - Len(b))
             s == sections(m)
             t == sections(k)
  <1>1. WireSection(a) /\ WireSection(b) /\ WireSection(c)
    BY DEF Sendable
  <1>2. /\ Len(a) \in Nat /\ Len(b) \in Nat /\ Len(c) \in Nat /\ Len(s) = Len(a) + Len(b) + Len(c)
        /\ \A i \in 1..Len(s) :
               s[i] = IF i <= Len(a) THEN a[i]
                      ELSE IF i <= Len(a) + Len(b) THEN b[i - Len(a)] ELSE c[i - Len(a) - Len(b)]
        /\ s = [i \in 1..Len(s) |-> s[i]]
    BY <1>1, SectionsFacts
  <1>3. n \in Int /\ n - Len(a) \in Int /\ n - Len(a) - Len(b) \in Int
    BY <1>2
  <1>4. /\ Len(x) = IF n < 0 THEN 0 ELSE IF n < Len(a) THEN n ELSE Len(a)
        /\ WireSection(x) /\ \A i \in 1..Len(x) : x[i] = a[i]
    BY <1>1, <1>3, CappedSection
  <1>5. /\ Len(y) = IF n - Len(a) < 0 THEN 0 ELSE IF n - Len(a) < Len(b) THEN n - Len(a) ELSE Len(b)
        /\ WireSection(y) /\ \A i \in 1..Len(y) : y[i] = b[i]
    BY <1>1, <1>3, CappedSection
  <1>6. /\ Len(z) = IF n - Len(a) - Len(b) < 0 THEN 0
                    ELSE IF n - Len(a) - Len(b) < Len(c) THEN n - Len(a) - Len(b) ELSE Len(c)
        /\ WireSection(z) /\ \A i \in 1..Len(z) : z[i] = c[i]
    BY <1>1, <1>3, CappedSection
  <1>7. k = [m EXCEPT !.answers = x, !.authorities = y, !.additionals = z]
    BY DEF keep
  <1> HIDE DEF x, y, z, k
  <1>8. /\ k.answers = x /\ k.authorities = y /\ k.additionals = z /\ k.questions = m.questions
        /\ k.edns = m.edns /\ k.flags = m.flags /\ k.id = m.id
        /\ k \in [id : Nat, flags : {m.flags}, questions : Seq(WireQuestion), answers : {x},
                  authorities : {y}, additionals : {z}, edns : {m.edns}]
    BY <1>7 DEF Sendable
  <1>9. Sendable(k)
    BY <1>4, <1>5, <1>6, <1>8 DEF Sendable
  <1>10. /\ Len(t) = Len(x) + Len(y) + Len(z)
         /\ \A i \in 1..Len(t) :
                t[i] = IF i <= Len(x) THEN x[i]
                       ELSE IF i <= Len(x) + Len(y) THEN y[i - Len(x)] ELSE z[i - Len(x) - Len(y)]
         /\ t = [i \in 1..Len(t) |-> t[i]]
    BY <1>4, <1>5, <1>6, <1>8, SectionsFacts
  <1> HIDE DEF a, b, c, s, t
  <1>11. Len(t) = n /\ n \in Nat /\ n <= Len(s)
    BY <1>2, <1>4, <1>5, <1>6, <1>10 DEF s
  <1>12. ASSUME NEW i \in 1..n PROVE t[i] = s[i]
    <2>1. i \in 1..Len(s) /\ i \in 1..Len(t)
      BY <1>11, <1>2
    <2>2. CASE i <= Len(a)
      <3>1. i \in 1..Len(x) /\ i <= Len(x)
        BY <1>2, <1>4, <1>11, <2>2
      <3> QED BY <1>2, <1>4, <1>10, <2>1, <2>2, <3>1
    <2>3. CASE ~(i <= Len(a)) /\ i <= Len(a) + Len(b)
      <3>1. Len(x) = Len(a) /\ i - Len(a) \in 1..Len(y) /\ i <= Len(x) + Len(y)
        BY <1>2, <1>4, <1>5, <1>11, <2>3
      <3> QED BY <1>2, <1>5, <1>10, <2>1, <2>3, <3>1
    <2>4. CASE ~(i <= Len(a) + Len(b))
      <3>1. /\ Len(x) = Len(a) /\ Len(y) = Len(b) /\ i - Len(a) - Len(b) \in 1..Len(z)
            /\ ~(i <= Len(a))
        BY <1>2, <1>4, <1>5, <1>6, <1>11, <2>4, SMTT(30)
      <3> QED BY <1>2, <1>6, <1>10, <2>1, <2>4, <3>1, ZenonT(60)
    <2> QED BY <2>2, <2>3, <2>4
  <1>13. n = Len(s) => t = s
    BY <1>2, <1>10, <1>11, <1>12
  <1>14. IsPrefix(t, s)
    <2> DEFINE S == {s[i] : i \in 1..Len(s)}
    <2>1. \A i \in 1..n : s[i] \in S /\ t[i] \in S
      <3>1. \A i \in 1..n : i \in 1..Len(s)
        BY <1>2, <1>11
      <3> QED BY <1>12, <3>1
    <2> HIDE DEF S
    <2>2. /\ SubSeq(s, 1, n) \in Seq(S) /\ Len(SubSeq(s, 1, n)) = n
          /\ \A i \in 1..n : SubSeq(s, 1, n)[i] = s[i]
      <3>1. /\ SubSeq(s, 1, n) \in Seq(S) /\ Len(SubSeq(s, 1, n)) = IF 1 <= n THEN n - 1 + 1 ELSE 0
            /\ \A i \in 1..n - 1 + 1 : SubSeq(s, 1, n)[i] = s[1 + i - 1]
        BY <1>11, <2>1, SubSeqProperties
      <3> QED BY <1>11, <3>1
    <2>3. /\ SubSeq(t, 1, n) \in Seq(S) /\ Len(SubSeq(t, 1, n)) = n
          /\ \A i \in 1..n : SubSeq(t, 1, n)[i] = t[i]
      <3>1. /\ SubSeq(t, 1, n) \in Seq(S) /\ Len(SubSeq(t, 1, n)) = IF 1 <= n THEN n - 1 + 1 ELSE 0
            /\ \A i \in 1..n - 1 + 1 : SubSeq(t, 1, n)[i] = t[1 + i - 1]
        BY <1>11, <2>1, SubSeqProperties
      <3> QED BY <1>11, <3>1
    <2>4. SubSeq(s, 1, n) = SubSeq(t, 1, n)
      <3>1. \A i \in 1..n : SubSeq(s, 1, n)[i] = SubSeq(t, 1, n)[i]
        BY <1>12, <2>2, <2>3
      <3> QED BY <2>2, <2>3, <3>1, SeqEqual
    <2> QED BY <1>11, <2>4 DEF IsPrefix
  <1> QED BY <1>8, <1>9, <1>11, <1>12, <1>13, <1>14 DEF k, s, t

-----------------------------------------------------------------------------
(* How long a message gets *)

(* A header is twelve octets. *)
LEMMA HeaderOctets ==
    ASSUME NEW m, Sendable(m) PROVE header(m) \in Octets /\ Len(header(m)) = 12
  <1> DEFINE f == flags_to_u16(m.flags)
             a == u16(m.id)
             b == u16(f)
             c == u16(Len(m.questions))
             d == u16(Len(m.answers))
             e == u16(Len(m.authorities))
             g == u16(Len(m.additionals) + Len(m.edns))
  <1>1. m.id \in Nat /\ Len(m.questions) \in Nat /\ Len(m.edns) \in Nat
    BY DEF Sendable
  <1>2. Len(m.answers) \in Nat /\ Len(m.authorities) \in Nat /\ Len(m.additionals) \in Nat
    BY SectionsFacts DEF Sendable
  <1>3. f \in Nat
    <2> DEFINE op == (m.flags.opcode % 16) * 2048
               rc == m.flags.rcode % 16
    <2>1. op \in Nat /\ rc \in Nat
      BY DEF Sendable
    <2>2. f = (IF m.flags.qr THEN 32768 ELSE 0) + op + (IF m.flags.aa THEN 1024 ELSE 0)
                + (IF m.flags.tc THEN 512 ELSE 0) + (IF m.flags.rd THEN 256 ELSE 0)
                + (IF m.flags.ra THEN 128 ELSE 0) + (IF m.flags.ad THEN 32 ELSE 0)
                + (IF m.flags.cd THEN 16 ELSE 0) + rc
      BY DEF flags_to_u16
    <2> HIDE DEF op, rc
    <2> QED BY <2>1, <2>2
  <1>4. /\ a \in Octets /\ b \in Octets /\ c \in Octets /\ d \in Octets /\ e \in Octets /\ g \in Octets
        /\ Len(a) = 2 /\ Len(b) = 2 /\ Len(c) = 2 /\ Len(d) = 2 /\ Len(e) = 2 /\ Len(g) = 2
    <2> HIDE DEF f
    <2>1. Len(m.additionals) + Len(m.edns) \in Nat
      <3>1. \A x, y \in Nat : x + y \in Nat
        OBVIOUS
      <3> QED BY <1>1, <1>2, <3>1, Zenon
    <2> QED BY <1>1, <1>2, <1>3, <2>1, TwoOctets, ZenonT(60)
  <1>5. header(m) = a \o b \o c \o d \o e \o g
    BY DEF header
  <1> HIDE DEF a, b, c, d, e, g
  <1>6. a \o b \in Octets /\ Len(a \o b) = Len(a) + Len(b)
    BY <1>4, Behind
  <1>7. a \o b \o c \in Octets /\ Len(a \o b \o c) = Len(a \o b) + Len(c)
    BY <1>4, <1>6, Behind
  <1>8. a \o b \o c \o d \in Octets /\ Len(a \o b \o c \o d) = Len(a \o b \o c) + Len(d)
    BY <1>4, <1>7, Behind
  <1>9. a \o b \o c \o d \o e \in Octets /\ Len(a \o b \o c \o d \o e) = Len(a \o b \o c \o d) + Len(e)
    BY <1>4, <1>8, Behind
  <1>10. header(m) \in Octets /\ Len(header(m)) = Len(a \o b \o c \o d \o e) + Len(g)
    BY <1>4, <1>5, <1>9, Behind
  <1>11. Len(header(m)) = 12
    <2> DEFINE y == Len(a \o b)
               z == Len(a \o b \o c)
               u == Len(a \o b \o c \o d)
               v == Len(a \o b \o c \o d \o e)
    <2>1. y = 2 + 2 /\ z = y + 2 /\ u = z + 2 /\ v = u + 2 /\ Len(header(m)) = v + 2
      BY <1>4, <1>6, <1>7, <1>8, <1>9, <1>10
    <2> HIDE DEF y, z, u, v
    <2> QED BY <2>1
  <1> QED BY <1>10, <1>11

(* Messages with the same questions begin alike. *)
LEMMA HeadAlike ==
    ASSUME NEW m, NEW k, Sendable(m), Sendable(k), m.questions = k.questions
    PROVE  Alike(head_to_wire(m), head_to_wire(k)) /\ head_to_wire(m).ok
  <1> DEFINE v == [out |-> header(m), offsets |-> NoOffsets, compress |-> TRUE, ok |-> TRUE]
             w == [out |-> header(k), offsets |-> NoOffsets, compress |-> TRUE, ok |-> TRUE]
  <1>1. /\ header(m) \in Octets /\ header(k) \in Octets /\ Len(header(m)) = 12 /\ Len(header(k)) = 12
    BY HeaderOctets
  <1>2. \A s \in DOMAIN NoOffsets : NoOffsets[s] \in Nat
    BY DEF NoOffsets
  <1>3. Alike(v, w) /\ v.ok
    BY <1>1, <1>2 DEF Alike, Writer
  <1>4. m.questions \in Seq(WireQuestion)
    BY DEF Sendable
  <1>5. head_to_wire(m) = questions_to_wire(v, m.questions) /\ head_to_wire(k) = questions_to_wire(w, m.questions)
    BY DEF head_to_wire
  <1> HIDE DEF v, w
  <1> QED BY <1>3, <1>4, <1>5, QuestionsAlike

(* What the records take, and the OPT record behind them. *)
LEMMA WrittenLen ==
    ASSUME NEW m, Sendable(m)
    PROVE  LET f == records_to_wire(head_to_wire(m), sections(m), Len(sections(m)))
               w == to_bytes(m)
           IN  /\ w.ok = f.ok /\ w.out \in Octets /\ Footprint(m) \in Nat
               /\ f.ok => Len(w.out) = Len(f.out) + Footprint(m)
  <1> DEFINE h == head_to_wire(m)
             s == sections(m)
             f == records_to_wire(h, s, Len(s))
             o == opt_record(m.edns[1])
             w == to_bytes(m)
  <1>1. Alike(h, h) /\ h.ok
    BY HeadAlike
  <1>2. /\ Len(s) \in Nat /\ \A i \in 1..Len(s) : WireRecord(s[i])
    <2>1. WireSection(m.answers) /\ WireSection(m.authorities) /\ WireSection(m.additionals)
      BY DEF Sendable
    <2> DEFINE a == Len(m.answers)
               b == Len(m.authorities)
               c == Len(m.additionals)
    <2>2. /\ a \in Nat /\ b \in Nat /\ c \in Nat
          /\ Len(s) = a + b + c /\ \A i \in 1..Len(s) : WireRecord(s[i])
      BY <2>1, SectionsFacts
    <2> HIDE DEF a, b, c, s
    <2> QED BY <2>2
  <1> HIDE DEF h, s
  <1>3. Alike(f, f)
    BY <1>1, <1>2, RecordsAlike
  <1>4. w = with_opt(f, m.edns)
    BY DEF to_bytes, h, s
  <1>5. m.edns # <<>> => o \in Octets
    BY DEF Sendable
  <1> HIDE DEF f, o, w
  <1>6. f.out \in Octets /\ Len(f.out) \in Nat
    BY <1>3 DEF Alike, Writer, Octets
  <1>7. CASE m.edns = <<>>
    <2>1. Footprint(m) = 0 /\ w = f
      BY <1>4, <1>7 DEF Footprint, with_opt
    <2> QED BY <1>6, <2>1 DEF w, f, h, s
  <1>8. CASE m.edns # <<>>
    <2>1. Footprint(m) = Len(o) /\ o \in Octets /\ Len(o) \in Nat
      BY <1>5, <1>8 DEF Footprint, o, Octets
    <2>2. CASE ~f.ok
      BY <1>4, <1>6, <2>1, <2>2 DEF with_opt, w, f, h, s
    <2>3. CASE f.ok
      <3>1. w = put(f, o)
        BY <1>4, <1>8, <2>3 DEF with_opt, o
      <3>2. /\ Alike(put(f, o), put(f, o)) /\ f.ok = put(f, o).ok
            /\ Len(put(f, o).out) = Len(f.out) + Len(o)
        BY <1>3, <2>1, PutAlike DEF Onward
      <3>3. put(f, o).out \in Octets
        BY <3>2 DEF Alike, Writer
      <3> QED BY <2>1, <3>1, <3>2, <3>3 DEF w, f, h, s
    <2> QED BY <2>2, <2>3
  <1> QED BY <1>7, <1>8

-----------------------------------------------------------------------------
(* Truncation *)

Flagged(m) == m.flags \in [qr : {m.flags.qr}, opcode : Nat, aa : {m.flags.aa}, tc : {m.flags.tc},
                           rd : {m.flags.rd}, ra : {m.flags.ra}, ad : {m.flags.ad},
                           cd : {m.flags.cd}, rcode : Nat]

(* Setting TC changes nothing else about a message. *)
LEMMA Marked ==
    ASSUME NEW m, Sendable(m), Flagged(m)
    PROVE  LET k == [m EXCEPT !.flags.tc = TRUE]
           IN  /\ Sendable(k) /\ k.flags.tc /\ k.questions = m.questions /\ k.edns = m.edns
               /\ sections(k) = sections(m)
  <1> DEFINE k == [m EXCEPT !.flags.tc = TRUE]
             fl == [m.flags EXCEPT !.tc = TRUE]
  <1>1. fl.tc /\ fl.opcode \in Nat /\ fl.rcode \in Nat
    BY DEF Flagged
  <1>2. k = [m EXCEPT !.flags = fl]
    OBVIOUS
  <1> HIDE DEF k, fl
  <1>3. /\ k.flags = fl /\ k.answers = m.answers /\ k.authorities = m.authorities
        /\ k.additionals = m.additionals /\ k.questions = m.questions /\ k.edns = m.edns
        /\ k \in [id : Nat, flags : {fl}, questions : Seq(WireQuestion), answers : {m.answers},
                  authorities : {m.authorities}, additionals : {m.additionals}, edns : {m.edns}]
    BY <1>2 DEF Sendable
  <1>4. Sendable(k)
    BY <1>1, <1>3 DEF Sendable
  <1>5. sections(k) = sections(m)
    BY <1>3 DEF sections
  <1> QED BY <1>1, <1>3, <1>4, <1>5 DEF k

(* Two messages with the same questions and the same first n records: what
   the second takes is what the writer of the first had written by then. *)
LEMMA PartWritten ==
    ASSUME NEW m, NEW k, Sendable(m), Sendable(k), m.questions = k.questions, m.edns = k.edns,
           NEW n \in Nat, n = Len(sections(k)), n <= Len(sections(m)),
           \A i \in 1..n : sections(k)[i] = sections(m)[i]
    PROVE  LET f == records_to_wire(head_to_wire(m), sections(m), n)
               w == to_bytes(k)
           IN  /\ w.ok = f.ok /\ f.ok \in BOOLEAN /\ Len(f.out) \in Nat
               /\ f.ok => Len(w.out) = Len(f.out) + Footprint(m)
               /\ n = 0 => f.ok
  <1> DEFINE s == sections(m)
             t == sections(k)
             f == records_to_wire(head_to_wire(m), s, n)
             g == records_to_wire(head_to_wire(k), t, n)
             w == to_bytes(k)
  <1>1. Alike(head_to_wire(m), head_to_wire(k)) /\ head_to_wire(m).ok
    BY HeadAlike
  <1>2. \A i \in 1..n : t[i] = s[i] /\ WireRecord(s[i])
    <2>1. Len(s) \in Nat /\ \A i \in 1..Len(s) : WireRecord(s[i])
      <3>1. WireSection(m.answers) /\ WireSection(m.authorities) /\ WireSection(m.additionals)
        BY DEF Sendable
      <3> DEFINE a == Len(m.answers)
                 b == Len(m.authorities)
                 c == Len(m.additionals)
      <3>2. /\ a \in Nat /\ b \in Nat /\ c \in Nat
            /\ Len(s) = a + b + c /\ \A i \in 1..Len(s) : WireRecord(s[i])
        BY <3>1, SectionsFacts
      <3> HIDE DEF a, b, c, s
      <3> QED BY <3>2
    <2>2. \A i \in 1..n : i \in 1..Len(s)
      BY <2>1
    <2> QED BY <2>1, <2>2
  <1>3. Alike(f, g)
    <2> HIDE DEF s, t
    <2> QED BY <1>1, <1>2, RecordsAlike
  <1>4. w.ok = g.ok /\ (g.ok => Len(w.out) = Len(g.out) + Footprint(k))
    BY WrittenLen
  <1>5. Footprint(k) = Footprint(m)
    BY DEF Footprint
  <1>6. ASSUME n = 0 PROVE f.ok
    <2>1. f = head_to_wire(m)
      <3>1. PICK q : q[0] = head_to_wire(m) /\ f = q[n]
        <4> HIDE DEF s
        <4> QED BY RecordsInTurn
      <3> QED BY <1>6, <3>1
    <2> QED BY <1>1, <2>1
  <1> HIDE DEF f, g, w
  <1>7. /\ f.ok = g.ok /\ f.ok \in BOOLEAN /\ Len(f.out) = Len(g.out) /\ Len(f.out) \in Nat
    BY <1>3 DEF Alike, Writer, Octets
  <1> QED BY <1>4, <1>5, <1>6, <1>7 DEF f, w, s

(* The records before the first that does not fit. *)
LEMMA FirstOver ==
    ASSUME NEW m, Sendable(m), NEW budget
    PROVE  LET n == counted(m, budget)
               f(i) == records_to_wire(head_to_wire(m), sections(m), i)
           IN  /\ n \in 0..Len(sections(m)) /\ Len(sections(m)) \in Nat
               /\ n # 0 => fits(f(n), budget)
               /\ n # Len(sections(m)) => ~fits(f(n + 1), budget)
  <1> DEFINE s == sections(m)
             l == Len(s)
             f(i) == records_to_wire(head_to_wire(m), s, i)
             over == {i \in 1..l : ~fits(f(i), budget)}
             n == counted(m, budget)
  <1>1. l \in Nat
    <2>1. WireSection(m.answers) /\ WireSection(m.authorities) /\ WireSection(m.additionals)
      BY DEF Sendable
    <2> DEFINE a == Len(m.answers)
               b == Len(m.authorities)
               c == Len(m.additionals)
    <2>2. a \in Nat /\ b \in Nat /\ c \in Nat /\ l = a + b + c
      BY <2>1, SectionsFacts
    <2> HIDE DEF a, b, c, l
    <2> QED BY <2>2
  <1>2. n = IF over = {} THEN l ELSE Min(over) - 1
    BY DEF counted
  <1> HIDE DEF n, f, s
  <1>3. CASE over = {}
    <2>1. \A i \in 1..l : fits(f(i), budget)
      BY <1>3
    <2>2. n = l
      BY <1>2, <1>3
    <2>3. n \in 0..l /\ (n # 0 => n \in 1..l)
      <3> HIDE DEF l
      <3> QED BY <1>1, <2>2
    <2>4. n # 0 => fits(f(n), budget)
      BY <2>1, <2>3
    <2> QED BY <1>1, <2>2, <2>3, <2>4 DEF n, f, s
  <1>4. CASE over # {}
    <2> DEFINE x == Min(over)
    <2>1. over \in SUBSET Nat
      <3> HIDE DEF l
      <3> QED BY <1>1
    <2>2. x \in over /\ \A j \in over : x <= j
      <3> HIDE DEF over
      <3> QED BY <1>4, <2>1, MinIsLeast
    <2>3. n = x - 1 /\ x \in 1..l /\ ~fits(f(x), budget)
      BY <1>2, <1>4, <2>2
    <2>4. ASSUME NEW j \in 1..l, ~(x <= j) PROVE fits(f(j), budget)
      BY <2>2, <2>4
    <2> HIDE DEF x, over, l
    <2>5. n \in 0..l /\ n + 1 = x /\ (n # 0 => n \in 1..l /\ ~(x <= n))
      BY <1>1, <2>3
    <2>6. n # 0 => fits(f(n), budget)
      BY <2>4, <2>5
    <2>7. ~fits(f(n + 1), budget)
      BY <2>3, <2>5
    <2> QED BY <1>1, <2>5, <2>6, <2>7 DEF n, f, s, l
  <1> QED BY <1>3, <1>4

(* A truncated response: the least was dropped. *)
LEMMA Truncated ==
    ASSUME NEW m, Sendable(m), Flagged(m), NEW asked \in Nat, Footprint(m) <= 11
    PROVE  LET short == truncate_for_udp(m, asked)
               bound == udp_bound(asked)
               kept == sections(short)
           IN  /\ to_bytes(short).ok /\ short.questions = m.questions /\ short.edns = m.edns
               /\ IsPrefix(kept, sections(m))
               /\ kept # <<>> => Len(to_bytes(short).out) <= bound
               /\ kept # sections(m) =>
                      short.flags.tc /\ ~fits(to_bytes(keep(m, Len(kept) + 1)), bound)
  <1> DEFINE bound == udp_bound(asked)
             marked == [m EXCEPT !.flags.tc = TRUE]
             short == truncate_for_udp(m, asked)
             kept == sections(short)
             foot == Footprint(m)
  <1>1. bound \in Nat /\ bound >= 11
    BY WireAssumption DEF udp_bound
  <1>2. foot \in Nat
    BY WrittenLen
  <1>3. CASE fits(to_bytes(m), bound)
    <2>1. short = m
      BY <1>3 DEF truncate_for_udp
    <2>2. IsPrefix(sections(m), sections(m))
      <3>1. Len(sections(m)) \in Nat
        BY FirstOver
      <3> QED BY <3>1 DEF IsPrefix
    <2> QED BY <1>3, <2>1, <2>2 DEF fits
  <1>4. CASE ~fits(to_bytes(m), bound)
    <2> DEFINE budget == bound - foot
               n == counted(marked, budget)
               s == sections(m)
               f(i) == records_to_wire(head_to_wire(marked), s, i)
    <2>1. /\ Sendable(marked) /\ marked.flags.tc /\ marked.questions = m.questions
          /\ marked.edns = m.edns /\ sections(marked) = s
      BY Marked
    <2>2. short = keep(marked, fit_sections(marked, bound))
      BY <1>4 DEF truncate_for_udp
    <2> HIDE DEF marked
    <2>3. fit_sections(marked, bound) = n
      <3>1. fit_sections(marked, bound) = counted(marked, IF bound < foot THEN 0 ELSE bound - foot)
        BY <2>1 DEF fit_sections, Footprint
      <3>2. (IF bound < foot THEN 0 ELSE bound - foot) = budget
        <4> HIDE DEF bound, foot
        <4>1. foot <= 11  BY DEF foot
        <4> QED BY <1>1, <1>2, <4>1
      <3> QED BY <3>1, <3>2
    <2>4. /\ n \in 0..Len(s) /\ Len(s) \in Nat
          /\ n # 0 => fits(f(n), budget)
          /\ n # Len(s) => ~fits(f(n + 1), budget)
      BY <2>1, FirstOver
    <2> HIDE DEF n, s, budget
    <2>5. short = keep(marked, n)
      BY <2>2, <2>3
    <2>6. /\ Sendable(short) /\ short.questions = marked.questions /\ short.edns = marked.edns
          /\ short.flags = marked.flags /\ Len(kept) = n
          /\ \A i \in 1..n : kept[i] = sections(marked)[i]
          /\ IsPrefix(kept, sections(marked))
          /\ n = Len(sections(marked)) => kept = sections(marked)
      <3>1. n \in 0..Len(sections(marked))
        BY <2>1, <2>4
      <3> QED BY <2>1, <2>5, <3>1, KeepFirst
    <2>7. n \in Nat /\ n <= Len(s)
      BY <2>4
    <2> HIDE DEF short, kept
    <2>8. Footprint(marked) = foot
      BY <2>1 DEF Footprint
    <2>9. /\ to_bytes(short).ok = f(n).ok /\ f(n).ok \in BOOLEAN /\ Len(f(n).out) \in Nat
          /\ f(n).ok => Len(to_bytes(short).out) = Len(f(n).out) + foot
          /\ n = 0 => f(n).ok
      <3> DEFINE g == records_to_wire(head_to_wire(marked), sections(marked), n)
      <3>1. /\ marked.questions = short.questions /\ marked.edns = short.edns
            /\ n = Len(sections(short)) /\ n <= Len(sections(marked))
            /\ \A i \in 1..n : sections(short)[i] = sections(marked)[i]
        BY <2>1, <2>6, <2>7 DEF kept
      <3>2. Sendable(marked) /\ Sendable(short) /\ n \in Nat
        BY <2>1, <2>6, <2>7
      <3>3. /\ to_bytes(short).ok = g.ok /\ g.ok \in BOOLEAN /\ Len(g.out) \in Nat
            /\ g.ok => Len(to_bytes(short).out) = Len(g.out) + Footprint(marked)
            /\ n = 0 => g.ok
        BY <3>1, <3>2, PartWritten, SMTT(30)
      <3>4. g = f(n)
        BY <2>1
      <3> HIDE DEF g, f
      <3> QED BY <2>8, <3>3, <3>4
    <2>10. f(n).ok
      BY <2>4, <2>9 DEF fits
    <2>11. kept # <<>> => Len(to_bytes(short).out) <= bound
      <3> SUFFICES ASSUME kept # <<>> PROVE Len(to_bytes(short).out) <= bound
        OBVIOUS
      <3>1. n # 0
        <4>1. kept \in Seq({kept[i] : i \in 1..Len(kept)}) \/ n # 0
          <5>1. WireSection(short.answers) /\ WireSection(short.authorities) /\ WireSection(short.additionals)
            BY <2>6 DEF Sendable
          <5>2. kept = [i \in 1..Len(kept) |-> kept[i]]
            BY <5>1, SectionsFacts DEF kept
          <5> QED BY <2>6, <2>7, <5>2, SeqDef
        <4> QED BY <2>6, <4>1, EmptySeq
      <3>2. Len(f(n).out) <= budget
        BY <2>4, <3>1 DEF fits
      <3>3. Len(to_bytes(short).out) = Len(f(n).out) + foot
        BY <2>9, <2>10
      <3> DEFINE x == Len(f(n).out)
                 y == Len(to_bytes(short).out)
      <3>4. x \in Nat /\ x <= bound - foot /\ y = x + foot
        BY <2>9, <3>2, <3>3 DEF budget
      <3> HIDE DEF x, y, bound, foot
      <3>5. y <= bound
        BY <1>1, <1>2, <3>4
      <3> QED BY <3>5 DEF y
    <2>12. ASSUME kept # s PROVE ~fits(to_bytes(keep(m, Len(kept) + 1)), bound)
      <3> DEFINE k == keep(m, n + 1)
                 w == to_bytes(k)
      <3>1. n # Len(s)
        BY <2>1, <2>6, <2>12
      <3>2. n + 1 \in 0..Len(s) /\ n + 1 \in Nat /\ n + 1 <= Len(s)
        <4> DEFINE l == Len(s)
        <4>1. l \in Nat /\ n \in Nat /\ n <= l /\ n # l
          BY <2>4, <2>7, <3>1
        <4> HIDE DEF l
        <4>2. n + 1 \in 0..l /\ n + 1 \in Nat /\ n + 1 <= l
          BY <4>1
        <4> QED BY <4>2 DEF l
      <3>3. /\ Sendable(k) /\ k.questions = m.questions /\ k.edns = m.edns /\ Len(sections(k)) = n + 1
            /\ \A i \in 1..n + 1 : sections(k)[i] = s[i]
        BY <3>2, KeepFirst DEF s
      <3> HIDE DEF k
      <3>4. /\ w.ok = f(n + 1).ok /\ Len(f(n + 1).out) \in Nat
            /\ f(n + 1).ok => Len(w.out) = Len(f(n + 1).out) + foot
        <4>1. /\ marked.questions = k.questions /\ marked.edns = k.edns
              /\ n + 1 = Len(sections(k)) /\ n + 1 <= Len(sections(marked))
              /\ \A i \in 1..n + 1 : sections(k)[i] = sections(marked)[i]
          BY <2>1, <3>2, <3>3
        <4> DEFINE g == records_to_wire(head_to_wire(marked), sections(marked), n + 1)
        <4>2. Sendable(marked) /\ Sendable(k) /\ n + 1 \in Nat
          BY <2>1, <3>2, <3>3
        <4>3. /\ w.ok = g.ok /\ Len(g.out) \in Nat
              /\ g.ok => Len(w.out) = Len(g.out) + Footprint(marked)
          BY <4>1, <4>2, PartWritten
        <4>4. g = f(n + 1)
          BY <2>1
        <4> HIDE DEF g, f
        <4> QED BY <2>8, <4>3, <4>4
      <3>5. ~fits(f(n + 1), budget)
        BY <2>4, <3>1
      <3>6. ASSUME w.ok PROVE ~(Len(w.out) <= bound)
        <4> DEFINE x == Len(f(n + 1).out)
                   y == Len(w.out)
        <4>1. x \in Nat /\ y = x + foot /\ ~(x <= bound - foot)
          BY <3>4, <3>5, <3>6 DEF fits, budget
        <4> HIDE DEF x, y, bound, foot
        <4>2. ~(y <= bound)
          BY <1>1, <1>2, <4>1
        <4> QED BY <4>2 DEF y
      <3>7. ~fits(w, bound)
        BY <3>6 DEF fits
      <3> QED BY <2>6, <3>7 DEF k
    <2>13. to_bytes(short).ok
      BY <2>9, <2>10
    <2> QED BY <2>1, <2>6, <2>11, <2>12, <2>13 DEF short, kept, s
  <1> QED BY <1>3, <1>4

-----------------------------------------------------------------------------
(* The messages of the exchange can be written *)

(* An OPT record is eleven octets and its options. *)
LEMMA OptOctets ==
    ASSUME NEW e, e.size \in Nat, e.ext \in Nat, e.version \in Nat, options_wire(e.options) \in Octets
    PROVE  opt_record(e) \in Octets /\ Len(opt_record(e)) = 11 + Len(options_wire(e.options))
  <1> DEFINE z == options_wire(e.options)
             a == <<0>>
             b == u16(RrType.OPT)
             c == u16(e.size)
             d == <<e.ext, e.version, IF e.dnssec THEN 128 ELSE 0, 0>>
             g == u16(Len(z))
  <1>1. Len(z) \in Nat /\ RrType.OPT \in Nat
    BY DEF Octets, RrType
  <1>2. a \in Octets /\ Len(a) = 1 /\ d \in Octets /\ Len(d) = 4
    BY DEF Octets
  <1>3. /\ b \in Octets /\ Len(b) = 2 /\ c \in Octets /\ Len(c) = 2 /\ g \in Octets /\ Len(g) = 2
    <2> HIDE DEF z
    <2> QED BY <1>1, TwoOctets
  <1>4. opt_record(e) = a \o b \o c \o d \o g \o z
    BY DEF opt_record
  <1>5. z \in Octets
    OBVIOUS
  <1> HIDE DEF a, b, c, d, g, z
  <1>6. a \o b \in Octets /\ Len(a \o b) = Len(a) + Len(b)
    BY <1>2, <1>3, Behind
  <1>7. a \o b \o c \in Octets /\ Len(a \o b \o c) = Len(a \o b) + Len(c)
    BY <1>3, <1>6, Behind
  <1>8. a \o b \o c \o d \in Octets /\ Len(a \o b \o c \o d) = Len(a \o b \o c) + Len(d)
    BY <1>2, <1>7, Behind
  <1>9. a \o b \o c \o d \o g \in Octets /\ Len(a \o b \o c \o d \o g) = Len(a \o b \o c \o d) + Len(g)
    BY <1>3, <1>8, Behind
  <1>10. opt_record(e) \in Octets /\ Len(opt_record(e)) = Len(a \o b \o c \o d \o g) + Len(z)
    BY <1>4, <1>5, <1>9, Behind
  <1>11. Len(opt_record(e)) = 11 + Len(z)
    <2> DEFINE y == Len(a \o b)
               x == Len(a \o b \o c)
               u == Len(a \o b \o c \o d)
               v == Len(a \o b \o c \o d \o g)
               l == Len(z)
    <2>1. y = 1 + 2 /\ x = y + 2 /\ u = x + 4 /\ v = u + 2 /\ Len(opt_record(e)) = v + l /\ l \in Nat
      BY <1>1, <1>2, <1>3, <1>6, <1>7, <1>8, <1>9, <1>10
    <2> HIDE DEF y, x, u, v, l
    <2>2. Len(opt_record(e)) = 11 + l
      BY <2>1
    <2> QED BY <2>2 DEF l
  <1> QED BY <1>10, <1>11 DEF z

(* No options are no octets. *)
LEMMA NoOptions == options_wire(<<>>) = <<>>
  <1> DEFINE body(i) == LET data == IF <<>>[i].code = PADDING THEN <<>> ELSE <<>>[i].data
                        IN  u16(<<>>[i].code) \o u16(Len(data)) \o data
             s == [i \in DOMAIN <<>> |-> body(i)]
  <1>1. options_wire(<<>>) = FlattenSeq(s)
    BY DEF options_wire
  <1> HIDE DEF body
  <1>2. s = <<>>
    OBVIOUS
  <1>3. Len(s) = 0
    BY <1>2
  <1> QED BY <1>1, <1>2, <1>3 DEF FlattenSeq

(* Options are written as octets. *)
LEMMA OptionsOctets ==
    ASSUME NEW options \in Seq([code : Nat, data : Octets])
    PROVE  options_wire(options) \in Octets
  <1> DEFINE data(i) == IF options[i].code = PADDING THEN <<>> ELSE options[i].data
             one(i) == u16(options[i].code) \o u16(Len(data(i))) \o data(i)
             n == Len(options)
             s == [i \in DOMAIN options |-> one(i)]
  <1>1. /\ n \in Nat /\ DOMAIN options = 1..n
        /\ \A i \in 1..n : options[i].code \in Nat /\ options[i].data \in Octets
    <2> DEFINE O == [code : Nat, data : Octets]
    <2>1. \A o \in O : o.code \in Nat /\ o.data \in Octets
      OBVIOUS
    <2> HIDE DEF O
    <2>2. options \in Seq(O)
      BY DEF O
    <2>3. n \in Nat /\ DOMAIN options = 1..n /\ \A i \in 1..n : options[i] \in O
      BY <2>2
    <2> QED BY <2>1, <2>3
  <1>2. ASSUME NEW i \in 1..n PROVE one(i) \in Octets
    <2>1. options[i].code \in Nat /\ data(i) \in Octets
      BY <1>1, <1>2 DEF Octets
    <2> HIDE DEF data
    <2>2. Len(data(i)) \in Nat
      BY <2>1 DEF Octets
    <2>3. u16(options[i].code) \in Octets /\ u16(Len(data(i))) \in Octets
      BY <2>1, <2>2, TwoOctets
    <2>4. u16(options[i].code) \o u16(Len(data(i))) \in Octets
      BY <2>3, Behind
    <2> QED BY <2>1, <2>4, Behind
  <1>3. options_wire(options) = FlattenSeq(s)
    BY DEF options_wire
  <1> HIDE DEF one
  <1>4. s = [i \in 1..n |-> s[i]] /\ \A i \in 1..n : s[i] \in Octets
    BY <1>1, <1>2
  <1> HIDE DEF s
  <1>5. s \in Seq(Seq(Nat))
    BY <1>1, <1>4, SeqDef DEF Octets
  <1> QED BY <1>3, <1>5, FlattenTyped DEF Octets

(* A query an asker may send. *)
LEMMA QuerySendable ==
    ASSUME NEW q \in Queries PROVE Sendable(q)
  <1>1. WireQuery(q) /\ q.flags.opcode \in Nat /\ q.flags.rcode \in Nat
    BY WireAssumption
  <1>2. /\ q \in [id : Nat, flags : {q.flags}, questions : Seq(WireQuestion), answers : {q.answers},
                  authorities : {q.authorities}, additionals : {q.additionals}, edns : {q.edns}]
        /\ q.answers = <<>> /\ q.authorities = <<>> /\ q.additionals = <<>> /\ q.edns \in Seq(WireEdns)
    BY <1>1 DEF WireQuery
  <1>3. WireSection(<<>>)
    BY DEF WireSection
  <1>4. Len(q.edns) \in Nat
    BY <1>2
  <1>5. ASSUME q.edns # <<>> PROVE opt_record(q.edns[1]) \in Octets
    <2> DEFINE e == q.edns[1]
    <2>1. e \in WireEdns
      BY <1>2, <1>5
    <2> HIDE DEF e
    <2>2. e.size \in Nat /\ e.ext \in Nat /\ e.version \in Nat /\ e.options \in Seq([code : Nat, data : Octets])
      BY <2>1 DEF WireEdns
    <2>3. options_wire(e.options) \in Octets
      BY <2>2, OptionsOctets
    <2>4. opt_record(e) \in Octets
      BY <2>2, <2>3, OptOctets
    <2> QED BY <2>4 DEF e
  <1> QED BY <1>1, <1>2, <1>3, <1>4, <1>5 DEF Sendable

(* The OPT record of a response has no options. *)
LEMMA OwnOpt ==
    ASSUME NEW size \in Nat, NEW do
    PROVE  LET e == [NewEdns(size) EXCEPT !.dnssec = do]
           IN  /\ opt_record(e) \in Octets /\ Len(opt_record(e)) = 11
               /\ opt_record(NewEdns(size)) \in Octets /\ Len(opt_record(NewEdns(size))) = 11
  <1>1. ASSUME NEW e, e.size = size, e.ext = 0, e.version = 0, e.options = <<>>
        PROVE  opt_record(e) \in Octets /\ Len(opt_record(e)) = 11
    <2>1. options_wire(e.options) \in Octets /\ Len(options_wire(e.options)) = 0
      <3>1. options_wire(e.options) = <<>>
        BY <1>1, NoOptions
      <3>2. <<>> \in Octets /\ Len(<<>>) = 0
        BY EmptySeq DEF Octets
      <3> QED BY <3>1, <3>2
    <2>2. opt_record(e) \in Octets /\ Len(opt_record(e)) = 11 + Len(options_wire(e.options))
      BY <1>1, <2>1, OptOctets
    <2> QED BY <2>1, <2>2
  <1> DEFINE e == [NewEdns(size) EXCEPT !.dnssec = do]
             n == NewEdns(size)
  <1>2. e.size = size /\ e.ext = 0 /\ e.version = 0 /\ e.options = <<>>
    BY DEF NewEdns
  <1>3. n.size = size /\ n.ext = 0 /\ n.version = 0 /\ n.options = <<>>
    BY DEF NewEdns
  <1> HIDE DEF e, n
  <1>4. opt_record(e) \in Octets /\ Len(opt_record(e)) = 11  BY <1>1, <1>2
  <1>5. opt_record(n) \in Octets /\ Len(opt_record(n)) = 11  BY <1>1, <1>3
  <1> QED BY <1>4, <1>5 DEF e, n

(* An error response can be written, with the OPT record in 11 octets. *)
LEMMA ErrorSendable ==
    ASSUME NEW query, query.questions \in Seq(WireQuestion), query.id \in Nat,
           query.edns # <<>> => query.edns[1].size \in Nat, NEW code \in Nat
    PROVE  LET m == error_response(query, code) IN Sendable(m) /\ Flagged(m) /\ Footprint(m) <= 11
  <1> DEFINE m == error_response(query, code)
             new == NewMessage(query.id)
             fl == [new.flags EXCEPT !.qr = TRUE, !.rd = query.flags.rd, !.ra = TRUE, !.rcode = code]
             ed == IF query.edns = <<>> THEN <<>> ELSE <<NewEdns(query.edns[1].size)>>
  <1>1. /\ m.questions = query.questions /\ m.flags = fl /\ m.edns = ed
        /\ m.answers = <<>> /\ m.authorities = <<>> /\ m.additionals = <<>>
        /\ m \in [id : Nat, flags : {fl}, questions : Seq(WireQuestion), answers : {<<>>},
                  authorities : {<<>>}, additionals : {<<>>}, edns : {ed}]
    <2>1. m = [new EXCEPT !.flags = fl, !.questions = query.questions, !.edns = ed]
      BY DEF error_response
    <2>2. new \in [id : Nat, flags : {new.flags}, questions : {<<>>}, answers : {<<>>},
                   authorities : {<<>>}, additionals : {<<>>}, edns : {<<>>}]
      BY DEF NewMessage
    <2> HIDE DEF m, new, fl, ed
    <2> QED BY <2>1, <2>2
  <1>2. fl \in [qr : {fl.qr}, opcode : Nat, aa : {fl.aa}, tc : {fl.tc}, rd : {fl.rd}, ra : {fl.ra},
                ad : {fl.ad}, cd : {fl.cd}, rcode : Nat]
    <2> DEFINE old == new.flags
    <2>1. old \in [qr : {FALSE}, opcode : Nat, aa : {FALSE}, tc : {FALSE}, rd : {TRUE}, ra : {FALSE},
                   ad : {FALSE}, cd : {FALSE}, rcode : Nat]
      BY DEF NewMessage, DefaultFlags
    <2> HIDE DEF new, old
    <2>2. fl = [old EXCEPT !.qr = TRUE, !.rd = query.flags.rd, !.ra = TRUE, !.rcode = code]
      BY DEF old
    <2> HIDE DEF fl
    <2> QED BY <2>1, <2>2
  <1>3. /\ Len(ed) \in Nat
        /\ ed # <<>> => opt_record(ed[1]) \in Octets /\ Len(opt_record(ed[1])) = 11
    BY OwnOpt
  <1> HIDE DEF m, fl, ed
  <1>4. WireSection(<<>>)
    BY DEF WireSection
  <1>5. fl.opcode \in Nat /\ fl.rcode \in Nat
    BY <1>2
  <1>6. Sendable(m)
    BY <1>1, <1>3, <1>4, <1>5 DEF Sendable
  <1>7. Flagged(m)
    BY <1>1, <1>2 DEF Flagged
  <1>8. Footprint(m) <= 11
    <2>1. Footprint(m) = 0 \/ Footprint(m) = 11
      BY <1>1, <1>3 DEF Footprint
    <2> QED BY <2>1
  <1> QED BY <1>6, <1>7, <1>8 DEF m

(* A section whose records get the resolution's TTL. *)
LEMMA AgedSection ==
    ASSUME NEW recs, WireSection(recs), NEW ttl \in Octets
    PROVE  WireSection([i \in DOMAIN recs |-> [recs[i] EXCEPT !.ttl = ttl]])
  <1> DEFINE n == Len(recs)
             one(i) == [recs[i] EXCEPT !.ttl = ttl]
             s == [i \in DOMAIN recs |-> one(i)]
  <1>1. n \in Nat /\ DOMAIN recs = 1..n /\ \A i \in 1..n : WireRecord(recs[i])
    BY DEF WireSection
  <1>2. ASSUME NEW i \in 1..n PROVE WireRecord(one(i))
    <2> DEFINE r == recs[i]
               o == one(i)
    <2>1. WireRecord(r) /\ o = [r EXCEPT !.ttl = ttl]
      BY <1>1
    <2> HIDE DEF r, o
    <2>2. /\ o.rdata = r.rdata /\ o.type = r.type
          /\ o \in [name : DomainName, type : Nat, class : Nat, ttl : Octets, rdata : {r.rdata}]
      BY <2>1 DEF WireRecord
    <2>3. WireRecord(o)
      BY <2>1, <2>2 DEF WireRecord
    <2> QED BY <2>3 DEF o
  <1> HIDE DEF one
  <1>3. DOMAIN s = 1..n /\ s = [i \in 1..n |-> s[i]] /\ \A i \in 1..n : s[i] = one(i)
    BY <1>1
  <1> HIDE DEF s, n
  <1>4. s \in Seq(ToSet(s)) /\ Len(s) = n
    <2>1. \A i \in 1..n : s[i] \in ToSet(s)
      BY <1>3 DEF ToSet
    <2> QED BY <1>1, <1>3, <2>1, IsASeq, LenProperties
  <1>5. WireSection(s)
    BY <1>2, <1>3, <1>4 DEF WireSection
  <1> QED BY <1>5 DEF s, one

(* A section behind a section is a section. *)
LEMMA SectionsJoined ==
    ASSUME NEW a, NEW b, WireSection(a), WireSection(b) PROVE WireSection(a \o b)
  <1> DEFINE S == ToSet(a) \union ToSet(b)
             s == a \o b
  <1>1. a \in Seq(S) /\ b \in Seq(S)
    <2>1. a \in Seq(ToSet(a)) /\ b \in Seq(ToSet(b))
      BY DEF WireSection
    <2>2. ToSet(a) \subseteq S /\ ToSet(b) \subseteq S
      OBVIOUS
    <2> HIDE DEF S
    <2> QED BY <2>1, <2>2, SeqMonotonic
  <1> HIDE DEF S
  <1>2. /\ s \in Seq(S) /\ Len(s) = Len(a) + Len(b) /\ Len(a) \in Nat /\ Len(b) \in Nat
        /\ \A i \in 1..Len(a) + Len(b) : s[i] = IF i <= Len(a) THEN a[i] ELSE b[i - Len(a)]
    BY <1>1, ConcatProperties
  <1> HIDE DEF s
  <1>3. ASSUME NEW i \in 1..Len(s) PROVE WireRecord(s[i])
    <2>1. CASE i <= Len(a)
      <3>1. i \in 1..Len(a) /\ s[i] = a[i]
        BY <1>2, <2>1
      <3> QED BY <3>1 DEF WireSection
    <2>2. CASE ~(i <= Len(a))
      <3>1. i - Len(a) \in 1..Len(b) /\ s[i] = b[i - Len(a)]
        BY <1>2, <2>2
      <3> QED BY <3>1 DEF WireSection
    <2> QED BY <2>1, <2>2
  <1>4. s \in Seq(ToSet(s))
    <2> DEFINE n == Len(s)
    <2>1. n \in Nat /\ DOMAIN s = 1..n /\ s = [i \in 1..n |-> s[i]]
      BY <1>2
    <2> HIDE DEF n
    <2>2. \A i \in 1..n : s[i] \in ToSet(s)
      BY <2>1 DEF ToSet
    <2> QED BY <2>1, <2>2, SeqDef
  <1>5. WireSection(s)
    BY <1>3, <1>4 DEF WireSection
  <1> QED BY <1>5 DEF s

(* A response that was built can be written, with the OPT record in 11 octets. *)
LEMMA ResponseSendable ==
    ASSUME NEW query, query.questions \in Seq(WireQuestion), query.id \in Nat,
           query.edns # <<>> => query.edns[1].size \in Nat,
           NEW res \in Resolutions, ~res.failed
    PROVE  LET m == build_response(query, res) IN Sendable(m) /\ Flagged(m) /\ Footprint(m) <= 11
  <1> DEFINE m == build_response(query, res)
             do == query.edns # <<>> /\ query.edns[1].dnssec
             aged(recs) == [i \in DOMAIN recs |-> [recs[i] EXCEPT !.ttl = res.ttl]]
             ad == res.validated /\ Anchored /\ (do \/ query.flags.ad)
             fl == [DefaultFlags EXCEPT !.qr = TRUE, !.rd = query.flags.rd, !.ra = TRUE,
                        !.ad = ad, !.cd = query.flags.cd, !.rcode = res.rcode]
             an == aged(res.answers) \o (IF do THEN aged(res.rrsigs) ELSE <<>>)
             au == aged(res.authorities)
             sz == IF query.edns[1].size < MinUdp THEN MinUdp ELSE query.edns[1].size
             ed == IF query.edns = <<>> THEN <<>>
                   ELSE <<[NewEdns(sz) EXCEPT !.dnssec = query.edns[1].dnssec]>>
             new == NewMessage(query.id)
  <1>1. /\ m.questions = query.questions /\ m.flags = fl /\ m.edns = ed
        /\ m.answers = an /\ m.authorities = au /\ m.additionals = <<>>
        /\ m \in [id : Nat, flags : {fl}, questions : Seq(WireQuestion), answers : {an},
                  authorities : {au}, additionals : {<<>>}, edns : {ed}]
    <2>1. m = [new EXCEPT !.flags = fl, !.questions = query.questions, !.answers = an,
                          !.authorities = au, !.edns = ed]
      BY DEF build_response
    <2>2. new \in [id : Nat, flags : {new.flags}, questions : {<<>>}, answers : {<<>>},
                   authorities : {<<>>}, additionals : {<<>>}, edns : {<<>>}]
      BY DEF NewMessage
    <2> HIDE DEF m, new, fl, ed, an, au
    <2> QED BY <2>1, <2>2
  <1>2. /\ res.rcode \in Nat /\ res.ttl \in Octets
        /\ WireSection(res.answers) /\ WireSection(res.rrsigs) /\ WireSection(res.authorities)
    BY WireAssumption
  <1>3. WireSection(<<>>)
    BY DEF WireSection
  <1>4. WireSection(aged(res.answers)) /\ WireSection(aged(res.rrsigs)) /\ WireSection(au)
    BY <1>2, AgedSection
  <1>5. WireSection(an)
    <2> HIDE DEF aged, do
    <2>1. WireSection(IF do THEN aged(res.rrsigs) ELSE <<>>)
      BY <1>3, <1>4
    <2> QED BY <1>4, <2>1, SectionsJoined
  <1>6. /\ Len(ed) \in Nat
        /\ ed # <<>> => opt_record(ed[1]) \in Octets /\ Len(opt_record(ed[1])) = 11
    <2>1. query.edns # <<>> => sz \in Nat
      BY WireAssumption
    <2> HIDE DEF sz
    <2> QED BY <2>1, OwnOpt
  <1> HIDE DEF ad
  <1>7. fl \in [qr : {fl.qr}, opcode : Nat, aa : {fl.aa}, tc : {fl.tc}, rd : {fl.rd}, ra : {fl.ra},
                ad : {fl.ad}, cd : {fl.cd}, rcode : Nat]
    <2> DEFINE old == DefaultFlags
    <2>1. old \in [qr : {FALSE}, opcode : Nat, aa : {FALSE}, tc : {FALSE}, rd : {TRUE}, ra : {FALSE},
                   ad : {FALSE}, cd : {FALSE}, rcode : Nat]
      BY DEF DefaultFlags
    <2>2. fl = [old EXCEPT !.qr = TRUE, !.rd = query.flags.rd, !.ra = TRUE,
                           !.ad = ad, !.cd = query.flags.cd, !.rcode = res.rcode]
      OBVIOUS
    <2> HIDE DEF fl, old
    <2> QED BY <1>2, <2>1, <2>2
  <1> HIDE DEF m, fl, ed, an, au
  <1>8. fl.opcode \in Nat /\ fl.rcode \in Nat
    BY <1>2, <1>7
  <1>9. Sendable(m)
    BY <1>1, <1>3, <1>4, <1>5, <1>6, <1>8 DEF Sendable
  <1>10. Flagged(m)
    BY <1>1, <1>2, <1>7 DEF Flagged
  <1>11. Footprint(m) <= 11
    <2>1. Footprint(m) = 0 \/ Footprint(m) = 11
      BY <1>1, <1>6 DEF Footprint
    <2> QED BY <2>1
  <1> QED BY <1>9, <1>10, <1>11 DEF m

(* The answer to octets that do not parse is a header. *)
LEMMA FormerrSendable ==
    ASSUME NEW octs \in Octets
    PROVE  LET m == formerr(octs)
           IN  /\ Sendable(m) /\ sections(m) = <<>> /\ to_bytes(m).ok
  <1> DEFINE id == IF Len(octs) >= 2 THEN u16_at(octs, 0) ELSE 0
             m == formerr(octs)
             new == NewMessage(id)
             rd == Len(octs) >= 3 /\ octs[3] % 2 = 1
             fl == [new.flags EXCEPT !.qr = TRUE, !.ra = TRUE, !.rcode = Rcode.FORMERR, !.rd = rd]
  <1>1. id \in Nat
    <2>1. Len(octs) \in Nat
      BY DEF Octets
    <2>2. 0 + 2 <= Len(octs) => u16_at(octs, 0) \in Nat
      BY OctetRead
    <2> QED BY <2>1, <2>2
  <1>2. m = [new EXCEPT !.flags = fl]
    BY DEF formerr
  <1> HIDE DEF id, rd, m
  <1>3. /\ new \in [id : Nat, flags : {new.flags}, questions : {<<>>}, answers : {<<>>},
                    authorities : {<<>>}, additionals : {<<>>}, edns : {<<>>}]
        /\ new.flags = DefaultFlags
    BY <1>1 DEF NewMessage
  <1> HIDE DEF new
  <1>4. fl.opcode \in Nat /\ fl.rcode \in Nat
    <2> DEFINE old == DefaultFlags
    <2>1. old \in [qr : {FALSE}, opcode : Nat, aa : {FALSE}, tc : {FALSE}, rd : {TRUE}, ra : {FALSE},
                   ad : {FALSE}, cd : {FALSE}, rcode : Nat]
      BY DEF DefaultFlags
    <2>2. Rcode.FORMERR \in Nat
      BY DEF Rcode
    <2>3. fl = [old EXCEPT !.qr = TRUE, !.ra = TRUE, !.rcode = Rcode.FORMERR, !.rd = rd]
      BY <1>3
    <2> HIDE DEF fl, old
    <2> QED BY <2>1, <2>2, <2>3
  <1> HIDE DEF fl
  <1>5. /\ m.flags = fl /\ m.questions = <<>> /\ m.edns = <<>>
        /\ m.answers = <<>> /\ m.authorities = <<>> /\ m.additionals = <<>>
        /\ m \in [id : Nat, flags : {fl}, questions : {<<>>}, answers : {<<>>},
                  authorities : {<<>>}, additionals : {<<>>}, edns : {<<>>}]
    BY <1>2, <1>3
  <1>6. m \in [id : Nat, flags : {fl}, questions : Seq(WireQuestion), answers : {<<>>},
                authorities : {<<>>}, additionals : {<<>>}, edns : {<<>>}]
    <2>1. {<<>>} \subseteq Seq(WireQuestion)
      BY EmptySeq
    <2> QED BY <1>5, <2>1
  <1>7. WireSection(<<>>)
    BY DEF WireSection
  <1>8. Sendable(m)
    BY <1>4, <1>5, <1>6, <1>7, EmptySeq DEF Sendable
  <1>9. sections(m) = <<>>
    BY <1>5 DEF sections
  <1>10. to_bytes(m).ok
    <2>1. Len(sections(m)) = 0 /\ 0 <= Len(sections(m)) /\ \A i \in 1..0 : sections(m)[i] = sections(m)[i]
      BY <1>9
    <2>2. LET f == records_to_wire(head_to_wire(m), sections(m), 0)
          IN  to_bytes(m).ok = f.ok /\ f.ok
      BY <1>8, <2>1, PartWritten
    <2> QED BY <2>2
  <1> QED BY <1>8, <1>9, <1>10 DEF m

(* What handle_query answers can be written, with the OPT record in 11 octets. *)
LEMMA HandledSendable ==
    ASSUME NEW query, query.questions \in Seq(WireQuestion), query.id \in Nat,
           query.edns # <<>> => query.edns[1].size \in Nat, NEW outcome \in Resolutions
    PROVE  LET m == handle_query(query, outcome) IN Sendable(m) /\ Flagged(m) /\ Footprint(m) <= 11
  <1>1. Rcode.FORMERR \in Nat /\ outcome.rcode \in Nat
    BY WireAssumption DEF Rcode
  <1>2. CASE ~validate_query(query)
    <2>1. handle_query(query, outcome) = error_response(query, Rcode.FORMERR)
      BY <1>2 DEF handle_query
    <2> QED BY <1>1, <2>1, ErrorSendable
  <1>3. CASE validate_query(query) /\ outcome.failed
    <2>1. handle_query(query, outcome) = error_response(query, outcome.rcode)
      BY <1>3 DEF handle_query
    <2> QED BY <1>1, <2>1, ErrorSendable
  <1>4. CASE validate_query(query) /\ ~outcome.failed
    <2>1. handle_query(query, outcome) = build_response(query, outcome)
      BY <1>4 DEF handle_query
    <2> QED BY <1>4, <2>1, ResponseSendable
  <1> QED BY <1>2, <1>3, <1>4

(* Answering leaves a tight response. *)
LEMMA AnswerTight ==
    ASSUME wire \in Octets, NEW outcome \in Resolutions, NEW udp \in BOOLEAN, Answer(outcome, udp)
    PROVE  TruncationTight'
  <1> DEFINE query == parse_message(wire)
             whole == IF query.ok THEN handle_query(query.value, outcome) ELSE formerr(wire)
             asked == udp_limit(query)
             short == IF udp /\ query.ok THEN truncate_for_udp(whole, asked) ELSE whole
             bound == udp_bound(asked)
             kept == sections(short)
             a == answer(query, whole, udp)
  <1>1. /\ room' = IF udp THEN asked ELSE TCP
        /\ full' = a.full /\ cut' = a.cut /\ more' = a.more
        /\ wire' = IF udp THEN a.out ELSE framed(a.out)
    BY DEF Answer, Handle, Respond
  <1>2. a = transmitted(query, whole, short, to_bytes(short))
    BY DEF answer, shortened
  <1> SUFFICES ASSUME room' \in Nat
               PROVE  /\ cut'.questions = full'.questions /\ cut'.edns = full'.edns
                      /\ IsPrefix(sections(cut'), sections(full'))
                      /\ sections(cut') # <<>> => Len(wire') <= udp_bound(room')
                      /\ sections(cut') # sections(full') => cut'.flags.tc /\ ~more'
    BY DEF TruncationTight
  <1>3. udp /\ room' = asked /\ asked \in Nat
    <2>1. TCP \notin Nat
      BY DEF TCP
    <2> HIDE DEF asked
    <2> QED BY <1>1, <2>1
  <1> HIDE DEF a, query
  <1>4. /\ a.full = whole
        /\ to_bytes(short).ok => /\ a.cut = short /\ a.out = to_bytes(short).out
        /\ a.more = fits(to_bytes(keep(whole, Len(kept) + 1)), bound)
    <2> HIDE DEF whole, short
    <2> QED BY <1>2 DEF transmitted
  <1>5. CASE query.ok
    <2> DEFINE v == query.value
    <2>1. v.questions \in Seq(WireQuestion) /\ v.id \in Nat
      BY <1>5, MessageRead DEF query
    <2>2. v.edns # <<>> => v.edns[1].size \in Nat
      <3>1. v.edns # <<>> => asked = v.edns[1].size
        BY <1>5 DEF udp_limit
      <3> HIDE DEF v, asked
      <3> QED BY <1>3, <3>1
    <2> HIDE DEF v
    <2>3. Sendable(whole) /\ Flagged(whole) /\ Footprint(whole) <= 11
      <3>1. whole = handle_query(v, outcome)
        BY <1>5 DEF v
      <3> HIDE DEF whole
      <3> QED BY <2>1, <2>2, <3>1, HandledSendable
    <2>4. short = truncate_for_udp(whole, asked)
      BY <1>3, <1>5
    <2> HIDE DEF whole, short, asked
    <2>5. /\ to_bytes(short).ok /\ short.questions = whole.questions /\ short.edns = whole.edns
          /\ IsPrefix(kept, sections(whole))
          /\ kept # <<>> => Len(to_bytes(short).out) <= bound
          /\ kept # sections(whole) =>
                 short.flags.tc /\ ~fits(to_bytes(keep(whole, Len(kept) + 1)), bound)
      BY <1>3, <2>3, <2>4, Truncated
    <2>6. /\ full' = whole /\ cut' = short /\ wire' = to_bytes(short).out
          /\ more' = fits(to_bytes(keep(whole, Len(kept) + 1)), bound)
      BY <1>1, <1>3, <1>4, <2>5
    <2> QED BY <1>3, <2>5, <2>6
  <1>6. CASE ~query.ok
    <2>1. whole = formerr(wire) /\ short = whole
      BY <1>6
    <2> HIDE DEF whole, short
    <2>2. sections(whole) = <<>> /\ to_bytes(whole).ok
      BY <2>1, FormerrSendable
    <2>3. full' = whole /\ cut' = whole
      BY <1>1, <1>4, <2>1, <2>2
    <2>4. IsPrefix(sections(whole), sections(whole))
      <3>1. Len(sections(whole)) = 0
        BY <2>2
      <3> QED BY <3>1 DEF IsPrefix
    <2> QED BY <2>2, <2>3, <2>4
  <1> QED BY <1>5, <1>6

\* The octets of a query in flight are octets, whatever was done to them.
Inflight == phase = "query" => wire \in Octets

(* Damage leaves octets. *)
LEMMA DamageTyped ==
    ASSUME wire \in Octets, Damage PROVE wire' \in Octets
  <1>1. CASE \E i \in DOMAIN wire, o \in Faults : wire' = [wire EXCEPT ![i] = o]
    <2>1. PICK i \in DOMAIN wire, o \in Faults : wire' = [wire EXCEPT ![i] = o]
      BY <1>1
    <2>2. o \in Nat
      BY WireAssumption
    <2>3. i \in 1..Len(wire)
      BY DEF Octets
    <2> QED BY <2>1, <2>2, <2>3 DEF Octets
  <1>2. CASE \E n \in 0..Len(wire) - 1 : wire' = SubSeq(wire, 1, n)
    <2>1. PICK n \in 0..Len(wire) - 1 : wire' = SubSeq(wire, 1, n)
      BY <1>2
    <2>2. Len(wire) \in Nat /\ wire \in Seq(Nat)
      BY DEF Octets
    <2>3. \A i \in 1..n : wire[i] \in Nat
      BY <2>2
    <2>4. SubSeq(wire, 1, n) \in Seq(Nat)
      BY <2>1, <2>2, <2>3, SubSeqProperties
    <2> QED BY <2>1, <2>4 DEF Octets
  <1> QED BY <1>1, <1>2 DEF Damage

(* Over UDP the server drops the least (message.rs truncate_for_udp): for any
   queries, resolutions, limits and damage, the question and the OPT record stay,
   the records kept are the first, they fit, and one more would not have. *)
THEOREM TruncationIsTight == WireSpec => []TruncationTight
  <1> DEFINE I == Inflight /\ TruncationTight
  <1>1. WireInit => I
    BY DEF WireInit, Inflight, TruncationTight
  <1>2. I /\ [WireNext]_wireVars => I'
    <2> SUFFICES ASSUME Inflight, TruncationTight, [WireNext]_wireVars PROVE Inflight' /\ TruncationTight'
      OBVIOUS
    <2>1. ASSUME NEW q \in Queries, SendQuery(q) PROVE Inflight' /\ TruncationTight'
      <3>1. to_bytes(q).out \in Octets
        BY QuerySendable, WrittenLen
      <3> QED BY <2>1, <3>1 DEF SendQuery, Inflight, TruncationTight
    <2>2. CASE Damage
      <3>1. CASE phase = "query"
        <4>1. wire' \in Octets
          BY <2>2, <3>1, DamageTyped DEF Inflight
        <4> QED BY <2>2, <3>1, <4>1 DEF Damage, Inflight, TruncationTight
      <3>2. CASE phase = "reply"
        BY <2>2, <3>2 DEF Damage, Inflight, TruncationTight
      <3> QED BY <2>2, <3>1, <3>2 DEF Damage
    <2>3. ASSUME NEW outcome \in Resolutions, NEW udp \in BOOLEAN, Answer(outcome, udp)
          PROVE  Inflight' /\ TruncationTight'
      <3>1. wire \in Octets /\ phase' = "reply"
        BY <2>3 DEF Answer, Inflight
      <3>2. TruncationTight'
        BY <2>3, <3>1, AnswerTight
      <3> QED BY <3>1, <3>2 DEF Inflight
    <2>4. CASE Read
      BY <2>4 DEF Read, Inflight, TruncationTight
    <2>5. CASE Serve
      BY <2>5 DEF Serve, Inflight, TruncationTight
    <2>6. CASE Settle
      BY <2>6 DEF Settle, Inflight, TruncationTight
    <2>7. CASE UNCHANGED wireVars
      BY <2>7 DEF wireVars, Inflight, TruncationTight
    <2> QED BY <2>1, <2>2, <2>3, <2>4, <2>5, <2>6, <2>7 DEF WireNext
  <1> QED BY <1>1, <1>2, PTL DEF WireSpec
=============================================================================
