----------------------------- MODULE MCCoalescer -----------------------------
(* Instances of Coalescer for TLC: two ordinary questions, 1 and 2, and the
   DNSKEY question 3 that validating an answer to 1 or 2 asks. *)
EXTENDS Coalescer

\* The DNSKEY answer carries no signature of its own: nothing to resolve.
NeedsDnskey == [k \in Keys |-> IF k < 3 THEN <<3>> ELSE <<>>]

\* A signed DNSKEY RRset: its signer is the zone itself, so validating the
\* answer to question 3 resolves question 3.
NeedsSelfSigned == [k \in Keys |-> <<3>>]
=============================================================================
