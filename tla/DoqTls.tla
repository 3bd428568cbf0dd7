------------------------------- MODULE DoqTls -------------------------------
(***************************************************************************)
(* The client side of the TLS 1.3 handshake that DNS over QUIC runs over   *)
(* CRYPTO frames (src/transports/doq/tls.rs).  A message is a record whose *)
(* fields are what the parser and the verifiers read; a signature or a MAC *)
(* is the transcript it was computed over, so "it verifies" means that     *)
(* both sides saw the same messages.                                       *)
(***************************************************************************)
EXTENDS Naturals, Sequences

CONSTANTS
    Verify,     \* ClientConfig.verify
    HostChecked \* whether ClientConfig.hostname is given

\* The transport parameters a server may leave out are absent, not zero.
NoCid == 0

Suites == {"AES_128_GCM_SHA256", "AES_256_GCM_SHA384", "CHACHA20_POLY1305_SHA256"}

Sha384(suite) == suite = "AES_256_GCM_SHA384"

ClientHandshake(n) ==
    [ hello      |-> n,
      transcript |-> << >>,
      suite      |-> "none",
      secrets    |-> {},
      params     |-> [present |-> FALSE],
      seen       |-> FALSE,       \* saw_server_hello
      next       |-> "EE",
      chain      |-> [present |-> FALSE],
      done       |-> FALSE ]

\* The ClientHello itself is the first message of the transcript.
client_hello(t) == [t EXCEPT !.transcript = Append(@, [type |-> "CH", hello |-> t.hello])]

\* parse_server_hello: every refusal of the parser, in its order.
parse_server_hello(m) ==
    /\ m.wellFormed
    /\ ~m.helloRetry
    /\ m.suite \in Suites
    /\ m.tls13
    /\ m.x25519

\* derive_handshake_secrets needs the suite the ServerHello fixed.
derive_handshake_secrets(t) == [t EXCEPT !.secrets = @ \cup {"handshake"}]

\* derive_application_secrets refuses when an earlier step is missing.
derive_application_secrets(t) == [t EXCEPT !.secrets = @ \cup {"application"}]

\* parse_certificate_list refuses a chain without a certificate.
parse_certificate_list(m) == m.chain.present

validate_certificate(leaf) ==
    Verify => /\ leaf.trusted
              /\ leaf.serverAuth
              /\ HostChecked => leaf.named

\* Which key and which suite each signature scheme is accepted with.
SchemeFits(scheme, leaf, suite) ==
    \/ scheme = "RSA_PSS" /\ leaf.key = "rsa"
    \/ scheme = "RSA_PKCS1" /\ leaf.key = "rsa"
    \/ scheme = "P256" /\ leaf.key = "p256" /\ ~Sha384(suite)
    \/ scheme = "P384" /\ leaf.key = "p384" /\ Sha384(suite)
    \/ scheme = "ED25519" /\ leaf.key = "ed25519"

verify_certificate_verify(t, m) ==
    /\ t.chain.present
    /\ validate_certificate(t.chain)
    /\ SchemeFits(m.scheme, t.chain, t.suite)
    /\ m.over = t.transcript

verify_server_finished(t, m) ==
    /\ "handshake" \in t.secrets
    /\ m.over = t.transcript

Refused(t) == [ok |-> FALSE, completed |-> FALSE, t |-> t]
Accepted(t, completed) == [ok |-> TRUE, completed |-> completed, t |-> t]

\* Fault: messages are accepted in any order (the test against `next` is lost).
FeedAnyOrder(t, m) ==
    LET heard == [t EXCEPT !.transcript = Append(@, m)]
    IN  IF m.type = "SH" THEN Accepted(derive_handshake_secrets([heard EXCEPT !.suite = m.suite, !.seen = TRUE]), FALSE)
        ELSE IF m.type = "EE" THEN Accepted([heard EXCEPT !.params = m.params, !.next = "CERT"], FALSE)
        ELSE IF m.type = "CERT" THEN Accepted([heard EXCEPT !.chain = m.chain, !.next = "CV"], FALSE)
        ELSE IF m.type = "CV"
             THEN IF verify_certificate_verify(t, m) THEN Accepted([heard EXCEPT !.next = "FIN"], FALSE) ELSE Refused(t)
        ELSE IF verify_server_finished(t, m)
             THEN Accepted([derive_application_secrets(heard) EXCEPT !.done = TRUE], TRUE)
             ELSE Refused(t)

(***************************************************************************)
(* feed: one complete handshake message.  A refused message is an error of *)
(* the connection and leaves the handshake as it was.                      *)
(***************************************************************************)
feed(t, m) ==
    LET heard == [t EXCEPT !.transcript = Append(@, m)]
        inOrder == t.seen /\ m.type = t.next
    IN  IF m.type = "SH" /\ ~t.seen /\ parse_server_hello(m)
        THEN Accepted(derive_handshake_secrets([heard EXCEPT !.suite = m.suite, !.seen = TRUE]), FALSE)
        ELSE IF m.type = "EE" /\ inOrder /\ m.params.present
        THEN Accepted([heard EXCEPT !.params = m.params, !.next = "CERT"], FALSE)
        ELSE IF m.type = "CERT" /\ inOrder /\ parse_certificate_list(m)
        THEN Accepted([heard EXCEPT !.chain = m.chain, !.next = "CV"], FALSE)
        ELSE IF m.type = "CV" /\ inOrder /\ verify_certificate_verify(t, m)
        THEN Accepted([heard EXCEPT !.next = "FIN"], FALSE)
        ELSE IF m.type = "FIN" /\ inOrder /\ verify_server_finished(t, m)
        THEN Accepted([derive_application_secrets(heard) EXCEPT !.done = TRUE], TRUE)
        ELSE Refused(t)

=============================================================================
