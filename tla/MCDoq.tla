-------------------------------- MODULE MCDoq --------------------------------
EXTENDS Doq

Params == [present |-> TRUE, odcid |-> OriginalDcid, iscid |-> ServerScid, rscid |-> NoCid,
           maxData |-> 2, maxStreamData |-> 2, maxStreams |-> 1]
Leaf == [present |-> TRUE, trusted |-> TRUE, serverAuth |-> TRUE, named |-> TRUE, key |-> "p256"]

\* A server whose flight comes in two overlapping pieces.
Plain ==
    [retry |-> FALSE, retryScid |-> RetryScid, suite |-> "AES_128_GCM_SHA256", params |-> Params, chain |-> Leaf,
     scheme |-> "P256", order |-> << "EE", "CERT", "CV", "FIN" >>,
     chunks |-> {[pn |-> 1, off |-> 0, len |-> 3], [pn |-> 3, off |-> 2, len |-> 3]},
     resp |-> {[pn |-> 0, off |-> 0, len |-> 2]}, noise |-> {}]
Whole == [Plain EXCEPT !.chunks = {[pn |-> 0, off |-> 0, len |-> 5]}]

\* Servers that ask for a Retry under a new or under the old identifier, show an untrusted certificate, leave out their
\* CertificateVerify, sign with a key the scheme does not fit, echo a wrong
\* identifier, or send what the client did not ask for.
Zoo == {Plain,
        [Plain EXCEPT !.retry = TRUE, !.params.rscid = RetryScid],
        [Whole EXCEPT !.retry = TRUE, !.retryScid = OriginalDcid],
        [Whole EXCEPT !.chain.trusted = FALSE],
        [Whole EXCEPT !.order = << "EE", "CERT", "FIN" >>],
        [Whole EXCEPT !.scheme = "P384"],
        [Whole EXCEPT !.params.odcid = RetryScid],
        [Whole EXCEPT !.noise = {"close", "version", "malformed"}],
        [Whole EXCEPT !.params.maxStreams = 2],
        [Whole EXCEPT !.noise = {"session"}],
        [Whole EXCEPT !.noise = {"reset", "NEW_CONNECTION_ID"}],
        [Whole EXCEPT !.noise = {"streams", "data"}, !.params.maxStreamData = 1]}
Steady == {Whole}
OutOfOrder == {[Whole EXCEPT !.resp = {[pn |-> k, off |-> k, len |-> 1] : k \in 0..2}]}
=============================================================================
