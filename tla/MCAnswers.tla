----------------------------- MODULE MCAnswers -----------------------------
(* Three questions about the answer a client gets, asked one per behaviour:  *)
(* how it is chosen (Serving), whether its signatures count (Dnssec) and how *)
(* it crosses the wire (Codec).                                              *)
EXTENDS MCServing, MCDnssec, MCCodec

VARIABLE topic

AnswersInit ==
    /\ topic \in {"serving", "dnssec", "wire"}
    /\ Init /\ DnssecInit /\ WireInit
    /\ topic # "serving" => world = "hosts"

AnswersNext ==
    /\ \/ topic = "serving" /\ Next /\ UNCHANGED <<dnssecVars, wireVars>>
       \/ topic = "dnssec" /\ DnssecNext /\ UNCHANGED <<vars, wireVars>>
       \/ topic = "wire" /\ WireNext /\ UNCHANGED <<vars, dnssecVars>>
    /\ UNCHANGED topic

AnswersSpec == AnswersInit /\ [][AnswersNext]_<<topic, vars, dnssecVars, wireVars>>
=============================================================================
