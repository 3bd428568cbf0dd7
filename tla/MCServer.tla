------------------------------ MODULE MCServer ------------------------------
(* Instances of Server for TLC. *)
EXTENDS Server

\* A bound: datagrams and connections together.
CONSTANT MaxClients

FewClients == arrived' + connects' <= MaxClients

MCSpec == Init /\ [][Next /\ FewClients]_vars /\ Fairness
=============================================================================
