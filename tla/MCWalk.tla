------------------------------- MODULE MCWalk -------------------------------
(* Instances of Walk for TLC. *)
EXTENDS Walk

Com == <<"com">>
Host == <<"com", "www">>
Net == <<"net">>

Org == <<"org">>

\* A host, name servers of two other top-level domains, and their zones.
SomeNames == {<<>>, Com, Host, Net, Org}
OrgOnly == {Org}
ComOnly == {Com}

\* Glued; without glue, one name server, one an upstream group is responsible
\* for and a pinned one; too little glue; too many.
Delegations ==
    { <<<<Net>>, 1, 1>>, <<<<Net>>, 0, 0>>, <<<<Org, Com>>, 0, 0>>,
      <<<<Net, Host, Com>>, 1, 1>>, <<<<Net, Host, Com, <<>>>>, 2, 2>> }
=============================================================================
