----------------------------- MODULE AddressBook -----------------------------
(***************************************************************************)
(* What a fake-IP space promises (src/fakeip.rs, "The mapping is the       *)
(* contract"): while a name is in the book its address does not change,    *)
(* and every address in the book belongs to exactly one name.  The book    *)
(* may forget names at any time, also to make room for another one.        *)
(***************************************************************************)
EXTENDS Naturals

CONSTANTS Names, Addresses

VARIABLE book    \* a function from the names that are mapped to addresses

Init == book = <<>>

Without(S) == [n \in DOMAIN book \ S |-> book[n]]

Forget(S) ==
    /\ S # {}
    /\ book' = Without(S)

\* Some names may go to make room; the new address is nobody else's.
Assign(n, a, S) ==
    /\ n \notin DOMAIN book
    /\ \A m \in DOMAIN book \ S : book[m] # a
    /\ book' = [m \in DOMAIN Without(S) \cup {n} |-> IF m = n THEN a ELSE book[m]]

Next ==
    \E S \in SUBSET DOMAIN book :
        \/ Forget(S)
        \/ \E n \in Names, a \in Addresses : Assign(n, a, S)

Spec == Init /\ [][Next]_book
=============================================================================
