------------------------------ MODULE MCOrders ------------------------------
(* Small instances of Orders for TLC. *)
EXTENDS Orders

CONSTANTS a, b, k1, h1, d1, d2

AllByName == <<a, b>>

AllKeys == UserKeys \cup {ReceiptKey(h, d, i) : h \in Headers, d \in Docs, i \in Items}

\* Clients are interchangeable when all of them are owners.
OrderSymmetry == Permutations(Clients)

=============================================================================
