----------------------------- MODULE MCServices -----------------------------
(* Services for TLC.                                                       *)
EXTENDS Services

CONSTANTS p1, p2

Listing == <<p2, p1>>

Messages == [ROUTER |-> 1, DEALER |-> 2]

SmallReads == {[type |-> "GET", keys |-> <<1, 2>>], [type |-> "SEEK", keys |-> <<0, 2>>]}
=============================================================================
