----------------------------- MODULE MCDelivery -----------------------------
(* A user who sends over REST and one whose device connects and reconnects.*)
EXTENDS Delivery, TLC

CONSTANTS a, b, b1, B, c

MCOwner == [s \in Sockets |-> b]
MCDevice == [s \in Sockets |-> B]
MCPair == (c :> {a, b})
=============================================================================
