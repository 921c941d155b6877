------------------------------ MODULE MCContact ------------------------------
(* A buyer and a seller of one item, one of its prices kept in a snapshot; *)
(* calls, block changes and lists run two at a time.  The seller blocks    *)
(* and unblocks while they run; the buyer's block is there or not.         *)
EXTENDS Contact, TLC

CONSTANTS b, s, i

MCSeller == (i :> s)
Symmetry == Permutations(Calls) \cup Permutations(Requests) \cup Permutations(Prices)
=============================================================================
