-------------------------- MODULE MCNotifications --------------------------
(* Two users share two apps; a third token is from before validation.      *)
EXTENDS Notifications, TLC

CONSTANTS t1, t2

Symmetry == Permutations(Users) \cup Permutations({t1, t2})
=============================================================================
