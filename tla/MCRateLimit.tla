---------------------------- MODULE MCRateLimit ----------------------------
(* Three callers of two routes and room for two windows.                   *)
EXTENDS RateLimit, TLC

CONSTANTS k1, k2, k3

MCWindowMs == (k1 :> 2) @@ (k2 :> 2) @@ (k3 :> 3)
MCLimit == (k1 :> 2) @@ (k2 :> 2) @@ (k3 :> 1)
=============================================================================
