----------------------------- MODULE MCPresence -----------------------------
(* Two devices of one user, a watcher, a conversation they share and one   *)
(* that may come and go.                                                   *)
EXTENDS Presence, TLC

CONSTANTS a, b, a1, a2, b1, c, d

MCOwner == (a1 :> a) @@ (a2 :> a) @@ (b1 :> b)
MCPair == (c :> {a, b}) @@ (d :> {a, b})
=============================================================================
