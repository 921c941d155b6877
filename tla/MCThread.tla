------------------------------ MODULE MCThread ------------------------------
(* Small instances of Thread for TLC.                                      *)
EXTENDS ThreadInv, TLC

Symmetry == Permutations(Participants) \cup Permutations(Requests)
              \cup Permutations(Cids)

CoreKinds    == {"create", "send", "hide", "unsend", "read"}
GuardKinds   == {"create", "send", "mute", "block", "fail"}
PreviewKinds == {"create", "send", "unsend", "hide"}
=============================================================================
