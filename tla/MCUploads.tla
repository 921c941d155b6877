------------------------------ MODULE MCUploads ------------------------------
(* A small instance of Uploads for TLC.                                    *)
EXTENDS Uploads, TLC

Symmetry == Permutations(Images) \cup Permutations(Unsends)
=============================================================================
