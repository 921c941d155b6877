----------------------------- MODULE MCRetention -----------------------------
(* Two messages from before the migration with any deadlines, two sends at *)
(* a time, and a clock on which what is sent after the boot expires too.   *)
EXTENDS Retention, TLC
=============================================================================
