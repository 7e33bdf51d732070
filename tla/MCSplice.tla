------------------------------ MODULE MCSplice ------------------------------
(***************************************************************************)
(* Splice for TLC: two items each way through ends that take one at a      *)
(* time, so that a copy can be blocked in Write with more to read.         *)
(***************************************************************************)
EXTENDS Splice
=============================================================================
