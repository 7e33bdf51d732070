---------------------------- MODULE MCForwarder ----------------------------
(***************************************************************************)
(* Forwarder for TLC: three connections and a cap of two, so that forwards *)
(* overlap, one can be refused, and a slot can be used again.              *)
(***************************************************************************)
EXTENDS Forwarder
=============================================================================
