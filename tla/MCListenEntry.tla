--------------------------- MODULE MCListenEntry ---------------------------
(***************************************************************************)
(* ListenEntry for TLC. Two connections, so that one displaces the other   *)
(* and the loser's watcher is late; the safety proofs hold for any number. *)
(***************************************************************************)
EXTENDS ListenEntry
=============================================================================
