---------------------------- MODULE MCDialEntry ----------------------------
(***************************************************************************)
(* DialEntry for TLC. One Get caller: callers do not interact, and the     *)
(* proofs hold for any number. Three faults are enough to poison the path, *)
(* fail a rebind and lose the session that follows.                        *)
(***************************************************************************)
EXTENDS DialEntry
=============================================================================
