--------------------------- MODULE MCAgentSession ---------------------------
(***************************************************************************)
(* AgentSession for TLC. Three streams allow for the control stream, a     *)
(* second one racing it and a data stream.                                 *)
(***************************************************************************)
EXTENDS AgentSession
=============================================================================
