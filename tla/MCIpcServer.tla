---------------------------- MODULE MCIpcServer ----------------------------
(***************************************************************************)
(* IpcServer for TLC. Two slots and two tunnels: three connections are     *)
(* enough for a third attach to meet the cap, and for two tunnels to use   *)
(* up the slots if they kept them. IpcStarve has one slot, and an agent    *)
(* that allows one stream.                                                 *)
(***************************************************************************)
EXTENDS IpcServer
=============================================================================
