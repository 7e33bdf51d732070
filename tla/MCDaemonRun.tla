---------------------------- MODULE MCDaemonRun ----------------------------
(***************************************************************************)
(* DaemonRun for TLC: a HostEdge with one slot and a LocalPortEdge with    *)
(* its two listeners. Two connections can meet in one HostEdge, of which   *)
(* the second is refused, or be served by different edges.                 *)
(***************************************************************************)
EXTENDS DaemonRun

TwoEdges == <<{"http"}, {"ssh", "docker"}>>
=============================================================================
