---------------------------- MODULE MCVhostTable ----------------------------
(***************************************************************************)
(* An agent configured with one name and two patterns, one inside the      *)
(* other, and room for one name more. The names asked about are the        *)
(* configured one, one that both patterns cover, one that neither covers,  *)
(* and a pattern, which may not be published.                              *)
(***************************************************************************)
EXTENDS VhostTable, TLC

MCLabels == {"a", "b", "c", "x", "y"}
MCConfig == (<<"a", "x">> :> "p1") @@ (<<Star, "x">> :> "p2") @@ (<<Star, "b", "x">> :> "p3")
MCHosts == {<<"a", "x">>, <<"c", "b", "x">>, <<"y">>, <<Star, "y">>}
MCPorts == {"p1", "p4"}
PublisherSymmetry == Permutations(Publishers)
=============================================================================
