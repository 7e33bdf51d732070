----------------------------- MODULE MCAgentLink -----------------------------
(* Two keys that may be trusted and one that is shared by mistake. *)
EXTENDS AgentLink

MCClients == [key : {"client", "stranger", "agent"}, expects : {"agent", "former"}, version : {"this", "other"}]

MCBlocks ==
  [file : {None, [listen |-> "listen", dial |-> ""], [listen |-> "", dial |-> "dial"]},
   flags : {f \in [listen : {"", "listen"}, dial : {"", "dial", "undialable"}, other : BOOLEAN, clash : BOOLEAN] :
              f.clash => f.other},
   tables : {"sound", "overfull"}]
==============================================================================
