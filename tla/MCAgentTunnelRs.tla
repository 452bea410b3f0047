--------------------------- MODULE MCAgentTunnelRs ---------------------------
(* The v2 tunnel on small instances.                                       *)
EXTENDS AgentTunnelRs, TLC

SessionSymmetry == Permutations(Session)
=============================================================================
