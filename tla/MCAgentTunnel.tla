---------------------------- MODULE MCAgentTunnel ----------------------------
(* AgentTunnel for TLC: sessions are interchangeable in the safety runs.    *)
EXTENDS AgentTunnel, TLC

SessionSymmetry == Permutations(Session)
=============================================================================
