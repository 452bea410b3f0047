--------------------------- MODULE MCLiveUpdates ---------------------------
(* Live updates on a small instance.                                       *)
EXTENDS LiveUpdates, TLC

Symmetry == Permutations(Client) \union Permutations(Request)
=============================================================================
