--------------------------- MODULE MCAuthSessions ---------------------------
(* The sessions of a user on a small instance.                             *)
EXTENDS AuthSessions, TLC

(* Requests are alike; sound, as no property of the run is about liveness. *)
RequestSymmetry == Permutations(Request)
=============================================================================
