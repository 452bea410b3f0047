---------------------------- MODULE MCQueryCache ----------------------------
(* One query of one table, one of two.                                     *)
EXTENDS QueryCache, TLC

CONSTANTS t1, t2, q1, q2

ReadsOf == q1 :> {t1} @@ q2 :> {t1, t2}
=============================================================================
