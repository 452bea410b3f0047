---------------------------- MODULE PaymentLedger ----------------------------
(***************************************************************************)
(* What billing promises a workspace: each payment is credited once, and   *)
(* moves the end of the paid period by a whole period, counted from that   *)
(* end or from a moment not in the future, whichever is later.             *)
(***************************************************************************)
EXTENDS Naturals

CONSTANTS
    Attempt,   \* the payments a workspace may make
    Period     \* days a payment buys

VARIABLES
    day,       \* today
    credited,  \* the payments credited so far
    end        \* the day the paid period ends; 0 before there is one

vars == <<day, credited, end>>

Later(x, y) == IF x > y THEN x ELSE y

Init ==
    /\ day \in Nat
    /\ credited = {}
    /\ end \in Nat

Credit(a) ==
    /\ a \notin credited
    /\ credited' = credited \union {a}
    /\ \E start \in 0..day : end' = Later(end, start) + Period
    /\ UNCHANGED day

DayPasses ==
    /\ day' = day + 1
    /\ UNCHANGED <<credited, end>>

(* A workspace that never had a period may be given a trial.               *)
TrialStarts ==
    /\ end = 0
    /\ end' \in Nat \ {0}
    /\ UNCHANGED <<day, credited>>

Next == DayPasses \/ TrialStarts \/ \E a \in Attempt : Credit(a)

Spec == Init /\ [][Next]_vars
=============================================================================
