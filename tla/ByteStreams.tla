----------------------------- MODULE ByteStreams -----------------------------
(***************************************************************************)
(* What a tunnel promises a database driver about each connection it makes *)
(* through it: the connection is answered once, the bytes that arrive are  *)
(* those the database sent, in order and without a gap, and none arrives   *)
(* after the connection's end.                                             *)
(***************************************************************************)
EXTENDS Naturals, Sequences

CONSTANTS
    Conn,      \* the connections a driver may make
    MaxSent    \* bound: chunks a database sends on one

VARIABLES
    phase,     \* phase[c]: "idle", "asked", "connected" or "ended"
    sent,      \* sent[c]: chunks the database has sent
    received   \* received[c]: chunks handed to the driver, by their number

vars == <<phase, sent, received>>

TypeOK ==
    /\ phase \in [Conn -> {"idle", "asked", "connected", "ended"}]
    /\ sent \in [Conn -> 0..MaxSent]
    /\ received \in [Conn -> Seq(1..MaxSent)]

Init ==
    /\ phase = [c \in Conn |-> "idle"]
    /\ sent = [c \in Conn |-> 0]
    /\ received = [c \in Conn |-> <<>>]

Moves(c, from, to) ==
    /\ phase[c] = from
    /\ phase' = [phase EXCEPT ![c] = to]
    /\ UNCHANGED <<sent, received>>

Ask(c) == Moves(c, "idle", "asked")
Accepted(c) == Moves(c, "asked", "connected")
Refused(c) == Moves(c, "asked", "ended")
Finish(c) == Moves(c, "connected", "ended")

(* A database may go on sending to a connection already given up.          *)
DatabaseSends(c) ==
    /\ phase[c] # "idle"
    /\ sent[c] < MaxSent
    /\ sent' = [sent EXCEPT ![c] = @ + 1]
    /\ UNCHANGED <<phase, received>>

Deliver(c) ==
    /\ phase[c] = "connected"
    /\ Len(received[c]) < sent[c]
    /\ received' = [received EXCEPT ![c] = Append(@, Len(@) + 1)]
    /\ UNCHANGED <<phase, sent>>

Next ==
    \E c \in Conn :
        \/ Ask(c) \/ Accepted(c) \/ Refused(c) \/ Finish(c)
        \/ DatabaseSends(c) \/ Deliver(c)

Spec == Init /\ [][Next]_vars
=============================================================================
