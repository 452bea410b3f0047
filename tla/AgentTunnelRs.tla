---------------------------- MODULE AgentTunnelRs ----------------------------
(***************************************************************************)
(* The v2 tunnel: AgentServerRs and the same agents, AgentClient, "already *)
(* built against this" protocol (tunnel.rs).                               *)
(***************************************************************************)
EXTENDS AgentServerRs, AgentClient

vars == <<wireVars, serverVars, clientVars>>

Init == WireInit /\ ServerInit /\ ClientInit

Next ==
    \/ ServerNext /\ UNCHANGED clientVars
    \/ ClientNext /\ UNCHANGED serverVars

Spec == Init /\ [][Next]_vars

(* Tasks that can run do run; drivers, databases and sockets are free.     *)
ServerFairness(s) ==
    /\ WF_vars((Accept(s) \/ AuthOk(s) \/ FinishRegister(s) \/ Evict(s)) /\ UNCHANGED clientVars)
    /\ WF_vars(Hearing(s) /\ UNCHANGED clientVars)
    /\ WF_vars(wire[s] = "down" /\ SocketCloses(s) /\ UNCHANGED clientVars)
    /\ \A i \in StreamId :
          /\ WF_vars(Opening(s, i) /\ UNCHANGED clientVars)
          /\ WF_vars(Copying(s, i) /\ UNCHANGED clientVars)

ClientFairness(s) ==
    /\ WF_vars(ClientReads(s) /\ UNCHANGED serverVars)
    /\ WF_vars(wire[s] = "down" /\ ClientEnds(s) /\ UNCHANGED serverVars)

FairSpec == Spec /\ \A s \in Session : ServerFairness(s) /\ ClientFairness(s)

----------------------------------------------------------------------------
TypeOK == WireTypeOK /\ ServerTypeOK /\ ClientTypeOK

(* register and deregister each take two steps; in between, a connection   *)
(* is live and not registered, but then somebody is about to tear it down. *)
LiveIsRegisteredOrDoomed ==
    \A s \in Session :
        /\ registry = s => conn[s] = "live" /\ sv[s] \in {"registering", "serving"}
        /\ conn[s] = "live" =>
              \/ registry = s
              \/ sv[s] = "evicting"
              \/ \E r \in Session : sv[r] = "registering" /\ replaced[r] = s

(* ConnInner: a torn connection stays empty, though streams are asked of   *)
(* connections looked up earlier; each slot of the others belongs to a     *)
(* bridge that will give it back, and who waits for an answer has one.     *)
SlotsAreHeld ==
    \A s \in Session :
        /\ conn[s] # "live" => slots[s] = {}
        /\ \A i \in slots[s] : bridge[s][i] \in {"asked", "opening", "acked", "late", "open"}
        /\ \A i \in StreamId : bridge[s][i] = "opening" => i \in pending[s] \intersect slots[s]

Healthy(s) == wire[s] = "up" /\ sv[s] = "serving" /\ cl[s] = "running" /\ conn[s] = "live"

(* open_stream and handleOpen: neither table holds more than its cap.      *)
SlotsBounded ==
    \A s \in Session :
        Cardinality(slots[s]) <= MaxStreams /\ Cardinality(conns[s]) <= MaxStreams

(* Driver to database: the database is given the first of the chunks the   *)
(* driver wrote, in order; while its connection lasts and the wire is up,  *)
(* those it was not given yet are on their way, in order and without a     *)
(* gap, even after the stream has ended for the server.                    *)
DriverBytesIntact ==
    \A s \in Session : \A i \in StreamId :
        /\ Len(dbGot[s][i]) <= written[s][i]
        /\ \A k \in DOMAIN dbGot[s][i] : dbGot[s][i][k] = k
        /\ wire[s] = "up" /\ i \in conns[s] =>
              ChunksInFlight(toAgent, s, i, Len(dbGot[s][i]) + 1, written[s][i])

(* What the bridge promises its driver, stated by ByteStreams.             *)
PhaseOf(b) ==
    CASE b = "none" -> "idle"
      [] b \in {"asked", "opening", "acked", "refused", "late"} -> "asked"
      [] b \in {"open", "halfclosed"} -> "connected"
      [] b \in {"ended", "done"} -> "ended"

Streams == INSTANCE ByteStreams
    WITH Conn <- Session \X StreamId,
         MaxSent <- MaxChunks,
         phase <- [c \in Session \X StreamId |-> PhaseOf(bridge[c[1]][c[2]])],
         sent <- [c \in Session \X StreamId |-> dbSent[c[1]][c[2]]],
         received <- [c \in Session \X StreamId |-> got[c[1]][c[2]]]

ImplementsByteStreams == Streams!Spec

(* open_stream always returns.                                             *)
EveryOpenSettles ==
    \A s \in Session : \A i \in StreamId :
        bridge[s][i] = "asked" ~> bridge[s][i] \in {"open", "halfclosed", "ended", "done"}

(* A hang-up gives the slot back whenever it happens, and the end of the   *)
(* stream reaches a driver that is still there.                            *)
EndsPropagate ==
    \A s \in Session : \A i \in StreamId :
        /\ sock[s][i] = "hungup" ~> i \notin slots[s]
        /\ bridge[s][i] = "open" /\ i \notin slots[s] ~> bridge[s][i] # "open"

----------------------------------------------------------------------------
(* "Telling it to close costs one control frame" (open_stream's time-out): *)
(* with nothing in flight, the agent holds no database connection for a    *)
(* stream the backend has given up.  A close that is read while the agent  *)
(* still dials is lost.                                                    *)
NoOrphanConnection ==
    \A s \in Session :
        Healthy(s) /\ toServer[s] = <<>> /\ toAgent[s] = <<>> =>
            \A i \in conns[s] : gor[s][i] = "pumping" => i \in slots[s]
=============================================================================
