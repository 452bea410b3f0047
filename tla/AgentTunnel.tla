----------------------------- MODULE AgentTunnel -----------------------------
(***************************************************************************)
(* The v1 tunnel: AgentServer and AgentClient over one agent's sessions.   *)
(* Several sessions may be up at a time: an agent that lost its network    *)
(* dials again while the backend still holds its old socket, and the same  *)
(* credentials may be in use on two machines.                              *)
(***************************************************************************)
EXTENDS AgentServer, AgentClient

vars == <<wireVars, serverVars, clientVars>>

Init == WireInit /\ ServerInit /\ ClientInit

Next ==
    \/ ServerNext /\ UNCHANGED clientVars
    \/ ClientNext /\ UNCHANGED serverVars

Spec == Init /\ [][Next]_vars

(* Callbacks that are due run: frames that arrived are read, timers fire,  *)
(* promises resume, a dead socket is noticed by both ends, a dial ends and *)
(* a pump sees its connection closed.  Nothing obliges a driver or a       *)
(* database to speak, to hang up or to connect, nor a socket to die.       *)
ServerFairness(s) ==
    /\ WF_vars((Accept(s) \/ AuthOk(s) \/ SendReady(s)) /\ UNCHANGED clientVars)
    /\ WF_vars(Hearing(s) /\ UNCHANGED clientVars)
    /\ WF_vars(wire[s] = "down" /\ SocketCloses(s) /\ UNCHANGED clientVars)
    /\ \A i \in StreamId :
          /\ WF_vars(OpenTimesOut(s, i) /\ UNCHANGED clientVars)
          /\ WF_vars((ResumeBridge(s, i) \/ DrainEnds(s, i)) /\ UNCHANGED clientVars)

ClientFairness(s) ==
    /\ WF_vars(ClientReads(s) /\ UNCHANGED serverVars)
    /\ WF_vars(wire[s] = "down" /\ ClientEnds(s) /\ UNCHANGED serverVars)
    /\ \A i \in StreamId :
          /\ WF_vars((DialFails(s, i) \/ DialSucceeds(s, i)) /\ UNCHANGED serverVars)
          /\ WF_vars((SendOpened(s, i) \/ PumpSends(s, i) \/ PumpStops(s, i)) /\ UNCHANGED serverVars)

FairSpec == Spec /\ \A s \in Session : ServerFairness(s) /\ ClientFairness(s)

----------------------------------------------------------------------------
TypeOK == WireTypeOK /\ ServerTypeOK /\ ClientTypeOK

(* AgentRegistry: whoever holds the agent's place is live and served, and  *)
(* every live connection holds it, so that no stream is ever opened on a   *)
(* connection that was replaced and none is lost from the registry.        *)
RegistryHoldsTheLive ==
    \A s \in Session :
        /\ conn[s] = "live" <=> agent = s
        /\ agent = s => sv[s] = "serving"

(* AgentConnection.teardown: a connection that is not live keeps neither a *)
(* stream nor somebody waiting for one.                                    *)
OnlyTheLiveHasStreams ==
    \A s \in Session : conn[s] # "live" => streams[s] = {} /\ pending[s] = {}

(* MAX_STREAMS_PER_AGENT and the agent's maxStreams.                       *)
SlotsBounded ==
    \A s \in Session :
        Cardinality(streams[s]) <= MaxStreams /\ Cardinality(conns[s]) <= MaxStreams

(* A session both of whose ends still serve it.                            *)
Healthy(s) == wire[s] = "up" /\ sv[s] = "serving" /\ cl[s] = "running" /\ conn[s] = "live"

(* pumpTCPToServer: when a stream the backend believes open has lost its   *)
(* database connection, the close that says so is on its way.              *)
DatabaseEndIsAnnounced ==
    \A s \in Session : Healthy(s) =>
        \A i \in streams[s] \ pending[s] :
            i \notin conns[s] => InFlight(toServer, s, "close", i) # {}

(* Driver to database: the database is given the first of the chunks the   *)
(* driver wrote, in order; those of a stream both ends hold that it was    *)
(* not given yet are on their way, in order and without a gap.             *)
DriverBytesIntact ==
    \A s \in Session : \A i \in StreamId :
        /\ Len(dbGot[s][i]) <= written[s][i]
        /\ \A k \in DOMAIN dbGot[s][i] : dbGot[s][i][k] = k
        /\ Healthy(s) /\ i \in streams[s] \cap conns[s] =>
              ChunksInFlight(toAgent, s, i, Len(dbGot[s][i]) + 1, written[s][i])

(* deregister: the agent goes offline only when the socket that holds its  *)
(* place closes, never because an older one did.                           *)
OnlyItsOwnSocketEvicts ==
    [][agent # NoSession /\ agent' = NoSession => sv[agent] = "serving" /\ sv'[agent] = "closed"]_vars

(* A stream id is used once: what left the table never comes back to it,   *)
(* so a late frame cannot reach another driver's stream.                   *)
IdsAreNotReused ==
    [][\A s \in Session : \A i \in streams'[s] \ streams[s] : bridge[s][i] = "none"]_vars

(* A bridge that waits for its stream is always answered in the end.       *)
EveryOpenSettles ==
    \A s \in Session : \A i \in StreamId : bridge[s][i] = "opening" ~> bridge[s][i] # "opening"

(* isOnline: an agent whose socket died does not stay online.              *)
DeadSessionGoesOffline ==
    \A s \in Session : wire[s] = "down" ~> agent # s

----------------------------------------------------------------------------
(* Promises of AGENT_TUNNEL_PROTOCOL.md that this code breaks.             *)

(* "Agent then sends a hello frame with its machine info.  Server replies  *)
(* ready": a session that stays up becomes ready.                          *)
HelloIsAnswered ==
    \A s \in Session : cl[s] = "running" ~> ready[s] \/ cl[s] = "ended"

(* "Bidirectional: every chunk read ... and vice-versa": chunks reach the  *)
(* loopback socket in order and without a gap.                             *)
DatabaseBytesIntact ==
    \A s \in Session : \A i \in StreamId : got[s][i] = [k \in DOMAIN got[s][i] |-> k]

(* "Either side closes -> send close -> other side tears down its socket", *)
(* line by line.  With nothing in flight, the agent holds no database      *)
(* connection for a stream the backend has given up,                       *)
NoOrphanConnection ==
    \A s \in Session :
        Healthy(s) /\ toServer[s] = <<>> /\ toAgent[s] = <<>> =>
            \A i \in conns[s] : gor[s][i] = "pumping" => i \in streams[s]

(* nor for any stream, once another session took its place: the backend    *)
(* ended them all while its agent was still connected.                     *)
ReplacedStreamsAreClosed ==
    \A s \in Session :
        /\ wire[s] = "up" /\ cl[s] = "running" /\ conn[s] = "torn"
        /\ toServer[s] = <<>> /\ toAgent[s] = <<>>
        => \A i \in conns[s] : gor[s][i] # "pumping"

(* A wired bridge whose stream is closed has ended its loopback socket,    *)
CloseReachesDriver ==
    \A s \in Session : \A i \in closed[s] : bridge[s][i] = "wired" => sock[s][i] # "open"

(* and one whose driver hung up has given its stream back.                 *)
HangUpFreesStream ==
    \A s \in Session : \A i \in streams[s] : bridge[s][i] = "wired" => sock[s][i] # "hungup"

(* The whole line of the protocol.                                         *)
CloseIsMutual ==
    /\ NoOrphanConnection
    /\ ReplacedStreamsAreClosed
    /\ CloseReachesDriver
    /\ HangUpFreesStream
=============================================================================
