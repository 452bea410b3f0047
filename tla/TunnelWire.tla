----------------------------- MODULE TunnelWire -----------------------------
(***************************************************************************)
(* The WebSocket between a backend and a paired local agent: one FIFO of   *)
(* frames in each direction per session.  A session is one socket, from    *)
(* the agent's dial to its end; stream ids s1, s2, ... are local to it.    *)
(* Frame bodies are reduced to their kind, the stream they name and, for a *)
(* binary frame, the position of the chunk it carries in that stream.      *)
(* Keepalive pings are left out: what they do is end a session, and either *)
(* end may end a session at any time.                                      *)
(***************************************************************************)
EXTENDS Naturals, Sequences, FiniteSets

CONSTANTS
    Session,    \* the WebSocket sessions of one agent id
    MaxStreams, \* MAX_STREAMS_PER_AGENT, and maxStreams of the agent
    MaxOpens,   \* bound: streams a session may ask for
    MaxChunks   \* bound: chunks a database or a driver sends on a stream

ASSUME WireAssumption ==
    /\ IsFiniteSet(Session)
    /\ MaxStreams \in Nat \ {0}
    /\ MaxOpens \in Nat \ {0}
    /\ MaxChunks \in Nat

VARIABLES
    wire,      \* wire[s]: "idle" before the dial, "up", then "down"
    toServer,  \* toServer[s]: frames the agent sent and the backend has not read
    toAgent    \* toAgent[s]: frames the backend sent and the agent has not read

wireVars == <<wire, toServer, toAgent>>

StreamId == 1..MaxOpens
Chunk == 1..MaxChunks

Hello == [t |-> "hello"]
Ready == [t |-> "ready"]
Open(i) == [t |-> "open", id |-> i]
Opened(i) == [t |-> "opened", id |-> i]
OpenErr(i) == [t |-> "openerr", id |-> i]
Close(i) == [t |-> "close", id |-> i]
Data(i, n) == [t |-> "data", id |-> i, n |-> n]

DataFrame == [t: {"data"}, id: StreamId, n: Chunk]
AgentFrame == {Hello} \cup [t: {"opened", "openerr", "close"}, id: StreamId] \cup DataFrame
ServerFrame == {Ready} \cup [t: {"open", "close"}, id: StreamId] \cup DataFrame

WireTypeOK ==
    /\ wire \in [Session -> {"idle", "up", "down"}]
    /\ toServer \in [Session -> Seq(AgentFrame)]
    /\ toAgent \in [Session -> Seq(ServerFrame)]

WireInit ==
    /\ wire = [s \in Session |-> "idle"]
    /\ toServer = [s \in Session |-> <<>>]
    /\ toAgent = [s \in Session |-> <<>>]

(* A frame sent on a socket that is no longer open is discarded.           *)
Sent(chan, s, frame) ==
    IF wire[s] = "up" THEN [chan EXCEPT ![s] = Append(@, frame)] ELSE chan

(* The next frame of a channel, and the channel without it.                *)
NextIs(chan, s, kind) == chan[s] # <<>> /\ Head(chan[s]).t = kind
Dropped(chan, s) == [chan EXCEPT ![s] = Tail(@)]

(* The frames of stream i still to be read on a channel.                   *)
InFlight(chan, s, kind, i) ==
    {k \in DOMAIN chan[s] : chan[s][k].t = kind /\ chan[s][k].id = i}

(* The chunks of stream i still to be read on a channel are those from     *)
(* first to last, each once and in order.                                  *)
ChunksInFlight(chan, s, i, first, last) ==
    LET places == InFlight(chan, s, "data", i)
    IN  /\ {chan[s][k].n : k \in places} = first..last
        /\ \A j, k \in places : j < k => chan[s][j].n < chan[s][k].n

(* A socket goes down for both ends; what was not read yet can still be.   *)
WireDown(s) == wire' = [wire EXCEPT ![s] = IF @ = "up" THEN "down" ELSE @]
=============================================================================
