----------------------------- MODULE AgentServer -----------------------------
(***************************************************************************)
(* The v1 backend's side of the tunnel: the raw WebSocket gateway          *)
(* (agent.gateway.ts), AgentConnection and AgentRegistry                   *)
(* (agent-registry.service.ts) and the loopback bridge                     *)
(* (agent-tunnel.service.ts), for one agent id.                            *)
(*                                                                         *)
(* Node runs one callback at a time, so a handler is one step and so is    *)
(* what follows an await.  Frames read in one chunk are dispatched in one  *)
(* callback: what follows `await conn.openStream()' may run only after     *)
(* later frames of the same stream were handled (ResumeBridge).            *)
(***************************************************************************)
EXTENDS TunnelWire

CONSTANT NoSession

ASSUME ServerAssumption == NoSession \notin Session

VARIABLES
    sv,        \* sv[s]: the socket's handler is "new", "auth" (awaiting), "serving", "closed"
    agent,     \* AgentRegistry.agents: the session registered for the agent, or NoSession
    conn,      \* conn[s]: ws.conn is "none", "live" or "torn"
    minting,   \* minting[s]: the refresh token for `ready' is being signed
    seq,       \* seq[s]: ids given out so far
    streams,   \* streams[s]: AgentConnection.streams
    pending,   \* pending[s]: AgentConnection.pending
    closed,    \* closed[s]: the streams whose StreamState.closed is set
    bridge,    \* bridge[s][i]: "none", "opening", "opened", "wired" or "done"
    sock,      \* sock[s][i]: the loopback socket, as its driver left it
    written,   \* written[s][i]: chunks the driver sent on the wired stream
    got        \* got[s][i]: chunks written to the loopback socket

serverVars == <<sv, agent, conn, minting, seq, streams, pending, closed, bridge, sock, written, got>>

(* A loopback socket is open, has been hung up by the driver ("hungup"),   *)
(* has been hung up with bytes still unread, so that its 'end' event waits *)
(* for a reader ("draining"), or has been ended by the backend ("gone").   *)
SocketState == {"none", "open", "draining", "hungup", "gone"}

ServerTypeOK ==
    /\ sv \in [Session -> {"new", "auth", "serving", "closed"}]
    /\ agent \in Session \cup {NoSession}
    /\ conn \in [Session -> {"none", "live", "torn"}]
    /\ minting \in [Session -> BOOLEAN]
    /\ seq \in [Session -> 0..MaxOpens]
    /\ streams \in [Session -> SUBSET StreamId]
    /\ pending \in [Session -> SUBSET StreamId]
    /\ closed \in [Session -> SUBSET StreamId]
    /\ bridge \in [Session -> [StreamId -> {"none", "opening", "opened", "wired", "done"}]]
    /\ sock \in [Session -> [StreamId -> SocketState]]
    /\ written \in [Session -> [StreamId -> 0..MaxChunks]]
    /\ got \in [Session -> [StreamId -> Seq(Chunk)]]

ServerInit ==
    /\ sv = [s \in Session |-> "new"]
    /\ agent = NoSession
    /\ conn = [s \in Session |-> "none"]
    /\ minting = [s \in Session |-> FALSE]
    /\ seq = [s \in Session |-> 0]
    /\ streams = [s \in Session |-> {}]
    /\ pending = [s \in Session |-> {}]
    /\ closed = [s \in Session |-> {}]
    /\ bridge = [s \in Session |-> [i \in StreamId |-> "none"]]
    /\ sock = [s \in Session |-> [i \in StreamId |-> "none"]]
    /\ written = [s \in Session |-> [i \in StreamId |-> 0]]
    /\ got = [s \in Session |-> [i \in StreamId |-> <<>>]]

streamVars == <<seq, streams, pending, closed, bridge, sock, written, got>>

----------------------------------------------------------------------------
(* The gateway.  'message' is listened for only once the token has been    *)
(* verified and the agent's row read; a frame that comes earlier is        *)
(* emitted to nobody.                                                      *)

Accept(s) ==
    /\ sv[s] = "new"
    /\ wire[s] = "up"
    /\ sv' = [sv EXCEPT ![s] = "auth"]
    /\ UNCHANGED <<wireVars, agent, conn, minting, streamVars>>

AuthOk(s) ==
    /\ sv[s] = "auth"
    /\ sv' = [sv EXCEPT ![s] = "serving"]
    /\ UNCHANGED <<wireVars, agent, conn, minting, streamVars>>

(* rejectSocket(4401): bad token, revoked agent, or a failed lookup.       *)
AuthRejects(s) ==
    /\ sv[s] = "auth"
    /\ sv' = [sv EXCEPT ![s] = "closed"]
    /\ WireDown(s)
    /\ toServer' = [toServer EXCEPT ![s] = <<>>]
    /\ UNCHANGED <<toAgent, agent, conn, minting, streamVars>>

FrameUnheard(s) ==
    /\ sv[s] = "auth"
    /\ toServer[s] # <<>>
    /\ toServer' = Dropped(toServer, s)
    /\ UNCHANGED <<wire, toAgent, serverVars>>

Hears(s, kind) == sv[s] = "serving" /\ NextIs(toServer, s, kind)

(* teardown of the connections in S: every waiter is rejected, which       *)
(* destroys its loopback socket, and every stream is closed and its local  *)
(* consumer told, if it has said by then how.                              *)
SettledNoReject(s) == {i \in streams[s] : bridge[s][i] = "wired"}
Settled(s) == pending[s] \cup {i \in streams[s] : bridge[s][i] = "wired"}

TornDown(S) ==
    LET hit(s, i) == s \in S /\ i \in Settled(s)
    IN  /\ pending' = [s \in Session |-> IF s \in S THEN {} ELSE pending[s]]
        /\ streams' = [s \in Session |-> IF s \in S THEN {} ELSE streams[s]]
        /\ closed' = [s \in Session |->
                IF s \in S THEN closed[s] \cup streams[s] ELSE closed[s]]
        /\ bridge' = [s \in Session |-> [i \in StreamId |->
                IF hit(s, i) THEN "done" ELSE bridge[s][i]]]
        /\ sock' = [s \in Session |-> [i \in StreamId |->
                IF hit(s, i) THEN "gone" ELSE sock[s][i]]]

(* The connection that register() replaces.                                *)
ReplacedNone(s) == {}
Replaced(s) == {agent} \ {NoSession}

(* onHello and register: the first hello of a socket takes the agent's     *)
(* place in the registry and tears down whoever held it.  The replaced     *)
(* WebSocket itself is left open.                                          *)
OnHello(s) ==
    /\ Hears(s, "hello")
    /\ toServer' = Dropped(toServer, s)
    /\ \/ /\ conn[s] # "none"
          /\ UNCHANGED <<agent, conn, minting, streamVars>>
       \/ /\ conn[s] = "none"
          /\ TornDown(Replaced(s))
          /\ conn' = [r \in Session |->
                IF r = s THEN "live" ELSE IF r = agent THEN "torn" ELSE conn[r]]
          /\ agent' = s
          /\ minting' = [minting EXCEPT ![s] = TRUE]
          /\ UNCHANGED <<seq, written, got>>
    /\ UNCHANGED <<wire, toAgent, sv>>

(* mintRefreshAndSend, once the token is signed.                           *)
SendReady(s) ==
    /\ minting[s]
    /\ minting' = [minting EXCEPT ![s] = FALSE]
    /\ toAgent' = Sent(toAgent, s, Ready)
    /\ UNCHANGED <<wire, toServer, sv, agent, conn, streamVars>>

(* deregister's test: is the tracked connection still this one?            *)
HoldsPlaceUnchecked(s) == conn[s] # "none"
HoldsPlaceInverted(s) == agent # s
HoldsPlace(s) == agent = s

(* ws 'close': deregister evicts the agent only if s still holds its place.*)
SocketCloses(s) ==
    /\ sv[s] \in {"auth", "serving"}
    /\ sv' = [sv EXCEPT ![s] = "closed"]
    /\ WireDown(s)
    /\ toServer' = [toServer EXCEPT ![s] = <<>>]
    /\ \/ /\ HoldsPlace(s)
          /\ agent' = NoSession
          /\ conn' = [conn EXCEPT ![s] = "torn"]
          /\ TornDown({s})
       \/ /\ ~HoldsPlace(s)
          /\ UNCHANGED <<agent, conn, streams, pending, closed, bridge, sock>>
    /\ UNCHANGED <<toAgent, minting, seq, written, got>>

----------------------------------------------------------------------------
(* AgentConnection and the bridge of one loopback socket.                  *)

(* `s${++this.seq}'                                                        *)
NextIdPostIncrement(s) == seq[s]
NextIdByCount(s) == Cardinality(streams[s]) + 1
NextId(s) == seq[s] + 1

(* A driver connects: bridge() finds the agent's connection and asks it    *)
(* for a stream.  Without an agent or past the cap the socket is destroyed *)
(* at once and nothing else happens.                                       *)
OpenStream(s) ==
    /\ agent = s
    /\ conn[s] # "torn"
    /\ Cardinality(streams[s]) < MaxStreams
    /\ seq[s] < MaxOpens
    /\ LET i == NextId(s) IN
         /\ seq' = [seq EXCEPT ![s] = @ + 1]
         /\ streams' = [streams EXCEPT ![s] = @ \cup {i}]
         /\ pending' = [pending EXCEPT ![s] = @ \cup {i}]
         /\ bridge' = [bridge EXCEPT ![s][i] = "opening"]
         /\ sock' = [sock EXCEPT ![s][i] = "open"]
         /\ toAgent' = Sent(toAgent, s, Open(i))
    /\ UNCHANGED <<wire, toServer, sv, agent, conn, minting, closed, written, got>>

(* openStream is rejected for stream i: the bridge destroys its socket.    *)
Rejected(s, i) ==
    /\ pending' = [pending EXCEPT ![s] = @ \ {i}]
    /\ streams' = [streams EXCEPT ![s] = @ \ {i}]
    /\ bridge' = [bridge EXCEPT ![s][i] = "done"]
    /\ sock' = [sock EXCEPT ![s][i] = "gone"]

(* The 15 s timer of openStream.  The agent is told nothing.               *)
OpenTimesOut(s, i) ==
    /\ i \in pending[s]
    /\ Rejected(s, i)
    /\ UNCHANGED <<wireVars, sv, agent, conn, minting, seq, closed, written, got>>

OnOpened(s) ==
    /\ Hears(s, "opened")
    /\ toServer' = Dropped(toServer, s)
    /\ LET i == Head(toServer[s]).id IN
         \/ /\ i \in pending[s] \cap streams[s]
            /\ pending' = [pending EXCEPT ![s] = @ \ {i}]
            /\ bridge' = [bridge EXCEPT ![s][i] = "opened"]
         \/ /\ i \notin pending[s] \cap streams[s]
            /\ UNCHANGED <<pending, bridge>>
    /\ UNCHANGED <<wire, toAgent, sv, agent, conn, minting, seq, streams, closed, sock, written, got>>

OnOpenErr(s) ==
    /\ Hears(s, "openerr")
    /\ toServer' = Dropped(toServer, s)
    /\ LET i == Head(toServer[s]).id IN
         \/ i \in pending[s] /\ Rejected(s, i)
         \/ i \notin pending[s] /\ UNCHANGED <<pending, streams, bridge, sock>>
    /\ UNCHANGED <<wire, toAgent, sv, agent, conn, minting, seq, closed, written, got>>

(* finalizeStream: the onClose of a bridge that is not wired yet is unset. *)
OnClose(s) ==
    /\ Hears(s, "close")
    /\ toServer' = Dropped(toServer, s)
    /\ LET i == Head(toServer[s]).id IN
         \/ /\ i \in streams[s]
            /\ closed' = [closed EXCEPT ![s] = @ \cup {i}]
            /\ streams' = [streams EXCEPT ![s] = @ \ {i}]
            /\ \/ /\ bridge[s][i] = "wired"
                  /\ bridge' = [bridge EXCEPT ![s][i] = "done"]
                  /\ sock' = [sock EXCEPT ![s][i] = "gone"]
               \/ bridge[s][i] # "wired" /\ UNCHANGED <<bridge, sock>>
         \/ i \notin streams[s] /\ UNCHANGED <<closed, streams, bridge, sock>>
    /\ UNCHANGED <<wire, toAgent, sv, agent, conn, minting, seq, pending, written, got>>

(* handleBinary: the onData of a bridge that is not wired yet is unset.    *)
OnData(s) ==
    /\ Hears(s, "data")
    /\ toServer' = Dropped(toServer, s)
    /\ LET frame == Head(toServer[s])
           i == frame.id
       IN  got' = IF i \in streams[s] /\ bridge[s][i] = "wired"
                  THEN [got EXCEPT ![s][i] = Append(@, frame.n)] ELSE got
    /\ UNCHANGED <<wire, toAgent, sv, agent, conn, minting, seq, streams, pending, closed,
                   bridge, sock, written>>

(* What follows the await: the handlers of both ends are attached, whether *)
(* or not the stream or the socket has ended since.                        *)
ResumeBridge(s, i) ==
    /\ bridge[s][i] = "opened"
    /\ bridge' = [bridge EXCEPT ![s][i] = "wired"]
    /\ UNCHANGED <<wireVars, sv, agent, conn, minting, seq, streams, pending, closed, sock,
                   written, got>>

(* shutdown(), when the loopback socket ends: AgentStream.close() sends a  *)
(* close unless the stream is closed already.                              *)
Shutdown(s, i) ==
    /\ bridge' = [bridge EXCEPT ![s][i] = "done"]
    /\ sock' = [sock EXCEPT ![s][i] = "gone"]
    /\ closed' = [closed EXCEPT ![s] = @ \cup {i}]
    /\ streams' = [streams EXCEPT ![s] = @ \ {i}]
    /\ toAgent' = IF i \in closed[s] THEN toAgent ELSE Sent(toAgent, s, Close(i))

(* The driver hangs up.  Before the bridge is wired nobody listens: 'end'  *)
(* is emitted to no one, or held back by bytes that nobody has read.       *)
DriverCloses(s, i) ==
    /\ sock[s][i] = "open"
    /\ \/ /\ bridge[s][i] \in {"opening", "opened"}
          /\ \E left \in {"hungup", "draining"} : sock' = [sock EXCEPT ![s][i] = left]
          /\ UNCHANGED <<toAgent, bridge, closed, streams>>
       \/ bridge[s][i] = "wired" /\ Shutdown(s, i)
    /\ UNCHANGED <<wire, toServer, sv, agent, conn, minting, seq, pending, written, got>>

(* The wired bridge has read what was left and gets the 'end' at last.     *)
DrainEnds(s, i) ==
    /\ sock[s][i] = "draining"
    /\ bridge[s][i] = "wired"
    /\ Shutdown(s, i)
    /\ UNCHANGED <<wire, toServer, sv, agent, conn, minting, seq, pending, written, got>>

(* The bridge reads its loopback socket from the moment it is wired.       *)
ReadsSocketEarly(s, i) == bridge[s][i] \in {"opening", "opened", "wired"}
ReadsSocket(s, i) == bridge[s][i] = "wired"

(* socket 'data': AgentStream.write, a no-op on a closed stream.           *)
DriverWrites(s, i) ==
    /\ sock[s][i] \in {"open", "draining"}
    /\ ReadsSocket(s, i)
    /\ written[s][i] < MaxChunks
    /\ written' = [written EXCEPT ![s][i] = @ + 1]
    /\ toAgent' = IF i \in closed[s] THEN toAgent
                  ELSE Sent(toAgent, s, Data(i, written[s][i] + 1))
    /\ UNCHANGED <<wire, toServer, sv, agent, conn, minting, seq, streams, pending, closed,
                   bridge, sock, got>>

Hearing(s) == OnHello(s) \/ OnOpened(s) \/ OnOpenErr(s) \/ OnClose(s) \/ OnData(s)

Bridging(s, i) ==
    \/ OpenTimesOut(s, i) \/ ResumeBridge(s, i) \/ DriverCloses(s, i)
    \/ DrainEnds(s, i) \/ DriverWrites(s, i)

ServerNext ==
    \E s \in Session :
        \/ Accept(s) \/ AuthOk(s) \/ AuthRejects(s) \/ FrameUnheard(s)
        \/ Hearing(s) \/ SendReady(s) \/ SocketCloses(s) \/ OpenStream(s)
        \/ \E i \in StreamId : Bridging(s, i)
=============================================================================
