---------------------------- MODULE AgentServerRs ----------------------------
(***************************************************************************)
(* The v2 backend's side of the tunnel (v2/backend/src/tunnel.rs), for one *)
(* agent id.  Tasks run in parallel: a step is what one task does while it *)
(* holds a lock, or its next use of a channel.  A session task reads the   *)
(* socket; a bridge task opens one stream and copies bytes both ways.  All *)
(* frames leave by the session's unbounded queue, whose rest is lost with  *)
(* the socket: the queue and the wire are one channel here.                *)
(***************************************************************************)
EXTENDS TunnelWire

CONSTANT NoSession

ASSUME ServerAssumption == NoSession \notin Session

VARIABLES
    sv,        \* sv[s]: what the session task is doing
    registry,  \* registry(): the session registered for the agent, or NoSession
    replaced,  \* replaced[s]: the connection s took the place of and tears down next
    conn,      \* conn[s]: the AgentConn of s is "none", "live" or "torn"
    seq,       \* seq[s]: AgentConn.seq
    slots,     \* slots[s]: ConnInner.streams
    pending,   \* pending[s]: ConnInner.pending
    bridge,    \* bridge[s][i]: what the bridge task of stream i is doing
    sock,      \* sock[s][i]: the loopback socket: "none", "open", "hungup" or "gone"
    inbox,     \* inbox[s][i]: chunks in the stream's channel
    got,       \* got[s][i]: chunks copied to the loopback socket
    written    \* written[s][i]: chunks copied from the loopback socket

serverVars == <<sv, registry, replaced, conn, seq, slots, pending, bridge, sock, inbox, got, written>>
streamVars == <<seq, slots, pending, bridge, sock, inbox, got, written>>

SessionState == {"new", "auth", "serving", "registering", "evicting", "closed"}

(* A bridge has taken a slot ("asked"), waits for the answer ("opening"),  *)
(* was answered ("acked", "refused") or timed out ("late"), copies both    *)
(* ways ("open"), copies only to the driver, who hung up ("halfclosed"),   *)
(* only from the driver, after the stream's end ("ended"), or is over.     *)
BridgeState == {"none", "asked", "opening", "acked", "refused", "late",
                "open", "halfclosed", "ended", "done"}

ServerTypeOK ==
    /\ sv \in [Session -> SessionState]
    /\ registry \in Session \cup {NoSession}
    /\ replaced \in [Session -> Session \cup {NoSession}]
    /\ conn \in [Session -> {"none", "live", "torn"}]
    /\ seq \in [Session -> 0..MaxOpens]
    /\ slots \in [Session -> SUBSET StreamId]
    /\ pending \in [Session -> SUBSET StreamId]
    /\ bridge \in [Session -> [StreamId -> BridgeState]]
    /\ sock \in [Session -> [StreamId -> {"none", "open", "hungup", "gone"}]]
    /\ inbox \in [Session -> [StreamId -> Seq(Chunk)]]
    /\ got \in [Session -> [StreamId -> Seq(Chunk)]]
    /\ written \in [Session -> [StreamId -> 0..MaxChunks]]

ServerInit ==
    /\ sv = [s \in Session |-> "new"]
    /\ registry = NoSession
    /\ replaced = [s \in Session |-> NoSession]
    /\ conn = [s \in Session |-> "none"]
    /\ seq = [s \in Session |-> 0]
    /\ slots = [s \in Session |-> {}]
    /\ pending = [s \in Session |-> {}]
    /\ bridge = [s \in Session |-> [i \in StreamId |-> "none"]]
    /\ sock = [s \in Session |-> [i \in StreamId |-> "none"]]
    /\ inbox = [s \in Session |-> [i \in StreamId |-> <<>>]]
    /\ got = [s \in Session |-> [i \in StreamId |-> <<>>]]
    /\ written = [s \in Session |-> [i \in StreamId |-> 0]]

----------------------------------------------------------------------------
(* The session task.  Nothing is read from the socket before the token is  *)
(* verified and the agent's row read, so early frames wait.                *)

Accept(s) ==
    /\ sv[s] = "new"
    /\ wire[s] = "up"
    /\ sv' = [sv EXCEPT ![s] = "auth"]
    /\ UNCHANGED <<wireVars, registry, replaced, conn, streamVars>>

AuthOk(s) ==
    /\ sv[s] = "auth"
    /\ sv' = [sv EXCEPT ![s] = "serving"]
    /\ UNCHANGED <<wireVars, registry, replaced, conn, streamVars>>

AuthRejects(s) ==
    /\ sv[s] = "auth"
    /\ sv' = [sv EXCEPT ![s] = "closed"]
    /\ WireDown(s)
    /\ toServer' = [toServer EXCEPT ![s] = <<>>]
    /\ UNCHANGED <<toAgent, registry, replaced, conn, streamVars>>

Hears(s, kind) == sv[s] = "serving" /\ NextIs(toServer, s, kind)

(* register inserts the connection under the registry's lock; ...          *)
OnHello(s) ==
    /\ Hears(s, "hello")
    /\ toServer' = Dropped(toServer, s)
    /\ \/ /\ conn[s] # "none"
          /\ UNCHANGED <<sv, registry, replaced, conn>>
       \/ /\ conn[s] = "none"
          /\ conn' = [conn EXCEPT ![s] = "live"]
          /\ registry' = s
          /\ replaced' = [replaced EXCEPT ![s] = registry]
          /\ sv' = [sv EXCEPT ![s] = "registering"]
    /\ UNCHANGED <<wire, toAgent, streamVars>>

(* teardown of the connections in S: the waiters are sent an error and all *)
(* data senders are dropped.                                               *)
TornDown(S) ==
    /\ conn' = [s \in Session |-> IF s \in S THEN "torn" ELSE conn[s]]
    /\ pending' = [s \in Session |-> IF s \in S THEN {} ELSE pending[s]]
    /\ slots' = [s \in Session |-> IF s \in S THEN {} ELSE slots[s]]
    /\ bridge' = [s \in Session |-> [i \in StreamId |->
            IF s \in S /\ i \in pending[s] /\ bridge[s][i] = "opening"
            THEN "refused" ELSE bridge[s][i]]]

(* ... then, outside that lock, tears down what was there and says ready.  *)
FinishRegister(s) ==
    /\ sv[s] = "registering"
    /\ sv' = [sv EXCEPT ![s] = "serving"]
    /\ TornDown({replaced[s]} \ {NoSession})
    /\ toAgent' = Sent(toAgent, s, Ready)
    /\ UNCHANGED <<wire, toServer, registry, replaced, seq, sock, inbox, got, written>>

(* deregister's test, under the registry's lock.                           *)
IsCurrentUnchecked(s) == conn[s] # "none"
IsCurrent(s) == registry = s

(* The session loop breaks.  An evicted connection is torn down next.      *)
SocketCloses(s) ==
    /\ sv[s] = "serving"
    /\ WireDown(s)
    /\ toServer' = [toServer EXCEPT ![s] = <<>>]
    /\ \/ /\ IsCurrent(s)
          /\ registry' = NoSession
          /\ sv' = [sv EXCEPT ![s] = "evicting"]
       \/ /\ ~IsCurrent(s)
          /\ sv' = [sv EXCEPT ![s] = "closed"]
          /\ UNCHANGED registry
    /\ UNCHANGED <<toAgent, replaced, conn, streamVars>>

Evict(s) ==
    /\ sv[s] = "evicting"
    /\ sv' = [sv EXCEPT ![s] = "closed"]
    /\ TornDown({s})
    /\ UNCHANGED <<wireVars, registry, replaced, seq, sock, inbox, got, written>>

(* handle_control and handle_binary.                                       *)
OnOpened(s) ==
    /\ Hears(s, "opened")
    /\ toServer' = Dropped(toServer, s)
    /\ LET i == Head(toServer[s]).id IN
         \/ /\ i \in slots[s] \cap pending[s]
            /\ pending' = [pending EXCEPT ![s] = @ \ {i}]
            /\ bridge' = [bridge EXCEPT ![s][i] = IF @ = "opening" THEN "acked" ELSE @]
         \/ /\ i \notin slots[s] \cap pending[s]
            /\ UNCHANGED <<pending, bridge>>
    /\ UNCHANGED <<wire, toAgent, sv, registry, replaced, conn, seq, slots, sock, inbox, got, written>>

OnOpenErr(s) ==
    /\ Hears(s, "openerr")
    /\ toServer' = Dropped(toServer, s)
    /\ LET i == Head(toServer[s]).id IN
         \/ /\ i \in pending[s]
            /\ pending' = [pending EXCEPT ![s] = @ \ {i}]
            /\ slots' = [slots EXCEPT ![s] = @ \ {i}]
            /\ bridge' = [bridge EXCEPT ![s][i] = IF @ = "opening" THEN "refused" ELSE @]
         \/ /\ i \notin pending[s]
            /\ UNCHANGED <<pending, slots, bridge>>
    /\ UNCHANGED <<wire, toAgent, sv, registry, replaced, conn, seq, sock, inbox, got, written>>

OnClose(s) ==
    /\ Hears(s, "close")
    /\ toServer' = Dropped(toServer, s)
    /\ slots' = [slots EXCEPT ![s] = @ \ {Head(toServer[s]).id}]
    /\ UNCHANGED <<wire, toAgent, sv, registry, replaced, conn, seq, pending, bridge, sock, inbox,
                   got, written>>

TakesDataIfOpen(s, i) == i \in slots[s] /\ bridge[s][i] = "open"
TakesData(s, i) == i \in slots[s]

OnData(s) ==
    /\ Hears(s, "data")
    /\ toServer' = Dropped(toServer, s)
    /\ LET f == Head(toServer[s]) IN
         inbox' = IF TakesData(s, f.id)
                  THEN [inbox EXCEPT ![s][f.id] = Append(@, f.n)] ELSE inbox
    /\ UNCHANGED <<wire, toAgent, sv, registry, replaced, conn, seq, slots, pending, bridge, sock,
                   got, written>>

----------------------------------------------------------------------------
(* The bridge task of one loopback socket.                                 *)

HasRoom(s) == Cardinality(slots[s]) < MaxStreams

(* seq.fetch_add(1) + 1                                                    *)
NextIdOfFetchAdd(s) == seq[s]
NextId(s) == seq[s] + 1

(* open_stream takes a slot.  The connection was looked up under another   *)
(* lock, so it may have lost its place since, but not be torn down.        *)
OpenStream(s) ==
    /\ conn[s] = "live"
    /\ HasRoom(s)
    /\ seq[s] < MaxOpens
    /\ LET i == NextId(s) IN
         /\ seq' = [seq EXCEPT ![s] = @ + 1]
         /\ slots' = [slots EXCEPT ![s] = @ \cup {i}]
         /\ pending' = [pending EXCEPT ![s] = @ \cup {i}]
         /\ bridge' = [bridge EXCEPT ![s][i] = "asked"]
         /\ sock' = [sock EXCEPT ![s][i] = "open"]
    /\ UNCHANGED <<wireVars, sv, registry, replaced, conn, inbox, got, written>>

Forgotten(s, i) ==
    /\ slots' = [slots EXCEPT ![s] = @ \ {i}]
    /\ pending' = [pending EXCEPT ![s] = @ \ {i}]

Over(s, i) ==
    /\ bridge' = [bridge EXCEPT ![s][i] = "done"]
    /\ sock' = [sock EXCEPT ![s][i] = "gone"]

(* The open frame is queued; the queue is gone once the session is over.   *)
SendOpen(s, i) ==
    /\ bridge[s][i] = "asked"
    /\ \/ /\ sv[s] # "closed"
          /\ toAgent' = Sent(toAgent, s, Open(i))
          /\ bridge' = [bridge EXCEPT ![s][i] = IF i \in pending[s] THEN "opening" ELSE "refused"]
          /\ UNCHANGED <<slots, pending, sock>>
       \/ /\ sv[s] = "closed"
          /\ Forgotten(s, i)
          /\ Over(s, i)
          /\ UNCHANGED toAgent
    /\ UNCHANGED <<wire, toServer, sv, registry, replaced, conn, seq, inbox, got, written>>

OpenNeverTimesOut(s, i) == FALSE /\ UNCHANGED serverVars
OpenTimesOut(s, i) ==
    /\ bridge[s][i] = "opening"
    /\ bridge' = [bridge EXCEPT ![s][i] = "late"]
    /\ UNCHANGED <<wireVars, sv, registry, replaced, conn, seq, slots, pending, sock, inbox, got,
                   written>>

NoticeOf(s, i) == Sent(toAgent, s, Close(i))

GiveUpKeepsSlot(s, i) ==
    /\ bridge[s][i] = "late"
    /\ pending' = [pending EXCEPT ![s] = @ \ {i}]
    /\ Over(s, i)
    /\ toAgent' = NoticeOf(s, i)
    /\ UNCHANGED <<slots, wire, toServer, sv, registry, replaced, conn, seq, inbox, got, written>>
GiveUp(s, i) ==
    /\ bridge[s][i] = "late"
    /\ Forgotten(s, i)
    /\ Over(s, i)
    /\ toAgent' = NoticeOf(s, i)
    /\ UNCHANGED <<wire, toServer, sv, registry, replaced, conn, seq, inbox, got, written>>

Resume(s, i) ==
    /\ \/ /\ bridge[s][i] = "acked"
          /\ bridge' = [bridge EXCEPT ![s][i] = "open"]
          /\ UNCHANGED sock
       \/ bridge[s][i] = "refused" /\ Over(s, i)
    /\ UNCHANGED <<wireVars, sv, registry, replaced, conn, seq, slots, pending, inbox, got, written>>

(* The driver hangs up; the kernel keeps its end of file for the reader.   *)
DriverCloses(s, i) ==
    /\ sock[s][i] = "open"
    /\ sock' = [sock EXCEPT ![s][i] = "hungup"]
    /\ UNCHANGED <<wireVars, sv, registry, replaced, conn, seq, slots, pending, bridge, inbox, got,
                   written>>

(* close_now: the agent is told only if the slot was still there.          *)
CloseNowKeepsSlot(s, i) ==
    /\ toAgent' = IF i \in slots[s] THEN NoticeOf(s, i) ELSE toAgent
    /\ UNCHANGED slots
CloseNow(s, i) ==
    /\ slots' = [slots EXCEPT ![s] = @ \ {i}]
    /\ toAgent' = IF i \in slots[s] THEN NoticeOf(s, i) ELSE toAgent

(* Nothing is read from the driver before the stream is open.              *)
CopiesFromDriverAtOnce(s, i) == bridge[s][i] \in {"opening", "acked", "open", "ended"}
CopiesFromDriver(s, i) == bridge[s][i] \in {"open", "ended"}

(* copy_bidirectional: what the driver sends, whether or not the stream    *)
(* has ended meanwhile; a queue that is gone fails the copy.               *)
DriverWrites(s, i) ==
    /\ CopiesFromDriver(s, i)
    /\ sock[s][i] \in {"open", "hungup"}
    /\ written[s][i] < MaxChunks
    /\ \/ /\ sv[s] # "closed"
          /\ written' = [written EXCEPT ![s][i] = @ + 1]
          /\ toAgent' = Sent(toAgent, s, Data(i, written[s][i] + 1))
          /\ UNCHANGED <<slots, bridge, sock>>
       \/ /\ sv[s] = "closed"
          /\ CloseNow(s, i)
          /\ Over(s, i)
          /\ UNCHANGED written
    /\ UNCHANGED <<wire, toServer, sv, registry, replaced, conn, seq, pending, inbox, got>>

(* copy_bidirectional: a chunk for the driver, who may be gone.            *)
CopyChunk(s, i) ==
    /\ bridge[s][i] \in {"open", "halfclosed"}
    /\ inbox[s][i] # <<>>
    /\ \/ /\ inbox' = [inbox EXCEPT ![s][i] = Tail(@)]
          /\ got' = [got EXCEPT ![s][i] = Append(@, Head(inbox[s][i]))]
          /\ UNCHANGED <<toAgent, slots, bridge, sock>>
       \/ /\ sock[s][i] = "hungup"
          /\ CloseNow(s, i)
          /\ Over(s, i)
          /\ UNCHANGED <<inbox, got>>
    /\ UNCHANGED <<wire, toServer, sv, registry, replaced, conn, seq, pending, written>>

(* The driver's end of file shuts the stream down.                         *)
DriverEof(s, i) ==
    /\ sock[s][i] = "hungup"
    /\ \/ /\ bridge[s][i] = "open"
          /\ bridge' = [bridge EXCEPT ![s][i] = "halfclosed"]
          /\ UNCHANGED sock
       \/ bridge[s][i] = "ended" /\ Over(s, i)
    /\ CloseNow(s, i)
    /\ UNCHANGED <<wire, toServer, sv, registry, replaced, conn, seq, pending, inbox, got, written>>

(* The stream's end of file: its sender was dropped and all was read.      *)
EofSeen(s, i) == i \notin slots[s] /\ inbox[s][i] = <<>>

StreamEof(s, i) ==
    /\ EofSeen(s, i)
    /\ \/ /\ bridge[s][i] = "open"
          /\ bridge' = [bridge EXCEPT ![s][i] = "ended"]
          /\ UNCHANGED sock
       \/ bridge[s][i] = "halfclosed" /\ Over(s, i)
    /\ UNCHANGED <<wireVars, sv, registry, replaced, conn, seq, slots, pending, inbox, got, written>>

Hearing(s) == OnHello(s) \/ OnOpened(s) \/ OnOpenErr(s) \/ OnClose(s) \/ OnData(s)

Opening(s, i) == SendOpen(s, i) \/ OpenTimesOut(s, i) \/ GiveUp(s, i) \/ Resume(s, i)
Copying(s, i) == CopyChunk(s, i) \/ DriverEof(s, i) \/ StreamEof(s, i)

ServerNext ==
    \E s \in Session :
        \/ Accept(s) \/ AuthOk(s) \/ AuthRejects(s)
        \/ Hearing(s) \/ FinishRegister(s) \/ SocketCloses(s) \/ Evict(s) \/ OpenStream(s)
        \/ \E i \in StreamId :
              Opening(s, i) \/ Copying(s, i) \/ DriverCloses(s, i) \/ DriverWrites(s, i)
=============================================================================
