----------------------------- MODULE AgentClient -----------------------------
(***************************************************************************)
(* The local agent's side of the tunnel: Client of                         *)
(* agent/internal/tunnel/client.go.  One session is one Client.  Its read  *)
(* loop takes one frame at a time; every stream has a goroutine of its own *)
(* that dials the database, registers the connection, answers `opened' and *)
(* pumps bytes until the connection ends.  The stream table is shared by   *)
(* all of them under a mutex, so one locked section is one step.           *)
(***************************************************************************)
EXTENDS TunnelWire

VARIABLES
    cl,       \* cl[s]: the Client is "new", in its read loop, or has "ended"
    ready,    \* ready[s]: the ready frame has been handled
    gor,      \* gor[s][i]: what the goroutine of stream i is doing
    conns,    \* conns[s]: Client.streams, the streams with a TCP connection
    dbSent,   \* dbSent[s][i]: chunks read from the database
    dbGot     \* dbGot[s][i]: chunks written to the database

clientVars == <<cl, ready, gor, conns, dbSent, dbGot>>

ClientTypeOK ==
    /\ cl \in [Session -> {"new", "running", "ended"}]
    /\ ready \in [Session -> BOOLEAN]
    /\ gor \in [Session -> [StreamId -> {"none", "dialing", "registered", "pumping", "sending", "done"}]]
    /\ conns \in [Session -> SUBSET StreamId]
    /\ dbSent \in [Session -> [StreamId -> 0..MaxChunks]]
    /\ dbGot \in [Session -> [StreamId -> Seq(Chunk)]]

ClientInit ==
    /\ cl = [s \in Session |-> "new"]
    /\ ready = [s \in Session |-> FALSE]
    /\ gor = [s \in Session |-> [i \in StreamId |-> "none"]]
    /\ conns = [s \in Session |-> {}]
    /\ dbSent = [s \in Session |-> [i \in StreamId |-> 0]]
    /\ dbGot = [s \in Session |-> [i \in StreamId |-> <<>>]]

AtCapOffByOne(s) == Cardinality(conns[s]) > MaxStreams
AtCap(s) == Cardinality(conns[s]) >= MaxStreams

(* Run: dial the backend, start the writer, enqueue hello.                 *)
ClientDial(s) ==
    /\ cl[s] = "new"
    /\ wire[s] = "idle"
    /\ wire' = [wire EXCEPT ![s] = "up"]
    /\ toServer' = [toServer EXCEPT ![s] = <<Hello>>]
    /\ cl' = [cl EXCEPT ![s] = "running"]
    /\ UNCHANGED <<toAgent, ready, gor, conns, dbSent, dbGot>>

Reads(s, kind) == cl[s] = "running" /\ NextIs(toAgent, s, kind)

HandleReady(s) ==
    /\ Reads(s, "ready")
    /\ toAgent' = Dropped(toAgent, s)
    /\ ready' = [ready EXCEPT ![s] = TRUE]
    /\ UNCHANGED <<wire, toServer, cl, gor, conns, dbSent, dbGot>>

(* The cap is tested before a dial is started, and again after it.         *)
HandleOpen(s) ==
    /\ Reads(s, "open")
    /\ toAgent' = Dropped(toAgent, s)
    /\ LET i == Head(toAgent[s]).id IN
         \/ /\ AtCap(s)
            /\ toServer' = Sent(toServer, s, OpenErr(i))
            /\ UNCHANGED gor
         \/ /\ ~AtCap(s)
            /\ gor' = [gor EXCEPT ![s][i] = "dialing"]
            /\ UNCHANGED toServer
    /\ UNCHANGED <<wire, cl, ready, conns, dbSent, dbGot>>

DialFails(s, i) ==
    /\ gor[s][i] = "dialing"
    /\ gor' = [gor EXCEPT ![s][i] = "done"]
    /\ toServer' = Sent(toServer, s, OpenErr(i))
    /\ UNCHANGED <<wire, toAgent, cl, ready, conns, dbSent, dbGot>>

(* Nothing here asks whether the session is still there: a dial that ends  *)
(* after teardown stores its connection in a table nobody empties again.   *)
DialSucceeds(s, i) ==
    /\ gor[s][i] = "dialing"
    /\ \/ /\ AtCap(s)
          /\ gor' = [gor EXCEPT ![s][i] = "done"]
          /\ toServer' = Sent(toServer, s, OpenErr(i))
          /\ UNCHANGED conns
       \/ /\ ~AtCap(s)
          /\ gor' = [gor EXCEPT ![s][i] = "registered"]
          /\ conns' = [conns EXCEPT ![s] = @ \cup {i}]
          /\ UNCHANGED toServer
    /\ UNCHANGED <<wire, toAgent, cl, ready, dbSent, dbGot>>

(* enqueue never reports an error: a closed writer channel panics and the  *)
(* recovered call returns nil, so the pump starts either way.              *)
SendOpened(s, i) ==
    /\ gor[s][i] = "registered"
    /\ gor' = [gor EXCEPT ![s][i] = "pumping"]
    /\ toServer' = Sent(toServer, s, Opened(i))
    /\ UNCHANGED <<wire, toAgent, cl, ready, conns, dbSent, dbGot>>

DropSilently(s, i) ==
    /\ conns' = [conns EXCEPT ![s] = @ \ {i}]
    /\ UNCHANGED toServer

(* dropStream: forget the stream and close its connection; the stream's    *)
(* own end is announced only by whoever found it still in the table.  The  *)
(* close is enqueued after the mutex is released; nobody finds the stream  *)
(* in between, so both are one step here.                                  *)
DropAndNotify(s, i) ==
    /\ conns' = [conns EXCEPT ![s] = @ \ {i}]
    /\ toServer' = IF i \in conns[s] THEN Sent(toServer, s, Close(i)) ELSE toServer

(* The pump reads a chunk and enqueues it in two steps: the stream may be  *)
(* dropped and its close enqueued in between.                              *)
PumpReads(s, i) ==
    /\ gor[s][i] = "pumping"
    /\ i \in conns[s]
    /\ dbSent[s][i] < MaxChunks
    /\ dbSent' = [dbSent EXCEPT ![s][i] = @ + 1]
    /\ gor' = [gor EXCEPT ![s][i] = "sending"]
    /\ UNCHANGED <<wire, toServer, toAgent, cl, ready, conns, dbGot>>

PumpSends(s, i) ==
    /\ gor[s][i] = "sending"
    /\ gor' = [gor EXCEPT ![s][i] = "pumping"]
    /\ toServer' = Sent(toServer, s, Data(i, dbSent[s][i]))
    /\ UNCHANGED <<wire, toAgent, cl, ready, conns, dbSent, dbGot>>

(* The database ends the connection.                                       *)
DatabaseCloses(s, i) ==
    /\ gor[s][i] = "pumping"
    /\ i \in conns[s]
    /\ gor' = [gor EXCEPT ![s][i] = "done"]
    /\ DropAndNotify(s, i)
    /\ UNCHANGED <<wire, toAgent, cl, ready, dbSent, dbGot>>

(* The connection was closed under the pump, whose read then fails.        *)
PumpStops(s, i) ==
    /\ gor[s][i] = "pumping"
    /\ i \notin conns[s]
    /\ gor' = [gor EXCEPT ![s][i] = "done"]
    /\ UNCHANGED <<wire, toServer, toAgent, cl, ready, conns, dbSent, dbGot>>

HandleServerClose(s) ==
    /\ Reads(s, "close")
    /\ toAgent' = Dropped(toAgent, s)
    /\ conns' = [conns EXCEPT ![s] = @ \ {Head(toAgent[s]).id}]
    /\ UNCHANGED <<wire, toServer, cl, ready, gor, dbSent, dbGot>>

(* Bytes for a stream the table does not hold are dropped; a write that    *)
(* fails drops the stream and tells the server.                            *)
HandleData(s) ==
    /\ Reads(s, "data")
    /\ toAgent' = Dropped(toAgent, s)
    /\ LET frame == Head(toAgent[s])
           i == frame.id
       IN
         \/ /\ dbGot' = IF i \in conns[s]
                        THEN [dbGot EXCEPT ![s][i] = Append(@, frame.n)] ELSE dbGot
            /\ UNCHANGED <<conns, toServer>>
         \/ /\ i \in conns[s]
            /\ DropAndNotify(s, i)
            /\ UNCHANGED dbGot
    /\ UNCHANGED <<wire, cl, ready, gor, dbSent>>

(* Run returns, for whatever reason: teardown closes what the table holds. *)
ClientEnds(s) ==
    /\ cl[s] = "running"
    /\ cl' = [cl EXCEPT ![s] = "ended"]
    /\ WireDown(s)
    /\ toAgent' = [toAgent EXCEPT ![s] = <<>>]
    /\ conns' = [conns EXCEPT ![s] = {}]
    /\ UNCHANGED <<toServer, ready, gor, dbSent, dbGot>>

ClientReads(s) ==
    HandleReady(s) \/ HandleOpen(s) \/ HandleServerClose(s) \/ HandleData(s)

StreamGoroutine(s, i) ==
    \/ DialFails(s, i) \/ DialSucceeds(s, i) \/ SendOpened(s, i)
    \/ PumpReads(s, i) \/ PumpSends(s, i) \/ DatabaseCloses(s, i) \/ PumpStops(s, i)

ClientNext ==
    \E s \in Session :
        \/ ClientDial(s) \/ ClientReads(s) \/ ClientEnds(s)
        \/ \E i \in StreamId : StreamGoroutine(s, i)
=============================================================================
