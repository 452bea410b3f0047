-------------------------- MODULE AgentClientProofs --------------------------
(***************************************************************************)
(* What the proofs about both tunnels use: the helpers on channels, and    *)
(* the types that a step of the agent keeps, whichever server it talks to. *)
(***************************************************************************)
EXTENDS AgentClient, FiniteSetTheorems, TLAPS

(* What the helpers on channels return.                                    *)
LEMMA SentToServer ==
    ASSUME WireTypeOK, NEW s \in Session, NEW f \in AgentFrame
    PROVE  Sent(toServer, s, f) \in [Session -> Seq(AgentFrame)]
  BY DEF Sent, WireTypeOK

LEMMA SentToAgent ==
    ASSUME WireTypeOK, NEW s \in Session, NEW f \in ServerFrame
    PROVE  Sent(toAgent, s, f) \in [Session -> Seq(ServerFrame)]
  BY DEF Sent, WireTypeOK

LEMMA TakenFromServer ==
    ASSUME WireTypeOK, NEW s \in Session, toServer[s] # <<>>
    PROVE  Dropped(toServer, s) \in [Session -> Seq(AgentFrame)] /\ Head(toServer[s]) \in AgentFrame
  BY DEF Dropped, WireTypeOK

LEMMA TakenFromAgent ==
    ASSUME WireTypeOK, NEW s \in Session, toAgent[s] # <<>>
    PROVE  Dropped(toAgent, s) \in [Session -> Seq(ServerFrame)] /\ Head(toAgent[s]) \in ServerFrame
  BY DEF Dropped, WireTypeOK

LEMMA FrameFields ==
    /\ \A f \in AgentFrame : f.t \in {"opened", "openerr", "close"} => f.id \in StreamId
    /\ \A f \in AgentFrame \cup ServerFrame : f.t = "data" => f.id \in StreamId /\ f.n \in Chunk
    /\ \A f \in ServerFrame : f.t \in {"open", "close"} => f.id \in StreamId
  BY DEF AgentFrame, ServerFrame, DataFrame, Hello, Ready

LEMMA FramesAreTyped ==
    /\ Hello \in AgentFrame /\ Ready \in ServerFrame
    /\ \A i \in StreamId :
          /\ Opened(i) \in AgentFrame /\ OpenErr(i) \in AgentFrame /\ Close(i) \in AgentFrame
          /\ Open(i) \in ServerFrame /\ Close(i) \in ServerFrame
          /\ \A n \in Chunk : Data(i, n) \in AgentFrame /\ Data(i, n) \in ServerFrame
  BY DEF AgentFrame, ServerFrame, DataFrame, Hello, Ready, Opened, OpenErr, Close, Open, Data

(* The one fact the types of the channels rest on: a pump about to send    *)
(* has read something, so the chunk it sends is numbered from one.         *)
ChunkInHand ==
    \A s \in Session : \A i \in StreamId : gor[s][i] = "sending" => dbSent[s][i] # 0

ClientStep(s) ==
    \/ ClientDial(s) \/ ClientReads(s) \/ ClientEnds(s)
    \/ \E i \in StreamId : StreamGoroutine(s, i)

LEMMA ChunkInHandStep ==
    ASSUME ClientTypeOK, ChunkInHand, NEW s \in Session, ClientStep(s)
    PROVE  ChunkInHand'
  <1> USE DEF ClientTypeOK, ChunkInHand
  <1>1. ASSUME NEW i, NEW g \in {"dialing", "registered", "pumping", "done"},
               gor' = [gor EXCEPT ![s][i] = g] \/ gor' = gor, dbSent' = dbSent
        PROVE  ChunkInHand'
    <2>1. \A r \in Session : \A j \in StreamId :
             gor'[r][j] = "sending" => gor[r][j] = "sending"
      <3>1. CASE gor' = gor
        BY <3>1
      <3>2. CASE gor' = [gor EXCEPT ![s][i] = g]
        BY <3>2
      <3> QED
        BY <1>1, <3>1, <3>2
    <2> QED
      BY <1>1, <2>1
  <1>2. CASE ClientDial(s) \/ ClientEnds(s)
    BY <1>1, <1>2 DEF ClientDial, ClientEnds
  <1>3. CASE ClientReads(s)
    BY <1>1, <1>3 DEF ClientReads, HandleReady, HandleOpen, HandleServerClose, HandleData
  <1>4. ASSUME NEW i \in StreamId, StreamGoroutine(s, i) PROVE ChunkInHand'
    <2>1. CASE PumpReads(s, i)
      BY <2>1 DEF PumpReads
    <2>2. CASE DialFails(s, i) \/ DialSucceeds(s, i) \/ SendOpened(s, i) \/ DatabaseCloses(s, i)
      BY <1>1, <2>2 DEF DialFails, DialSucceeds, SendOpened, DatabaseCloses
    <2>3. CASE PumpSends(s, i) \/ PumpStops(s, i)
      BY <1>1, <2>3 DEF PumpSends, PumpStops
    <2> QED
      BY <1>4, <2>1, <2>2, <2>3 DEF StreamGoroutine
  <1> QED
    BY <1>2, <1>3, <1>4 DEF ClientStep

(* A client step leaves the server's variables alone, and conversely.      *)
LEMMA ClientTypeStep ==
    ASSUME WireTypeOK, ClientTypeOK, ChunkInHand, NEW s \in Session, ClientStep(s)
    PROVE  WireTypeOK' /\ ClientTypeOK'
  <1> USE DEF WireTypeOK, ClientTypeOK
  <1>1. CASE ClientDial(s)
    BY <1>1, FramesAreTyped DEF ClientDial
  <1>2. CASE HandleReady(s)
    BY <1>2, TakenFromAgent DEF HandleReady, Reads, NextIs
  <1>3. CASE HandleOpen(s)
    <2> DEFINE i == Head(toAgent[s]).id
    <2>1. Dropped(toAgent, s) \in [Session -> Seq(ServerFrame)] /\ i \in StreamId
      BY <1>3, TakenFromAgent, FrameFields DEF HandleOpen, Reads, NextIs
    <2>2. Sent(toServer, s, OpenErr(i)) \in [Session -> Seq(AgentFrame)]
      BY <2>1, SentToServer, FramesAreTyped
    <2>3. CASE gor' = [gor EXCEPT ![s][i] = "dialing"] /\ toServer' = toServer
      <3>1. gor' \in [Session -> [StreamId -> {"none", "dialing", "registered", "pumping", "sending", "done"}]]
        BY <2>1, <2>3
      <3> QED
        BY <1>3, <2>1, <2>3, <3>1 DEF HandleOpen
    <2>4. CASE gor' = gor /\ toServer' = Sent(toServer, s, OpenErr(i))
      BY <1>3, <2>1, <2>2, <2>4 DEF HandleOpen
    <2> QED
      BY <1>3, <2>3, <2>4 DEF HandleOpen
  <1>4. CASE HandleServerClose(s)
    BY <1>4, TakenFromAgent DEF HandleServerClose, Reads, NextIs
  <1>5. CASE HandleData(s)
    <2> DEFINE f == Head(toAgent[s])
    <2>1. /\ Dropped(toAgent, s) \in [Session -> Seq(ServerFrame)]
          /\ f.id \in StreamId /\ f.n \in Chunk
      BY <1>5, TakenFromAgent, FrameFields DEF HandleData, Reads, NextIs
    <2>2. Sent(toServer, s, Close(f.id)) \in [Session -> Seq(AgentFrame)]
      BY <2>1, SentToServer, FramesAreTyped
    <2>3. [dbGot EXCEPT ![s][f.id] = Append(@, f.n)] \in [Session -> [StreamId -> Seq(Chunk)]]
      <3> HIDE DEF f
      <3>1. dbGot[s] \in [StreamId -> Seq(Chunk)]
        OBVIOUS
      <3>2. Append(dbGot[s][f.id], f.n) \in Seq(Chunk)
        BY <2>1, <3>1
      <3> QED
        BY <2>1, <3>1, <3>2
    <2>4. CASE UNCHANGED <<conns, toServer>>
      BY <1>5, <2>1, <2>3, <2>4 DEF HandleData
    <2>5. CASE DropAndNotify(s, f.id) /\ UNCHANGED dbGot
      BY <1>5, <2>1, <2>2, <2>5 DEF HandleData, DropAndNotify
    <2> QED
      BY <1>5, <2>4, <2>5 DEF HandleData
  <1>6. CASE ClientEnds(s)
    BY <1>6 DEF ClientEnds, WireDown
  <1>7. ASSUME NEW i \in StreamId, StreamGoroutine(s, i) PROVE WireTypeOK' /\ ClientTypeOK'
    <2>0. \A f \in AgentFrame : Sent(toServer, s, f) \in [Session -> Seq(AgentFrame)]
      BY SentToServer
    <2>1. CASE DialFails(s, i)
      BY <2>0, <2>1, FramesAreTyped DEF DialFails
    <2>2. CASE DialSucceeds(s, i)
      <3>1. CASE /\ gor' = [gor EXCEPT ![s][i] = "done"]
                 /\ toServer' = Sent(toServer, s, OpenErr(i))
                 /\ conns' = conns
        BY <2>0, <2>2, <3>1, FramesAreTyped DEF DialSucceeds
      <3>2. CASE /\ gor' = [gor EXCEPT ![s][i] = "registered"]
                 /\ toServer' = toServer
                 /\ conns' = [conns EXCEPT ![s] = @ \cup {i}]
        <4>1. gor' \in [Session -> [StreamId -> {"none", "dialing", "registered", "pumping", "sending", "done"}]]
          BY <3>2
        <4>2. conns' \in [Session -> SUBSET StreamId]
          BY <3>2
        <4> QED
          BY <2>2, <3>2, <4>1, <4>2 DEF DialSucceeds
      <3> QED
        BY <2>2, <3>1, <3>2 DEF DialSucceeds
    <2>3. CASE SendOpened(s, i)
      BY <2>0, <2>3, FramesAreTyped DEF SendOpened
    <2>4. CASE PumpReads(s, i)
      <3>1. dbSent[s][i] + 1 \in 0..MaxChunks
        BY <2>4, WireAssumption DEF PumpReads
      <3> QED
        BY <2>4, <3>1 DEF PumpReads
    <2>7. CASE PumpSends(s, i)
      <3>1. dbSent[s][i] \in Chunk
        BY <2>7, WireAssumption DEF PumpSends, Chunk, ChunkInHand
      <3>2. Sent(toServer, s, Data(i, dbSent[s][i])) \in [Session -> Seq(AgentFrame)]
        BY <2>0, <3>1, FramesAreTyped
      <3> QED
        BY <2>7, <3>2 DEF PumpSends
    <2>5. CASE DatabaseCloses(s, i)
      BY <2>0, <2>5, FramesAreTyped DEF DatabaseCloses, DropAndNotify
    <2>6. CASE PumpStops(s, i)
      BY <2>6 DEF PumpStops
    <2> QED
      BY <1>7, <2>1, <2>2, <2>3, <2>4, <2>5, <2>6, <2>7 DEF StreamGoroutine
  <1> QED
    BY <1>1, <1>2, <1>3, <1>4, <1>5, <1>6, <1>7 DEF ClientStep, ClientReads

(* The cap on a table of streams: it is tested in the step that adds.      *)
LEMMA FewIds ==
    ASSUME NEW S \in SUBSET StreamId
    PROVE  IsFiniteSet(S) /\ Cardinality(S) \in Nat
  <1>1. IsFiniteSet(StreamId)
    BY FS_Interval, WireAssumption DEF StreamId
  <1> QED
    BY <1>1, FS_Subset, FS_CardinalityType

LEMMA CapIsKept ==
    ASSUME NEW old \in SUBSET StreamId, Cardinality(old) <= MaxStreams,
           NEW new \in SUBSET StreamId, NEW i \in StreamId,
           new \subseteq old \/ (Cardinality(old) < MaxStreams /\ new = old \cup {i})
    PROVE  Cardinality(new) <= MaxStreams
  <1>1. Cardinality(old) \in Nat /\ IsFiniteSet(old) /\ Cardinality(new) \in Nat /\ MaxStreams \in Nat
    BY FewIds, WireAssumption
  <1>2. CASE new \subseteq old
    <2>1. Cardinality(new) <= Cardinality(old)
      BY <1>1, <1>2, FS_Subset
    <2> QED
      BY <1>1, <2>1
  <1>3. CASE Cardinality(old) < MaxStreams /\ new = old \cup {i}
    <2>1. Cardinality(new) = IF i \in old THEN Cardinality(old) ELSE Cardinality(old) + 1
      BY <1>1, <1>3, FS_AddElement
    <2> QED
      BY <1>1, <1>3, <2>1
  <1> QED
    BY <1>2, <1>3

ConnsBounded == \A s \in Session : Cardinality(conns[s]) <= MaxStreams

LEMMA NoConns == Cardinality({}) = 0 /\ 0 <= MaxStreams
  BY FS_EmptySet, WireAssumption

LEMMA ConnsBoundedStep ==
    ASSUME WireTypeOK, ClientTypeOK, ConnsBounded, NEW s \in Session, ClientStep(s)
    PROVE  ConnsBounded'
  <1>0. conns \in [Session -> SUBSET StreamId]
    BY DEF ClientTypeOK
  <1>1. CASE UNCHANGED conns
    BY <1>1 DEF ConnsBounded
  <1>2. ASSUME NEW i \in StreamId, NEW new \in SUBSET StreamId, conns' = [conns EXCEPT ![s] = new],
               new \subseteq conns[s] \/ (Cardinality(conns[s]) < MaxStreams /\ new = conns[s] \cup {i})
        PROVE  ConnsBounded'
    <2>1. Cardinality(new) <= MaxStreams
      BY <1>0, <1>2, CapIsKept DEF ConnsBounded
    <2> QED
      BY <1>0, <1>2, <2>1 DEF ConnsBounded
  <1>3. CASE ClientEnds(s)
    <2>1. 1 \in StreamId
      BY WireAssumption DEF StreamId
    <2>2. {} \in SUBSET StreamId /\ {} \subseteq conns[s] /\ conns' = [conns EXCEPT ![s] = {}]
      BY <1>3 DEF ClientEnds
    <2> QED
      BY <1>2, <2>1, <2>2
  <1>4. ASSUME NEW i \in StreamId, conns' = [conns EXCEPT ![s] = @ \ {i}] PROVE ConnsBounded'
    <2>1. /\ conns[s] \ {i} \in SUBSET StreamId /\ conns[s] \ {i} \subseteq conns[s]
          /\ conns' = [conns EXCEPT ![s] = conns[s] \ {i}]
      BY <1>0, <1>4
    <2> QED
      BY <1>2, <2>1
  <1>5. CASE HandleServerClose(s) \/ HandleData(s)
    <2> DEFINE i == Head(toAgent[s]).id
    <2>1. i \in StreamId
      BY <1>5, TakenFromAgent, FrameFields DEF HandleServerClose, HandleData, Reads, NextIs
    <2>2. conns' = [conns EXCEPT ![s] = @ \ {i}] \/ UNCHANGED conns
      BY <1>5 DEF HandleServerClose, HandleData, DropAndNotify
    <2> HIDE DEF i
    <2> QED
      BY <1>1, <1>4, <2>1, <2>2
  <1>6. ASSUME NEW i \in StreamId, DialSucceeds(s, i) PROVE ConnsBounded'
    <2>1. CASE conns' = [conns EXCEPT ![s] = @ \cup {i}] /\ ~AtCap(s)
      <3>1. conns' = [conns EXCEPT ![s] = conns[s] \cup {i}] /\ conns[s] \cup {i} \in SUBSET StreamId
        BY <1>0, <2>1
      <3>2. Cardinality(conns[s]) < MaxStreams
        BY <1>0, <2>1, FewIds, WireAssumption DEF AtCap
      <3> QED
        BY <1>2, <3>1, <3>2
    <2> QED
      BY <1>1, <1>6, <2>1 DEF DialSucceeds
  <1>7. ASSUME NEW i \in StreamId, StreamGoroutine(s, i) PROVE ConnsBounded'
    BY <1>1, <1>4, <1>6, <1>7
       DEF StreamGoroutine, DialFails, SendOpened, PumpReads, PumpSends, DatabaseCloses,
           DropAndNotify, PumpStops
  <1> QED
    BY <1>1, <1>3, <1>5, <1>7 DEF ClientStep, ClientReads, ClientDial, HandleReady, HandleOpen

(* What the helpers do to the channels and the wire of session r.          *)
LEMMA ChannelEnds ==
    ASSUME WireTypeOK, NEW s \in Session, NEW r \in Session
    PROVE  /\ toServer[s] # <<>> /\ toServer' = Dropped(toServer, s) =>
                toServer'[r] = IF r = s THEN Tail(toServer[s]) ELSE toServer[r]
           /\ toAgent[s] # <<>> /\ toAgent' = Dropped(toAgent, s) =>
                toAgent'[r] = IF r = s THEN Tail(toAgent[s]) ELSE toAgent[r]
           /\ \A f : toServer' = Sent(toServer, s, f) =>
                toServer'[r] = IF r = s /\ wire[s] = "up" THEN Append(toServer[s], f) ELSE toServer[r]
           /\ \A f : toAgent' = Sent(toAgent, s, f) =>
                toAgent'[r] = IF r = s /\ wire[s] = "up" THEN Append(toAgent[s], f) ELSE toAgent[r]
           /\ WireDown(s) => wire'[r] = IF r = s /\ wire[s] = "up" THEN "down" ELSE wire[r]
  <1>1. /\ DOMAIN toServer = Session /\ DOMAIN toAgent = Session /\ DOMAIN wire = Session
    BY DEF WireTypeOK
  <1> QED
    BY <1>1 DEF Dropped, Sent, WireDown

----------------------------------------------------------------------------
(* The frames of one stream on a channel.                                  *)
NoFrameOf(q, kinds, i) == \A k \in DOMAIN q : q[k].t \in kinds => q[k].id # i

IsFrame(f, kind, i) == f.t = kind /\ f.id = i

IsData(f, i) == IsFrame(f, "data", i)

Carries(q, kind, i) == \E k \in DOMAIN q : IsFrame(q[k], kind, i)

(* An open is sent once, so a stream's goroutine starts once.              *)
OpenOnce(q, i) ==
    \A j, k \in DOMAIN q : IsFrame(q[j], "open", i) /\ IsFrame(q[k], "open", i) => j = k

(* An open on the wire, as frames are read and sent.                       *)
LEMMA OpensOnWire ==
    ASSUME NEW q \in Seq(ServerFrame), NEW i
    PROVE  /\ q # <<>> /\ OpenOnce(q, i) =>
                /\ OpenOnce(Tail(q), i)
                /\ IsFrame(Head(q), "open", i) => NoFrameOf(Tail(q), {"open"}, i)
           /\ \A f \in ServerFrame :
                /\ NoFrameOf(q, {"open"}, i) => OpenOnce(Append(q, f), i)
                /\ OpenOnce(q, i) /\ ~IsFrame(f, "open", i) => OpenOnce(Append(q, f), i)
                /\ NoFrameOf(q, {"open"}, i) /\ ~IsFrame(f, "open", i) =>
                      NoFrameOf(Append(q, f), {"open"}, i)
  <1>1. ASSUME q # <<>>, OpenOnce(q, i)
        PROVE  /\ OpenOnce(Tail(q), i)
               /\ IsFrame(Head(q), "open", i) => NoFrameOf(Tail(q), {"open"}, i)
    <2>1. /\ Len(q) \in Nat \ {0} /\ DOMAIN q = 1..Len(q) /\ Head(q) = q[1]
          /\ DOMAIN Tail(q) = 1..(Len(q) - 1)
          /\ \A k \in 1..(Len(q) - 1) : Tail(q)[k] = q[k + 1] /\ k + 1 \in 1..Len(q) /\ k + 1 # 1
      BY <1>1
    <2>2. OpenOnce(Tail(q), i)
      <3> SUFFICES ASSUME NEW j \in 1..(Len(q) - 1), NEW k \in 1..(Len(q) - 1),
                          IsFrame(q[j + 1], "open", i), IsFrame(q[k + 1], "open", i)
                   PROVE  j = k
        BY <2>1 DEF OpenOnce
      <3>1. j + 1 = k + 1
        BY <1>1, <2>1 DEF OpenOnce
      <3> QED
        BY <2>1, <3>1
    <2>3. IsFrame(q[1], "open", i) => NoFrameOf(Tail(q), {"open"}, i)
      <3> SUFFICES ASSUME IsFrame(q[1], "open", i), NEW k \in 1..(Len(q) - 1)
                   PROVE  ~IsFrame(q[k + 1], "open", i)
        BY <2>1 DEF NoFrameOf, IsFrame
      <3>1. 1 \in DOMAIN q /\ k + 1 \in DOMAIN q /\ k + 1 # 1
        BY <2>1
      <3> QED
        BY <1>1, <3>1 DEF OpenOnce
    <2> QED
      BY <2>1, <2>2, <2>3
  <1>2. ASSUME NEW f \in ServerFrame
        PROVE  /\ NoFrameOf(q, {"open"}, i) => OpenOnce(Append(q, f), i)
               /\ OpenOnce(q, i) /\ ~IsFrame(f, "open", i) => OpenOnce(Append(q, f), i)
               /\ NoFrameOf(q, {"open"}, i) /\ ~IsFrame(f, "open", i) =>
                     NoFrameOf(Append(q, f), {"open"}, i)
    <2>1. /\ Len(q) \in Nat /\ DOMAIN q = 1..Len(q)
          /\ DOMAIN Append(q, f) = 1..(Len(q) + 1)
          /\ Append(q, f)[Len(q) + 1] = f
          /\ \A k \in 1..(Len(q) + 1) : k = Len(q) + 1 \/ (k \in 1..Len(q) /\ Append(q, f)[k] = q[k])
      OBVIOUS
    <2> DEFINE a == Append(q, f)
    <2>2. /\ DOMAIN a = 1..(Len(q) + 1) /\ a[Len(q) + 1] = f
          /\ \A k \in DOMAIN a : k = Len(q) + 1 \/ (k \in DOMAIN q /\ a[k] = q[k])
      BY <2>1
    <2> HIDE DEF a
    <2> QED
      BY <2>2 DEF OpenOnce, NoFrameOf, IsFrame, a
  <1> QED
    BY <1>1, <1>2

LEMMA NoneRead ==
    ASSUME NEW T, NEW q \in Seq(T), q # <<>>, NEW i, NEW kinds, NoFrameOf(q, kinds, i)
    PROVE  NoFrameOf(Tail(q), kinds, i) /\ (Head(q).t \in kinds => Head(q).id # i)
  <1>1. /\ Len(q) \in Nat \ {0} /\ DOMAIN q = 1..Len(q) /\ Head(q) = q[1]
        /\ DOMAIN Tail(q) = 1..(Len(q) - 1)
        /\ \A k \in 1..(Len(q) - 1) : Tail(q)[k] = q[k + 1]
    OBVIOUS
  <1> QED
    BY <1>1 DEF NoFrameOf

LEMMA NoneSent ==
    ASSUME NEW T, NEW q \in Seq(T), NEW f \in T, NEW i, NEW kinds, NoFrameOf(q, kinds, i),
           f.t \in kinds => f.id # i
    PROVE  NoFrameOf(Append(q, f), kinds, i)
  <1>1. /\ Len(q) \in Nat /\ DOMAIN q = 1..Len(q)
        /\ DOMAIN Append(q, f) = 1..(Len(q) + 1)
        /\ Append(q, f)[Len(q) + 1] = f
        /\ \A k \in 1..Len(q) : Append(q, f)[k] = q[k]
    OBVIOUS
  <1> QED
    BY <1>1 DEF NoFrameOf

LEMMA CarriedRead ==
    ASSUME NEW T, NEW q \in Seq(T), q # <<>>, NEW i, NEW kind, Carries(q, kind, i)
    PROVE  IsFrame(Head(q), kind, i) \/ Carries(Tail(q), kind, i)
  <1>1. /\ Len(q) \in Nat \ {0} /\ DOMAIN q = 1..Len(q) /\ Head(q) = q[1]
        /\ DOMAIN Tail(q) = 1..(Len(q) - 1)
        /\ \A k \in 1..(Len(q) - 1) : Tail(q)[k] = q[k + 1]
    OBVIOUS
  <1>2. PICK k \in 1..Len(q) : IsFrame(q[k], kind, i)
    BY <1>1 DEF Carries
  <1>3. k = 1 \/ (k - 1 \in 1..(Len(q) - 1) /\ Tail(q)[k - 1] = q[k])
    BY <1>1, <1>2
  <1> QED
    BY <1>1, <1>2, <1>3 DEF Carries

LEMMA CarriedSent ==
    ASSUME NEW T, NEW q \in Seq(T), NEW f \in T, NEW i, NEW kind,
           Carries(q, kind, i) \/ IsFrame(f, kind, i)
    PROVE  Carries(Append(q, f), kind, i)
  <1>1. /\ Len(q) \in Nat /\ DOMAIN q = 1..Len(q)
        /\ DOMAIN Append(q, f) = 1..(Len(q) + 1)
        /\ Append(q, f)[Len(q) + 1] = f
        /\ \A k \in 1..Len(q) : Append(q, f)[k] = q[k]
    OBVIOUS
  <1>2. Len(q) + 1 \in 1..(Len(q) + 1) /\ \A k \in 1..Len(q) : k \in 1..(Len(q) + 1)
    BY <1>1
  <1> HIDE DEF IsFrame
  <1> QED
    BY <1>1, <1>2 DEF Carries

----------------------------------------------------------------------------
(* Chunks on the wire: those of stream i are numbered from first to last,  *)
(* each once and in order.                                                 *)
InOrder(q, i, first, last) ==
    /\ \A k \in DOMAIN q : IsData(q[k], i) => q[k].n \in first..last
    /\ \A n \in first..last : \E k \in DOMAIN q : IsData(q[k], i) /\ q[k].n = n
    /\ \A j, k \in DOMAIN q : j < k /\ IsData(q[j], i) /\ IsData(q[k], i) => q[j].n < q[k].n

(* The properties say the same of a channel and a session.                *)
LEMMA InFlightInOrder ==
    ASSUME NEW chan, NEW s, NEW i, NEW first, NEW last
    PROVE  ChunksInFlight(chan, s, i, first, last) <=> InOrder(chan[s], i, first, last)
  BY DEF ChunksInFlight, InFlight, InOrder, IsData, IsFrame

(* A frame is read: one of other streams, or the first chunk of this one.  *)
LEMMA OrderAfterRead ==
    ASSUME NEW T, NEW q \in Seq(T), q # <<>>, NEW i, NEW first \in Nat, NEW last \in Nat,
           InOrder(q, i, first, last)
    PROVE  /\ ~IsData(Head(q), i) => InOrder(Tail(q), i, first, last)
           /\ IsData(Head(q), i) => /\ Head(q).n = first /\ first <= last
                                    /\ InOrder(Tail(q), i, first + 1, last)
  <1> DEFINE t == Tail(q)
  <1>1. /\ Len(q) \in Nat \ {0} /\ DOMAIN q = 1..Len(q) /\ Head(q) = q[1]
        /\ DOMAIN t = 1..(Len(q) - 1)
        /\ \A k \in 1..(Len(q) - 1) : t[k] = q[k + 1]
    OBVIOUS
  <1>2. /\ \A k \in 1..(Len(q) - 1) : k + 1 \in 1..Len(q) /\ t[k] = q[k + 1] /\ 1 < k + 1
        /\ \A k \in 1..Len(q) : k = 1 \/ (k - 1 \in 1..(Len(q) - 1) /\ t[k - 1] = q[k] /\ 1 < k)
        /\ 1 \in 1..Len(q)
    BY <1>1
  <1> HIDE DEF t, IsData
  <1>3. \A j, k \in DOMAIN t : j < k /\ IsData(t[j], i) /\ IsData(t[k], i) => t[j].n < t[k].n
    <2> SUFFICES ASSUME NEW j \in 1..(Len(q) - 1), NEW k \in 1..(Len(q) - 1), j < k,
                        IsData(t[j], i), IsData(t[k], i)
                 PROVE  t[j].n < t[k].n
      BY <1>1
    <2>1. j + 1 < k + 1 /\ j + 1 \in DOMAIN q /\ k + 1 \in DOMAIN q
      BY <1>1
    <2>2. IsData(q[j + 1], i) /\ IsData(q[k + 1], i)
      BY <1>2
    <2>3. q[j + 1].n < q[k + 1].n
      BY <2>1, <2>2 DEF InOrder
    <2> QED
      BY <1>2, <2>3
  <1>4. CASE ~IsData(q[1], i)
    <2>1. \A n \in first..last : \E k \in DOMAIN t : IsData(t[k], i) /\ t[k].n = n
      <3> SUFFICES ASSUME NEW n \in first..last
                   PROVE  \E k \in DOMAIN t : IsData(t[k], i) /\ t[k].n = n
        OBVIOUS
      <3>1. PICK k \in 1..Len(q) : IsData(q[k], i) /\ q[k].n = n
        BY <1>1 DEF InOrder
      <3> QED
        BY <1>1, <1>2, <1>4, <3>1
    <2>2. \A k \in DOMAIN t : IsData(t[k], i) => t[k].n \in first..last
      BY <1>1, <1>2 DEF InOrder
    <2> QED
      BY <1>1, <1>3, <1>4, <2>1, <2>2 DEF InOrder, t
  <1>5. CASE IsData(q[1], i)
    <2>1. \A k \in 2..Len(q) : IsData(q[k], i) => q[1].n < q[k].n
      BY <1>1, <1>2, <1>5 DEF InOrder
    <2>2. q[1].n = first /\ first <= last
      <3>1. q[1].n \in first..last
        BY <1>1, <1>2, <1>5 DEF InOrder
      <3>2. PICK k \in 1..Len(q) : IsData(q[k], i) /\ q[k].n = first
        BY <1>1, <3>1 DEF InOrder
      <3>3. k = 1 \/ q[1].n < first
        BY <1>1, <2>1, <3>2
      <3> QED
        BY <3>1, <3>2, <3>3
    <2>3. \A k \in DOMAIN t : IsData(t[k], i) => t[k].n \in (first + 1)..last
      <3> SUFFICES ASSUME NEW k \in 1..(Len(q) - 1), IsData(t[k], i)
                   PROVE  t[k].n \in (first + 1)..last
        BY <1>1
      <3>1. q[k + 1].n \in first..last /\ first < q[k + 1].n
        BY <1>1, <1>2, <2>1, <2>2 DEF InOrder
      <3> QED
        BY <1>2, <3>1
    <2>4. \A n \in (first + 1)..last : \E k \in DOMAIN t : IsData(t[k], i) /\ t[k].n = n
      <3> SUFFICES ASSUME NEW n \in (first + 1)..last
                   PROVE  \E k \in DOMAIN t : IsData(t[k], i) /\ t[k].n = n
        OBVIOUS
      <3>1. PICK k \in 1..Len(q) : IsData(q[k], i) /\ q[k].n = n
        BY <1>1 DEF InOrder
      <3>2. k # 1
        BY <2>2, <3>1
      <3> QED
        BY <1>1, <1>2, <3>1, <3>2
    <2> QED
      BY <1>1, <1>3, <1>5, <2>2, <2>3, <2>4 DEF InOrder, t
  <1> QED
    BY <1>1, <1>4, <1>5

(* A frame is sent: one of other streams, or the next chunk of this one.   *)
LEMMA OrderAfterSend ==
    ASSUME NEW T, NEW q \in Seq(T), NEW f \in T, NEW i, NEW first \in Nat, NEW last \in Nat,
           first <= last + 1, InOrder(q, i, first, last)
    PROVE  /\ ~IsData(f, i) => InOrder(Append(q, f), i, first, last)
           /\ IsData(f, i) /\ f.n = last + 1 => InOrder(Append(q, f), i, first, last + 1)
  <1> DEFINE a == Append(q, f)
  <1>1. /\ Len(q) \in Nat /\ DOMAIN q = 1..Len(q)
        /\ DOMAIN a = 1..(Len(q) + 1) /\ a[Len(q) + 1] = f
        /\ \A k \in 1..Len(q) : a[k] = q[k] /\ k \in 1..(Len(q) + 1)
        /\ Len(q) + 1 \in 1..(Len(q) + 1)
        /\ \A k \in 1..(Len(q) + 1) : k \in 1..Len(q) \/ k = Len(q) + 1
    OBVIOUS
  <1> HIDE DEF a, IsData
  <1>2. CASE ~IsData(f, i)
    <2>1. \A k \in DOMAIN a : IsData(a[k], i) => k \in DOMAIN q /\ a[k] = q[k]
      BY <1>1, <1>2
    <2> QED
      BY <1>1, <1>2, <2>1 DEF InOrder, a
  <1>3. CASE IsData(f, i) /\ f.n = last + 1
    <2>1. \A k \in DOMAIN a : IsData(a[k], i) => a[k].n \in first..(last + 1)
      <3> SUFFICES ASSUME NEW k \in 1..(Len(q) + 1), IsData(a[k], i)
                   PROVE  a[k].n \in first..(last + 1)
        BY <1>1
      <3>1. CASE k \in 1..Len(q)
        <4>1. a[k].n \in first..last
          BY <1>1, <3>1 DEF InOrder
        <4> QED
          BY <4>1
      <3> QED
        BY <1>1, <1>3, <3>1
    <2>2. \A n \in first..(last + 1) : \E k \in DOMAIN a : IsData(a[k], i) /\ a[k].n = n
      <3> SUFFICES ASSUME NEW n \in first..(last + 1)
                   PROVE  \E k \in DOMAIN a : IsData(a[k], i) /\ a[k].n = n
        OBVIOUS
      <3>1. CASE n \in first..last
        BY <1>1, <3>1 DEF InOrder
      <3>2. CASE n = last + 1
        BY <1>1, <1>3, <3>2
      <3> QED
        BY <3>1, <3>2
    <2>3. \A j, k \in DOMAIN a : j < k /\ IsData(a[j], i) /\ IsData(a[k], i) => a[j].n < a[k].n
      <3> SUFFICES ASSUME NEW j \in 1..(Len(q) + 1), NEW k \in 1..(Len(q) + 1), j < k,
                          IsData(a[j], i), IsData(a[k], i)
                   PROVE  a[j].n < a[k].n
        BY <1>1
      <3>1. j \in 1..Len(q)
        BY <1>1
      <3>2. CASE k \in 1..Len(q)
        BY <1>1, <3>1, <3>2 DEF InOrder
      <3>3. CASE k = Len(q) + 1
        <4>1. a[j].n \in first..last
          BY <1>1, <3>1 DEF InOrder
        <4> QED
          BY <1>1, <1>3, <3>3, <4>1
      <3> QED
        BY <1>1, <3>2, <3>3
    <2> QED
      BY <1>3, <2>1, <2>2, <2>3 DEF InOrder, a
  <1> QED
    BY <1>2, <1>3

LEMMA NothingInOrder ==
    ASSUME NEW q, NEW i, NoFrameOf(q, {"data"}, i)
    PROVE  InOrder(q, i, 1, 0)
  <1>1. \A n \in 1..0 : FALSE
    OBVIOUS
  <1> QED
    BY <1>1 DEF InOrder, NoFrameOf, IsData, IsFrame

----------------------------------------------------------------------------
(* From the driver to the database.  Of the w chunks a driver sent on      *)
(* stream i, the database has got the first ones; while the agent has the  *)
(* connection those on the wire follow, up to the last one that was sent,  *)
(* which is w as long as the stream is held and the wire is up.            *)
Begun(s, i) == gor[s][i] \in {"pumping", "sending", "done"}

WritingOK(s, i, w, held) ==
    /\ Len(dbGot[s][i]) <= w
    /\ \A k \in 1..Len(dbGot[s][i]) : dbGot[s][i][k] = k
    /\ i \in conns[s] =>
          \E last \in Nat :
             /\ Len(dbGot[s][i]) <= last /\ last <= w
             /\ InOrder(toAgent[s], i, Len(dbGot[s][i]) + 1, last)
             /\ i \in held /\ wire[s] = "up" => last = w

LEMMA GotTyped ==
    ASSUME ClientTypeOK, NEW s \in Session, NEW i \in StreamId
    PROVE  /\ dbGot[s][i] \in Seq(Chunk) /\ Len(dbGot[s][i]) \in Nat
           /\ Len(dbGot[s][i]) + 1 \in Nat
  <1>1. dbGot[s][i] \in Seq(Chunk)
    BY DEF ClientTypeOK
  <1>2. Len(dbGot[s][i]) \in Nat
    BY <1>1
  <1> QED
    BY <1>1, <1>2

(* A server step that sends no chunk of the stream.                        *)
LEMMA WritingUndisturbed ==
    ASSUME WireTypeOK, ClientTypeOK, NEW s \in Session, NEW i \in StreamId, NEW w \in Nat,
           NEW held, NEW kept, i \in kept => i \in held, WritingOK(s, i, w, held),
           UNCHANGED clientVars, wire'[s] = "up" => wire[s] = "up",
           \/ toAgent'[s] = toAgent[s]
           \/ \E f \in ServerFrame : toAgent'[s] = Append(toAgent[s], f) /\ ~IsData(f, i)
    PROVE  WritingOK(s, i, w, kept)'
  <1>1. UNCHANGED <<conns, dbGot>> /\ toAgent[s] \in Seq(ServerFrame)
    BY DEF clientVars, WireTypeOK
  <1>2. ASSUME NEW last \in Nat, Len(dbGot[s][i]) <= last,
               InOrder(toAgent[s], i, Len(dbGot[s][i]) + 1, last)
        PROVE  InOrder(toAgent'[s], i, Len(dbGot[s][i]) + 1, last)
    <2> DEFINE n == Len(dbGot[s][i]) + 1
    <2>1. n \in Nat /\ n <= last + 1
      BY <1>2, GotTyped
    <2> HIDE DEF n
    <2>2. InOrder(toAgent[s], i, n, last)
      BY <1>2 DEF n
    <2>3. InOrder(toAgent'[s], i, n, last)
      BY <1>1, <2>1, <2>2, OrderAfterSend
    <2> QED
      BY <2>3 DEF n
  <1> QED
    BY <1>1, <1>2 DEF WritingOK

(* A server step that sends the driver's next chunk, or loses it.          *)
LEMMA WritingGoesOn ==
    ASSUME WireTypeOK, ClientTypeOK, NEW s \in Session, NEW i \in StreamId, NEW w \in Nat,
           NEW held, WritingOK(s, i, w, held), UNCHANGED clientVars, wire'[s] = wire[s],
           NEW f \in ServerFrame, IsData(f, i), f.n = w + 1,
           toAgent'[s] = IF i \in held /\ wire[s] = "up" THEN Append(toAgent[s], f) ELSE toAgent[s]
    PROVE  WritingOK(s, i, w + 1, held)'
  <1>1. UNCHANGED <<conns, dbGot>> /\ toAgent[s] \in Seq(ServerFrame) /\ w <= w + 1
    BY DEF clientVars, WireTypeOK
  <1> DEFINE l == Len(dbGot[s][i])
  <1>2. l \in Nat /\ l + 1 \in Nat /\ l <= w /\ l <= w + 1
    BY GotTyped DEF WritingOK
  <1> HIDE DEF l
  <1>3. CASE i \in conns[s]
    <2>1. PICK last \in Nat : /\ l <= last /\ last <= w /\ InOrder(toAgent[s], i, l + 1, last)
                              /\ i \in held /\ wire[s] = "up" => last = w
      BY <1>3 DEF WritingOK, l
    <2>2. last <= w + 1 /\ l + 1 <= last + 1
      BY <1>2, <2>1
    <2>3. CASE i \in held /\ wire[s] = "up"
      <3>1. InOrder(toAgent'[s], i, l + 1, w + 1)
        BY <1>1, <1>2, <2>1, <2>2, <2>3, OrderAfterSend
      <3> QED
        BY <1>1, <1>2, <2>3, <3>1 DEF WritingOK, l
    <2>4. CASE ~(i \in held /\ wire[s] = "up")
      BY <1>1, <1>2, <2>1, <2>2, <2>4 DEF WritingOK, l
    <2> QED
      BY <2>3, <2>4
  <1> QED
    BY <1>1, <1>2, <1>3 DEF WritingOK, l

(* A step of the agent: it may take the next chunk off the wire and hand   *)
(* it to the database, and it registers no connection that chunks of an    *)
(* earlier one could reach.                                                *)
LEMMA AgentKeepsWriting ==
    ASSUME WireTypeOK, ClientTypeOK, NEW s \in Session, ClientStep(s),
           NEW r \in Session, NEW j \in StreamId, NEW w \in Nat, NEW held,
           WritingOK(r, j, w, held), cl[r] = "new" => j \notin conns[r],
           gor[r][j] = "dialing" => NoFrameOf(toAgent[r], {"data"}, j) /\ dbGot[r][j] = <<>> /\ w = 0
    PROVE  WritingOK(r, j, w, held)'
  <1> DEFINE p == toAgent[r]
             l == Len(dbGot[r][j])
  <1>1. /\ conns \in [Session -> SUBSET StreamId] /\ cl \in [Session -> {"new", "running", "ended"}]
        /\ DOMAIN dbGot = Session /\ \A q \in Session : DOMAIN dbGot[q] = StreamId
        /\ DOMAIN wire = Session
    BY DEF ClientTypeOK, WireTypeOK
  <1>2. p \in Seq(ServerFrame) /\ dbGot[r][j] \in Seq(Chunk) /\ l \in Nat /\ l + 1 \in Nat
    BY GotTyped DEF WireTypeOK
  <1>3. l <= w /\ \A k \in 1..l : dbGot[r][j][k] = k
    BY DEF WritingOK
  <1> HIDE DEF p, l
  <1>4. ASSUME dbGot'[r][j] = dbGot[r][j],
               j \in conns'[r] => /\ j \in conns[r] /\ wire'[r] = wire[r]
                                  /\ \/ toAgent'[r] = p
                                     \/ p # <<>> /\ toAgent'[r] = Tail(p) /\ ~IsData(Head(p), j)
        PROVE  WritingOK(r, j, w, held)'
    <2>1. ASSUME j \in conns'[r]
          PROVE  \E last \in Nat :
                    /\ l <= last /\ last <= w /\ InOrder(toAgent'[r], j, l + 1, last)
                    /\ j \in held /\ wire'[r] = "up" => last = w
      <3>1. PICK last \in Nat : /\ l <= last /\ last <= w /\ InOrder(p, j, l + 1, last)
                                /\ j \in held /\ wire[r] = "up" => last = w
        BY <1>4, <2>1 DEF WritingOK, l, p
      <3>2. InOrder(toAgent'[r], j, l + 1, last)
        BY <1>2, <1>4, <2>1, <3>1, OrderAfterRead
      <3> QED
        BY <1>4, <2>1, <3>1, <3>2
    <2> QED
      BY <1>3, <1>4, <2>1 DEF WritingOK, l
  <1>5. CASE ClientDial(s)
    BY <1>1, <1>4, <1>5 DEF ClientDial, p
  <1>6. CASE ClientEnds(s)
    <2>1. dbGot'[r][j] = dbGot[r][j] /\ r = s => j \notin conns'[r]
      BY <1>1, <1>6 DEF ClientEnds
    <2>2. r # s => conns'[r] = conns[r] /\ wire'[r] = wire[r] /\ toAgent'[r] = p
      BY <1>1, <1>6 DEF ClientEnds, WireDown, WireTypeOK, p
    <2> QED
      BY <1>4, <1>6, <2>1, <2>2 DEF ClientEnds
  <1>7. CASE HandleReady(s) \/ HandleOpen(s) \/ HandleServerClose(s)
    <2>1. /\ UNCHANGED <<wire, dbGot>> /\ toAgent[s] # <<>> /\ Head(toAgent[s]).t # "data"
          /\ toAgent' = Dropped(toAgent, s)
      BY <1>7 DEF HandleReady, HandleOpen, HandleServerClose, Reads, NextIs
    <2>2. conns' = conns \/ \E i : conns' = [conns EXCEPT ![s] = conns[s] \ {i}]
      BY <1>7 DEF HandleReady, HandleOpen, HandleServerClose
    <2>3. conns'[r] \subseteq conns[r]
      BY <1>1, <2>2
    <2>4. toAgent'[r] = IF r = s THEN Tail(toAgent[s]) ELSE toAgent[r]
      BY <2>1, ChannelEnds
    <2> QED
      BY <1>4, <2>1, <2>3, <2>4 DEF IsData, IsFrame, p
  <1>8. CASE HandleData(s)
    <2> DEFINE i == Head(toAgent[s]).id
    <2>1. /\ UNCHANGED wire /\ toAgent[s] # <<>> /\ toAgent' = Dropped(toAgent, s)
          /\ Head(toAgent[s]).t = "data"
      BY <1>8 DEF HandleData, Reads, NextIs
    <2>2. /\ toAgent'[r] = IF r = s THEN Tail(toAgent[s]) ELSE toAgent[r]
          /\ i \in StreamId /\ Head(toAgent[s]).n \in Chunk
      BY <2>1, ChannelEnds, TakenFromAgent, FrameFields
    <2>3. CASE DropAndNotify(s, i) /\ UNCHANGED dbGot
      <3>1. conns'[r] = IF r = s THEN conns[s] \ {i} ELSE conns[r]
        BY <1>1, <2>3 DEF DropAndNotify
      <3> QED
        BY <1>4, <2>1, <2>2, <2>3, <3>1 DEF IsData, IsFrame, p
    <2>4. CASE i \notin conns[s] /\ UNCHANGED <<conns, dbGot>>
      BY <1>4, <2>1, <2>2, <2>4 DEF IsData, IsFrame, p
    <2>5. CASE /\ i \in conns[s] /\ UNCHANGED conns
               /\ dbGot' = [dbGot EXCEPT ![s][i] = Append(@, Head(toAgent[s]).n)]
      <3>1. CASE r = s /\ j = i
        <4> DEFINE h == Head(p)
        <4>1. p # <<>> /\ IsData(h, j) /\ h.n \in Chunk /\ j \in conns[r] /\ toAgent'[r] = Tail(p)
          BY <2>1, <2>2, <2>5, <3>1 DEF IsData, IsFrame, p
        <4>2. dbGot'[r][j] = Append(dbGot[r][j], h.n)
          BY <1>1, <2>5, <3>1 DEF p
        <4>3. PICK last \in Nat : /\ l <= last /\ last <= w /\ InOrder(p, j, l + 1, last)
                                  /\ j \in held /\ wire[r] = "up" => last = w
          BY <4>1 DEF WritingOK, l, p
        <4>4. h.n = l + 1 /\ l + 1 <= last /\ InOrder(Tail(p), j, l + 1 + 1, last)
          BY <1>2, <4>1, <4>3, OrderAfterRead
        <4> HIDE DEF h
        <4>5. Len(dbGot'[r][j]) = l + 1 /\ \A k \in 1..(l + 1) : dbGot'[r][j][k] = k
          BY <1>2, <1>3, <4>1, <4>2, <4>4 DEF l
        <4>6. l + 1 <= w
          BY <1>2, <4>3, <4>4
        <4> QED
          BY <2>1, <4>1, <4>3, <4>4, <4>5, <4>6 DEF WritingOK
      <3>2. CASE ~(r = s /\ j = i)
        <4>1. dbGot'[r][j] = dbGot[r][j]
          BY <1>1, <2>2, <2>5, <3>2
        <4> QED
          BY <1>4, <2>1, <2>2, <2>5, <3>2, <4>1 DEF IsData, IsFrame, p
      <3> QED
        BY <3>1, <3>2
    <2> QED
      BY <1>8, <2>3, <2>4, <2>5 DEF HandleData
  <1>9. ASSUME NEW i \in StreamId, StreamGoroutine(s, i)
        PROVE  WritingOK(r, j, w, held)'
    <2>1. UNCHANGED <<wire, toAgent, dbGot>>
      BY <1>9 DEF StreamGoroutine, DialFails, DialSucceeds, SendOpened, PumpReads, PumpSends,
         DatabaseCloses, PumpStops
    <2>2. \/ conns' = conns \/ conns' = [conns EXCEPT ![s] = conns[s] \ {i}]
          \/ conns' = [conns EXCEPT ![s] = conns[s] \cup {i}] /\ gor[s][i] = "dialing"
      BY <1>9 DEF StreamGoroutine, DialFails, DialSucceeds, SendOpened, PumpReads, PumpSends,
         DatabaseCloses, PumpStops, DropAndNotify
    <2>3. CASE j \in conns'[r] => j \in conns[r]
      BY <1>4, <2>1, <2>3 DEF p
    <2>4. CASE j \in conns'[r] /\ j \notin conns[r]
      <3>1. r = s /\ j = i /\ gor[r][j] = "dialing"
        BY <1>1, <2>2, <2>4
      <3>2. InOrder(p, j, 1, 0) /\ dbGot[r][j] = <<>> /\ w = 0
        BY <3>1, NothingInOrder DEF p
      <3>3. l = 0
        BY <3>2 DEF l
      <3> QED
        BY <1>3, <2>1, <3>2, <3>3 DEF WritingOK, p, l
    <2> QED
      BY <2>3, <2>4
  <1> QED
    BY <1>5, <1>6, <1>7, <1>8, <1>9 DEF ClientStep, ClientReads

(* Until a stream's goroutine has answered, nothing but its open has been  *)
(* on the wire, and until it has dialled there is no connection.           *)
AnswerOK(s, i) ==
    /\ gor[s][i] \in {"none", "dialing"} => i \notin conns[s]
    /\ ~Begun(s, i) => /\ NoFrameOf(toServer[s], {"opened"}, i)
                       /\ NoFrameOf(toAgent[s], {"data"}, i) /\ dbGot[s][i] = <<>>

LEMMA AgentKeepsAnswer ==
    ASSUME WireTypeOK, ClientTypeOK, ChunkInHand, NEW s \in Session, ClientStep(s),
           NEW r \in Session, NEW j \in StreamId, AnswerOK(r, j),
           gor[r][j] # "none" => NoFrameOf(toAgent[r], {"open"}, j)
    PROVE  AnswerOK(r, j)' /\ (Begun(r, j) => Begun(r, j)')
  <1> DEFINE q == toServer[r]
             p == toAgent[r]
  <1>1. /\ conns \in [Session -> SUBSET StreamId] /\ q \in Seq(AgentFrame) /\ p \in Seq(ServerFrame)
        /\ gor \in [Session -> [StreamId -> {"none", "dialing", "registered", "pumping", "sending", "done"}]]
        /\ DOMAIN dbGot = Session /\ \A k \in Session : DOMAIN dbGot[k] = StreamId
        /\ DOMAIN toServer = Session /\ DOMAIN toAgent = Session
        /\ dbSent \in [Session -> [StreamId -> 0..MaxChunks]]
    BY DEF ClientTypeOK, WireTypeOK
  <1> DEFINE Told(x) == \/ x = q \/ x = <<Hello>>
                        \/ \E f \in AgentFrame : x = Append(q, f) /\ ~IsFrame(f, "opened", j)
             Read(x) == x = p \/ x = <<>> \/ (p # <<>> /\ x = Tail(p))
  <1> HIDE DEF q, p
  <1>2. ASSUME gor'[r][j] = gor[r][j] \/ (Begun(r, j) /\ gor'[r][j] \in {"pumping", "sending", "done"})
                  \/ (gor[r][j] = "none" /\ gor'[r][j] = "dialing"),
               j \in conns'[r] => j \in conns[r],
               Told(toServer'[r]), Read(toAgent'[r]), Begun(r, j) \/ dbGot'[r][j] = dbGot[r][j]
        PROVE  AnswerOK(r, j)' /\ (Begun(r, j) => Begun(r, j)')
    <2>1. Begun(r, j)' <=> Begun(r, j)
      BY <1>2 DEF Begun
    <2>2. gor'[r][j] \in {"none", "dialing"} => j \notin conns'[r]
      BY <1>2 DEF AnswerOK, Begun
    <2>3. NoFrameOf(q, {"opened"}, j) => NoFrameOf(toServer'[r], {"opened"}, j)
      <3>1. NoFrameOf(<<Hello>>, {"opened"}, j)
        BY DEF NoFrameOf, Hello
      <3>2. ASSUME NEW f \in AgentFrame, ~IsFrame(f, "opened", j), NoFrameOf(q, {"opened"}, j)
            PROVE  NoFrameOf(Append(q, f), {"opened"}, j)
        BY <1>1, <3>2, NoneSent DEF IsFrame
      <3> QED
        BY <1>2, <3>1, <3>2
    <2>4. NoFrameOf(p, {"data"}, j) => NoFrameOf(toAgent'[r], {"data"}, j)
      <3>1. NoFrameOf(<<>>, {"data"}, j)
        BY DEF NoFrameOf
      <3>2. p # <<>> /\ NoFrameOf(p, {"data"}, j) => NoFrameOf(Tail(p), {"data"}, j)
        BY <1>1, NoneRead
      <3> QED
        BY <1>2, <3>1, <3>2
    <2> QED
      BY <1>2, <2>1, <2>2, <2>3, <2>4 DEF AnswerOK, p, q
  <1>3. ASSUME NEW f \in AgentFrame, toServer' = toServer \/ toServer' = Sent(toServer, s, f),
               r = s => ~IsFrame(f, "opened", j)
        PROVE  Told(toServer'[r])
    <2>1. toServer' = Sent(toServer, s, f) =>
             toServer'[r] = IF r = s /\ wire[s] = "up" THEN Append(q, f) ELSE q
      BY <1>1, ChannelEnds DEF q
    <2> QED
      BY <1>3, <2>1 DEF q
  <1>4. CASE ClientDial(s)
    <2>1. toServer'[r] = IF r = s THEN <<Hello>> ELSE q
      BY <1>1, <1>4 DEF ClientDial, q
    <2>2. UNCHANGED <<gor, conns, dbGot, toAgent>>
      BY <1>4 DEF ClientDial
    <2> QED
      BY <1>2, <2>1, <2>2 DEF p
  <1>5. CASE ClientEnds(s)
    <2>1. toAgent'[r] = IF r = s THEN <<>> ELSE p
      BY <1>1, <1>5 DEF ClientEnds, p
    <2>2. UNCHANGED <<gor, dbGot, toServer>> /\ conns'[r] \subseteq conns[r]
      BY <1>1, <1>5 DEF ClientEnds
    <2> QED
      BY <1>2, <2>1, <2>2 DEF q
  <1>6. CASE ClientReads(s)
    <2> DEFINE i == Head(toAgent[s]).id
    <2>1. toAgent[s] # <<>> /\ toAgent' = Dropped(toAgent, s)
      BY <1>6 DEF ClientReads, HandleReady, HandleOpen, HandleServerClose, HandleData, Reads, NextIs
    <2>2. /\ toAgent'[r] = IF r = s THEN Tail(toAgent[s]) ELSE toAgent[r]
          /\ Read(toAgent'[r]) /\ toAgent[s] \in Seq(ServerFrame)
      <3>1. toAgent'[r] = IF r = s THEN Tail(toAgent[s]) ELSE toAgent[r]
        BY <2>1, ChannelEnds
      <3> QED
        BY <2>1, <3>1 DEF p, WireTypeOK
    <2>3. CASE HandleReady(s)
      BY <1>2, <2>2, <2>3 DEF HandleReady, q
    <2>4. CASE HandleOpen(s)
      <3>1. Head(toAgent[s]).t = "open" /\ i \in StreamId /\ UNCHANGED <<conns, dbGot>>
        BY <2>1, <2>4, TakenFromAgent, FrameFields DEF HandleOpen, Reads, NextIs
      <3>2. OpenErr(i) \in AgentFrame /\ OpenErr(i).t = "openerr"
        BY <3>1, FramesAreTyped DEF OpenErr
      <3>3. r = s /\ j = i => gor[r][j] = "none"
        BY <2>1, <2>2, <3>1, NoneRead
      <3>4. /\ gor' = gor \/ gor' = [gor EXCEPT ![s][i] = "dialing"]
            /\ toServer' = toServer \/ toServer' = Sent(toServer, s, OpenErr(i))
        BY <2>4 DEF HandleOpen
      <3> HIDE DEF i, OpenErr, Told, Read
      <3>5. Told(toServer'[r])
        BY <1>3, <3>2, <3>4 DEF IsFrame
      <3>6. gor'[r][j] = gor[r][j] \/ (gor[r][j] = "none" /\ gor'[r][j] = "dialing")
        BY <1>1, <3>1, <3>3, <3>4
      <3> QED
        BY <1>2, <2>2, <3>1, <3>5, <3>6
    <2>5. CASE HandleServerClose(s)
      <3>1. /\ conns' = [conns EXCEPT ![s] = conns[s] \ {i}] /\ UNCHANGED <<gor, dbGot, toServer>>
        BY <2>5 DEF HandleServerClose
      <3>2. conns'[r] \subseteq conns[r]
        BY <1>1, <3>1
      <3> QED
        BY <1>2, <2>2, <3>1, <3>2 DEF q
    <2>6. CASE HandleData(s)
      <3>1. Head(toAgent[s]).t = "data" /\ i \in StreamId /\ gor' = gor
        BY <2>1, <2>6, TakenFromAgent, FrameFields DEF HandleData, Reads, NextIs
      <3>2. r = s /\ j = i => Begun(r, j)
        <4>1. Head(toAgent[s]).id = i
          OBVIOUS
        <4> HIDE DEF i
        <4>2. ~NoFrameOf(toAgent[s], {"data"}, i)
          BY <2>1, <2>2, <3>1, <4>1, NoneRead
        <4> QED
          BY <4>2 DEF AnswerOK
      <3>3. Close(i) \in AgentFrame /\ Close(i).t = "close"
        BY <3>1, FramesAreTyped DEF Close
      <3>4. /\ toServer' = toServer \/ toServer' = Sent(toServer, s, Close(i))
            /\ conns' = conns \/ conns' = [conns EXCEPT ![s] = conns[s] \ {i}]
            /\ dbGot' = dbGot \/ dbGot' = [dbGot EXCEPT ![s][i] = Append(@, Head(toAgent[s]).n)]
        BY <2>6 DEF HandleData, DropAndNotify
      <3> HIDE DEF i, Close, Told, Read
      <3>5. Told(toServer'[r])
        BY <1>3, <3>3, <3>4 DEF IsFrame
      <3>6. conns'[r] \subseteq conns[r] /\ (dbGot'[r][j] = dbGot[r][j] \/ (r = s /\ j = i))
        BY <1>1, <3>1, <3>4
      <3> QED
        BY <1>2, <2>2, <3>1, <3>2, <3>5, <3>6
    <2> QED
      BY <1>6, <2>3, <2>4, <2>5, <2>6 DEF ClientReads
  <1>7. ASSUME NEW i \in StreamId, StreamGoroutine(s, i)
        PROVE  AnswerOK(r, j)' /\ (Begun(r, j) => Begun(r, j)')
    <2>1. UNCHANGED <<toAgent, dbGot>>
      BY <1>7 DEF StreamGoroutine, DialFails, DialSucceeds, SendOpened, PumpReads, PumpSends,
         DatabaseCloses, PumpStops
    <2>2. Read(toAgent'[r])
      BY <2>1 DEF p
    <2>3. CASE DialFails(s, i) \/ DialSucceeds(s, i)
      <3>1. /\ OpenErr(i) \in AgentFrame /\ OpenErr(i).t = "openerr" /\ gor[s][i] = "dialing"
            /\ toServer' = toServer \/ toServer' = Sent(toServer, s, OpenErr(i))
        BY <2>3, FramesAreTyped DEF DialFails, DialSucceeds, OpenErr
      <3>2. \/ gor' = [gor EXCEPT ![s][i] = "done"] /\ conns' = conns
            \/ gor' = [gor EXCEPT ![s][i] = "registered"] /\ conns' = [conns EXCEPT ![s] = conns[s] \cup {i}]
        BY <2>3 DEF DialFails, DialSucceeds
      <3> HIDE DEF OpenErr, Told, Read
      <3>3. Told(toServer'[r])
        BY <1>3, <3>1 DEF IsFrame
      <3>4. CASE r = s /\ j = i
        <4>1. gor'[r][j] \in {"done", "registered"} /\ ~Begun(r, j)
          BY <1>1, <3>1, <3>2, <3>4 DEF Begun
        <4>2. NoFrameOf(toServer'[r], {"opened"}, j)
          <5>1. ASSUME NEW f \in AgentFrame, ~IsFrame(f, "opened", j), NoFrameOf(q, {"opened"}, j)
                PROVE  NoFrameOf(Append(q, f), {"opened"}, j)
            BY <1>1, <5>1, NoneSent DEF IsFrame
          <5>2. NoFrameOf(q, {"opened"}, j) /\ NoFrameOf(<<Hello>>, {"opened"}, j)
            BY <4>1 DEF AnswerOK, NoFrameOf, Hello, q
          <5> QED
            BY <3>3, <5>1, <5>2 DEF Told
        <4> QED
          BY <2>1, <4>1, <4>2 DEF AnswerOK
      <3>5. CASE ~(r = s /\ j = i)
        <4>1. gor'[r][j] = gor[r][j] /\ (j \in conns'[r] => j \in conns[r])
          BY <1>1, <3>2, <3>5
        <4> QED
          BY <1>2, <2>1, <2>2, <3>3, <4>1
      <3> QED
        BY <3>4, <3>5
    <2>4. CASE SendOpened(s, i)
      <3>1. /\ Opened(i) \in AgentFrame /\ Opened(i).id = i /\ conns' = conns
            /\ gor' = [gor EXCEPT ![s][i] = "pumping"] /\ toServer' = Sent(toServer, s, Opened(i))
        BY <2>4, FramesAreTyped DEF SendOpened, Opened
      <3> HIDE DEF Opened, Told, Read
      <3>2. CASE r = s /\ j = i
        <4>1. gor'[r][j] = "pumping"
          BY <1>1, <3>1, <3>2
        <4> QED
          BY <4>1 DEF AnswerOK, Begun
      <3>3. CASE ~(r = s /\ j = i)
        <4>1. gor'[r][j] = gor[r][j] /\ Told(toServer'[r])
          BY <1>1, <1>3, <3>1, <3>3 DEF IsFrame
        <4> QED
          BY <1>2, <2>1, <2>2, <3>1, <4>1
      <3> QED
        BY <3>2, <3>3
    <2>5. CASE PumpReads(s, i) \/ PumpSends(s, i) \/ DatabaseCloses(s, i) \/ PumpStops(s, i)
      <3>1. /\ gor[s][i] \in {"pumping", "sending"}
            /\ \E g \in {"pumping", "sending", "done"} : gor' = [gor EXCEPT ![s][i] = g]
            /\ conns' = conns \/ conns' = [conns EXCEPT ![s] = conns[s] \ {i}]
            /\ \/ toServer' = toServer \/ toServer' = Sent(toServer, s, Close(i))
               \/ gor[s][i] = "sending" /\ toServer' = Sent(toServer, s, Data(i, dbSent[s][i]))
        BY <2>5 DEF PumpReads, PumpSends, DatabaseCloses, PumpStops, DropAndNotify
      <3>2. /\ Close(i) \in AgentFrame /\ Close(i).t = "close"
            /\ gor[s][i] = "sending" =>
                  Data(i, dbSent[s][i]) \in AgentFrame /\ Data(i, dbSent[s][i]).t = "data"
        <4>1. gor[s][i] = "sending" => dbSent[s][i] \in Chunk
          BY <1>1, WireAssumption DEF ChunkInHand, Chunk
        <4> QED
          BY <4>1, FramesAreTyped DEF Close, Data
      <3> HIDE DEF Close, Data, Told, Read
      <3>3. Told(toServer'[r])
        BY <1>3, <3>1, <3>2 DEF IsFrame
      <3>4. /\ gor'[r][j] = gor[r][j] \/ (Begun(r, j) /\ gor'[r][j] \in {"pumping", "sending", "done"})
            /\ conns'[r] \subseteq conns[r]
        BY <1>1, <3>1 DEF Begun
      <3> QED
        BY <1>2, <2>1, <2>2, <3>3, <3>4
    <2> QED
      BY <1>7, <2>3, <2>4, <2>5 DEF StreamGoroutine
  <1> QED
    BY <1>4, <1>5, <1>6, <1>7 DEF ClientStep
=============================================================================
