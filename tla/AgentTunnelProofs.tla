-------------------------- MODULE AgentTunnelProofs --------------------------
(***************************************************************************)
(* Theorems about the v1 tunnel for any set of sessions and any bounds.    *)
(***************************************************************************)
EXTENDS AgentTunnel, AgentClientProofs

LEMMA InitTypeOK == Init => TypeOK
  BY WireAssumption DEF Init, WireInit, ServerInit, ClientInit, TypeOK, WireTypeOK,
     ServerTypeOK, ClientTypeOK, SocketState

(* TornDown only takes from the tables and moves bridges to "done".        *)
LEMMA TornDownTyped ==
    ASSUME ServerTypeOK, NEW S, TornDown(S)
    PROVE  /\ pending' \in [Session -> SUBSET StreamId]
           /\ streams' \in [Session -> SUBSET StreamId]
           /\ closed' \in [Session -> SUBSET StreamId]
           /\ bridge' \in [Session -> [StreamId -> {"none", "opening", "opened", "wired", "done"}]]
           /\ sock' \in [Session -> [StreamId -> SocketState]]
  <1> USE DEF ServerTypeOK, TornDown, SocketState
  <1>1. pending' \in [Session -> SUBSET StreamId] /\ streams' \in [Session -> SUBSET StreamId]
    OBVIOUS
  <1>2. closed' \in [Session -> SUBSET StreamId]
    OBVIOUS
  <1>3. bridge' \in [Session -> [StreamId -> {"none", "opening", "opened", "wired", "done"}]]
    OBVIOUS
  <1>4. sock' \in [Session -> [StreamId -> SocketState]]
    OBVIOUS
  <1> QED
    BY <1>1, <1>2, <1>3, <1>4

ServerStep(s) ==
    \/ Accept(s) \/ AuthOk(s) \/ AuthRejects(s) \/ FrameUnheard(s)
    \/ Hearing(s) \/ SendReady(s) \/ SocketCloses(s) \/ OpenStream(s)
    \/ \E i \in StreamId : Bridging(s, i)

LEMMA ServerTypeStep ==
    ASSUME WireTypeOK, ServerTypeOK, NEW s \in Session, ServerStep(s)
    PROVE  WireTypeOK' /\ ServerTypeOK'
  <1> USE DEF WireTypeOK, ServerTypeOK, streamVars, wireVars, serverVars
  <1>0. \A f \in ServerFrame : Sent(toAgent, s, f) \in [Session -> Seq(ServerFrame)]
    BY SentToAgent
  <1>1. CASE Accept(s) \/ AuthOk(s) \/ AuthRejects(s)
    <2>1. CASE Accept(s)
      BY <2>1 DEF Accept
    <2>2. CASE AuthOk(s)
      BY <2>2 DEF AuthOk
    <2>3. CASE AuthRejects(s)
      BY <2>3 DEF AuthRejects, WireDown
    <2> QED
      BY <1>1, <2>1, <2>2, <2>3
  <1>2. CASE FrameUnheard(s)
    BY <1>2, TakenFromServer DEF FrameUnheard
  <1>3. CASE SendReady(s)
    BY <1>0, <1>3, FramesAreTyped DEF SendReady
  <1>4. CASE SocketCloses(s)
    <2>1. CASE HoldsPlace(s)
      <3>1. /\ TornDown({s}) /\ agent' = NoSession
            /\ conn' = [conn EXCEPT ![s] = "torn"]
        BY <1>4, <2>1 DEF SocketCloses
      <3>2. /\ wire' \in [Session -> {"idle", "up", "down"}]
            /\ toServer' \in [Session -> Seq(AgentFrame)]
            /\ sv' \in [Session -> {"new", "auth", "serving", "closed"}]
            /\ UNCHANGED <<toAgent, minting, seq, written, got>>
        BY <1>4 DEF SocketCloses, WireDown
      <3> QED
        BY <3>1, <3>2, TornDownTyped
    <2>2. CASE ~HoldsPlace(s)
      BY <1>4, <2>2 DEF SocketCloses, WireDown
    <2> QED
      BY <2>1, <2>2
  <1>5. CASE OpenStream(s)
    <2> DEFINE i == NextId(s)
    <2>1. i \in StreamId /\ seq[s] + 1 \in 0..MaxOpens
      BY <1>5, WireAssumption DEF OpenStream, NextId, StreamId
    <2>2. Sent(toAgent, s, Open(i)) \in [Session -> Seq(ServerFrame)]
      BY <1>0, <2>1, FramesAreTyped
    <2> HIDE DEF i
    <2>3. /\ [seq EXCEPT ![s] = @ + 1] \in [Session -> 0..MaxOpens]
          /\ [streams EXCEPT ![s] = @ \cup {i}] \in [Session -> SUBSET StreamId]
          /\ [pending EXCEPT ![s] = @ \cup {i}] \in [Session -> SUBSET StreamId]
          /\ [bridge EXCEPT ![s][i] = "opening"]
                \in [Session -> [StreamId -> {"none", "opening", "opened", "wired", "done"}]]
          /\ [sock EXCEPT ![s][i] = "open"] \in [Session -> [StreamId -> SocketState]]
      BY <2>1 DEF SocketState
    <2> QED
      BY <1>5, <2>2, <2>3 DEF OpenStream, i
  <1>6. CASE Hearing(s)
    <2> DEFINE f == Head(toServer[s])
    <2>1. toServer[s] # <<>> /\ f.t \in {"hello", "opened", "openerr", "close", "data"}
      BY <1>6 DEF Hearing, OnHello, OnOpened, OnOpenErr, OnClose, OnData, Hears, NextIs
    <2>2. Dropped(toServer, s) \in [Session -> Seq(AgentFrame)] /\ f \in AgentFrame
      BY <2>1, TakenFromServer
    <2>3. CASE OnHello(s)
      <3>1. CASE conn[s] # "none"
        BY <2>2, <2>3, <3>1 DEF OnHello
      <3>2. CASE conn[s] = "none"
        <4>1. TornDown(Replaced(s)) /\ agent' = s
          BY <2>3, <3>2 DEF OnHello
        <4>3. conn' \in [Session -> {"none", "live", "torn"}]
          <5>1. conn' = [r \in Session |->
                   IF r = s THEN "live" ELSE IF r = agent THEN "torn" ELSE conn[r]]
            BY <2>3, <3>2 DEF OnHello
          <5> QED
            BY <5>1
        <4>4. minting' \in [Session -> BOOLEAN]
          <5>1. minting' = [minting EXCEPT ![s] = TRUE]
            BY <2>3, <3>2 DEF OnHello
          <5> QED
            BY <5>1
        <4>2. toServer' = Dropped(toServer, s) /\ UNCHANGED <<wire, toAgent, sv, seq, written, got>>
          BY <2>3, <3>2 DEF OnHello
        <4> QED
          BY <2>2, <4>1, <4>2, <4>3, <4>4, TornDownTyped
      <3> QED
        BY <3>1, <3>2
    <2>4. CASE OnOpened(s)
      <3>1. f.id \in StreamId
        BY <2>2, <2>4, FrameFields DEF OnOpened, Hears, NextIs
      <3>2. [bridge EXCEPT ![s][f.id] = "opened"]
               \in [Session -> [StreamId -> {"none", "opening", "opened", "wired", "done"}]]
        BY <3>1
      <3> QED
        <4>1. toServer' = Dropped(toServer, s)
              /\ UNCHANGED <<wire, toAgent, sv, agent, conn, minting, seq, streams, closed, sock,
                             written, got>>
          BY <2>4 DEF OnOpened
        <4>2. CASE /\ pending' = [pending EXCEPT ![s] = @ \ {f.id}]
                   /\ bridge' = [bridge EXCEPT ![s][f.id] = "opened"]
          BY <2>2, <3>2, <4>1, <4>2
        <4>3. CASE UNCHANGED <<pending, bridge>>
          BY <2>2, <4>1, <4>3
        <4> QED
          BY <2>4, <4>2, <4>3 DEF OnOpened
    <2>5. CASE OnOpenErr(s)
      <3>1. f.id \in StreamId
        BY <2>2, <2>5, FrameFields DEF OnOpenErr, Hears, NextIs
      <3>2. CASE Rejected(s, f.id)
        BY <2>2, <2>5, <3>1, <3>2 DEF OnOpenErr, Rejected, SocketState
      <3>3. CASE UNCHANGED <<pending, streams, bridge, sock>>
        BY <2>2, <2>5, <3>3 DEF OnOpenErr
      <3> QED
        BY <2>5, <3>2, <3>3 DEF OnOpenErr
    <2>6. CASE OnClose(s)
      <3>1. f.id \in StreamId
        BY <2>2, <2>6, FrameFields DEF OnClose, Hears, NextIs
      <3>2. /\ [bridge EXCEPT ![s][f.id] = "done"]
               \in [Session -> [StreamId -> {"none", "opening", "opened", "wired", "done"}]]
            /\ [sock EXCEPT ![s][f.id] = "gone"] \in [Session -> [StreamId -> SocketState]]
            /\ [closed EXCEPT ![s] = @ \cup {f.id}] \in [Session -> SUBSET StreamId]
            /\ [streams EXCEPT ![s] = @ \ {f.id}] \in [Session -> SUBSET StreamId]
        BY <3>1 DEF SocketState
      <3> QED
        <4>1. toServer' = Dropped(toServer, s)
              /\ UNCHANGED <<wire, toAgent, sv, agent, conn, minting, seq, pending, written, got>>
          BY <2>6 DEF OnClose
        <4>2. /\ closed' \in [Session -> SUBSET StreamId]
              /\ streams' \in [Session -> SUBSET StreamId]
          BY <2>6, <3>2 DEF OnClose
        <4>3. /\ bridge' \in [Session -> [StreamId -> {"none", "opening", "opened", "wired", "done"}]]
              /\ sock' \in [Session -> [StreamId -> SocketState]]
          BY <2>6, <3>2 DEF OnClose
        <4> QED
          BY <2>2, <4>1, <4>2, <4>3
    <2>7. CASE OnData(s)
      <3>1. f.id \in StreamId /\ f.n \in Chunk
        BY <2>2, <2>7, FrameFields DEF OnData, Hears, NextIs
      <3>2. [got EXCEPT ![s][f.id] = Append(@, f.n)] \in [Session -> [StreamId -> Seq(Chunk)]]
        BY <3>1
      <3> QED
        BY <2>2, <2>7, <3>2 DEF OnData
    <2> QED
      BY <1>6, <2>3, <2>4, <2>5, <2>6, <2>7 DEF Hearing
  <1>7. ASSUME NEW i \in StreamId, Bridging(s, i) PROVE WireTypeOK' /\ ServerTypeOK'
    <2>1. CASE OpenTimesOut(s, i)
      BY <2>1 DEF OpenTimesOut, Rejected, SocketState
    <2>2. CASE ResumeBridge(s, i)
      BY <2>2 DEF ResumeBridge
    <2>3. ASSUME Shutdown(s, i)
          PROVE  /\ bridge' \in [Session -> [StreamId -> {"none", "opening", "opened", "wired", "done"}]]
                 /\ sock' \in [Session -> [StreamId -> SocketState]]
                 /\ closed' \in [Session -> SUBSET StreamId]
                 /\ streams' \in [Session -> SUBSET StreamId]
                 /\ toAgent' \in [Session -> Seq(ServerFrame)]
      BY <1>0, <2>3, FramesAreTyped DEF Shutdown, SocketState
    <2>4. CASE DriverCloses(s, i)
      <3>1. CASE Shutdown(s, i)
        BY <2>3, <2>4, <3>1 DEF DriverCloses
      <3>2. CASE \E left \in {"hungup", "draining"} : sock' = [sock EXCEPT ![s][i] = left]
        <4>1. sock' \in [Session -> [StreamId -> SocketState]]
          BY <3>2 DEF SocketState
        <4> QED
          BY <2>3, <2>4, <4>1 DEF DriverCloses
      <3> QED
        BY <2>4, <3>1, <3>2 DEF DriverCloses
    <2>5. CASE DrainEnds(s, i)
      BY <2>3, <2>5 DEF DrainEnds
    <2>6. CASE DriverWrites(s, i)
      <3>1. written[s][i] + 1 \in Chunk /\ written[s][i] + 1 \in 0..MaxChunks
        BY <2>6, WireAssumption DEF DriverWrites, Chunk
      <3>2. Sent(toAgent, s, Data(i, written[s][i] + 1)) \in [Session -> Seq(ServerFrame)]
        BY <1>0, <3>1, FramesAreTyped
      <3> QED
        BY <2>6, <3>1, <3>2 DEF DriverWrites
    <2> QED
      BY <1>7, <2>1, <2>2, <2>4, <2>5, <2>6 DEF Bridging
  <1> QED
    BY <1>1, <1>2, <1>3, <1>4, <1>5, <1>6, <1>7 DEF ServerStep

TypeInv == TypeOK /\ ChunkInHand

LEMMA TypeStep == TypeInv /\ [Next]_vars => TypeInv'
  <1> SUFFICES ASSUME TypeInv, [Next]_vars PROVE TypeInv'
    OBVIOUS
  <1> USE DEF TypeInv, TypeOK
  <1>1. CASE ServerNext /\ UNCHANGED clientVars
    <2>1. ClientTypeOK' /\ ChunkInHand'
      BY <1>1 DEF ClientTypeOK, ChunkInHand, clientVars
    <2>2. PICK s \in Session : ServerStep(s)
      BY <1>1 DEF ServerNext, ServerStep
    <2> QED
      BY <2>1, <2>2, ServerTypeStep
  <1>2. CASE ClientNext /\ UNCHANGED serverVars
    <2>1. ServerTypeOK'
      BY <1>2 DEF ServerTypeOK, serverVars
    <2>2. PICK s \in Session : ClientStep(s)
      BY <1>2 DEF ClientNext, ClientStep
    <2> QED
      BY <2>1, <2>2, ClientTypeStep, ChunkInHandStep
  <1>3. CASE UNCHANGED vars
    BY <1>3 DEF vars, wireVars, serverVars, clientVars, WireTypeOK, ServerTypeOK, ClientTypeOK,
       ChunkInHand
  <1> QED
    BY <1>1, <1>2, <1>3 DEF Next

LEMMA InitTypeInv == Init => TypeInv
  <1>1. Init => ChunkInHand
    BY DEF Init, ClientInit, ChunkInHand
  <1> QED
    BY <1>1, InitTypeOK DEF TypeInv

(* Every variable of the tunnel keeps its type, whatever the two ends, the *)
(* drivers and the databases do.                                           *)
THEOREM TypeCorrect == Spec => []TypeOK
  <1>1. TypeInv => TypeOK
    BY DEF TypeInv
  <1> QED
    BY <1>1, InitTypeInv, TypeStep, PTL DEF Spec

----------------------------------------------------------------------------
(* The registry.  Besides the two properties, the induction needs to know  *)
(* that a bridge waits exactly while it is in `pending', or a rejected or  *)
(* answered stream could be one that was never opened; and that an id not  *)
(* given out yet has no bridge.                                            *)
WaitersAreThePending ==
    \A s \in Session : \A i \in StreamId : i \in pending[s] <=> bridge[s][i] = "opening"

UnusedIdsAreFresh ==
    \A s \in Session : \A i \in StreamId : i > seq[s] => bridge[s][i] = "none"

RegistryInv ==
    TypeInv /\ RegistryHoldsTheLive /\ OnlyTheLiveHasStreams /\ WaitersAreThePending
    /\ UnusedIdsAreFresh

LEMMA InitRegistry == Init => RegistryInv
  <1> SUFFICES ASSUME Init PROVE RegistryInv
    OBVIOUS
  <1>1. TypeInv
    BY InitTypeInv
  <1>2. RegistryHoldsTheLive /\ OnlyTheLiveHasStreams /\ WaitersAreThePending /\ UnusedIdsAreFresh
    BY ServerAssumption DEF Init, ServerInit, RegistryHoldsTheLive, OnlyTheLiveHasStreams,
       WaitersAreThePending, UnusedIdsAreFresh
  <1> QED
    BY <1>1, <1>2 DEF RegistryInv

(* Only a first hello and the end of the holder's socket touch the         *)
(* registry; every other step keeps it and the two ends' state.            *)
LEMMA RegistryStep ==
    ASSUME ServerTypeOK, RegistryHoldsTheLive, NEW s \in Session, ServerStep(s)
    PROVE  RegistryHoldsTheLive'
  <1> USE DEF ServerTypeOK, RegistryHoldsTheLive
  <1>1. CASE UNCHANGED <<sv, agent, conn>>
    BY <1>1
  <1>2. CASE Accept(s) \/ AuthOk(s) \/ AuthRejects(s)
    BY <1>2 DEF Accept, AuthOk, AuthRejects
  <1>3. CASE OnHello(s)
    <2>1. CASE conn[s] = "none"
      <3>1. /\ conn' = [r \in Session |->
                  IF r = s THEN "live" ELSE IF r = agent THEN "torn" ELSE conn[r]]
            /\ agent' = s /\ sv' = sv /\ sv[s] = "serving"
        BY <1>3, <2>1 DEF OnHello, Hears
      <3> QED
        BY <3>1
    <2>2. CASE conn[s] # "none"
      BY <1>1, <1>3, <2>2 DEF OnHello
    <2> QED
      BY <2>1, <2>2
  <1>4. CASE SocketCloses(s)
    <2>1. CASE HoldsPlace(s)
      <3>1. /\ agent = s /\ agent' = NoSession
            /\ conn' = [conn EXCEPT ![s] = "torn"]
            /\ sv' = [sv EXCEPT ![s] = "closed"]
        BY <1>4, <2>1 DEF SocketCloses, HoldsPlace
      <3> QED
        BY <3>1, ServerAssumption
    <2>2. CASE ~HoldsPlace(s)
      BY <1>4, <2>2 DEF SocketCloses, HoldsPlace
    <2> QED
      BY <2>1, <2>2
  <1>5. CASE FrameUnheard(s) \/ SendReady(s) \/ OpenStream(s)
    BY <1>1, <1>5 DEF FrameUnheard, SendReady, OpenStream, serverVars
  <1>6. CASE OnOpened(s) \/ OnOpenErr(s) \/ OnClose(s) \/ OnData(s)
    BY <1>1, <1>6 DEF OnOpened, OnOpenErr, OnClose, OnData
  <1>7. CASE \E i \in StreamId : Bridging(s, i)
    BY <1>1, <1>7 DEF Bridging, OpenTimesOut, ResumeBridge, DriverCloses, DrainEnds, DriverWrites
  <1> QED
    BY <1>2, <1>3, <1>4, <1>5, <1>6, <1>7 DEF ServerStep, Hearing

(* The stream tables.  A bridge that was opened moves on: nobody waits for *)
(* it any more and no other bridge is concerned.                           *)
MovesOn(s, i) ==
    /\ UNCHANGED <<conn, seq>>
    /\ bridge[s][i] # "none"
    /\ i \notin pending'[s] /\ bridge'[s][i] \notin {"none", "opening"}
    /\ \A r \in Session :
          /\ streams'[r] \subseteq streams[r] /\ pending'[r] \subseteq pending[r]
          /\ \A j \in StreamId : r # s \/ j # i =>
                /\ j \in pending'[r] <=> j \in pending[r]
                /\ bridge'[r][j] = bridge[r][j]

TablesInv == OnlyTheLiveHasStreams /\ WaitersAreThePending /\ UnusedIdsAreFresh

LEMMA MovingOnKeepsTables ==
    ASSUME TablesInv, NEW s \in Session, NEW i \in StreamId, MovesOn(s, i)
    PROVE  TablesInv'
  <1>1. OnlyTheLiveHasStreams'
    <2>1. \A r \in Session : streams'[r] \subseteq streams[r] /\ pending'[r] \subseteq pending[r]
      BY DEF MovesOn
    <2> QED
      BY <2>1 DEF TablesInv, OnlyTheLiveHasStreams, MovesOn
  <1> SUFFICES ASSUME NEW r \in Session, NEW j \in StreamId
               PROVE  /\ j \in pending'[r] <=> bridge'[r][j] = "opening"
                      /\ j > seq'[r] => bridge'[r][j] = "none"
    BY <1>1 DEF TablesInv, WaitersAreThePending, UnusedIdsAreFresh
  <1>2. /\ j \in pending[r] <=> bridge[r][j] = "opening"
        /\ j > seq[r] => bridge[r][j] = "none"
        /\ seq'[r] = seq[r]
    BY DEF TablesInv, WaitersAreThePending, UnusedIdsAreFresh, MovesOn
  <1>3. CASE r = s /\ j = i
    BY <1>2, <1>3 DEF MovesOn
  <1>4. CASE r # s \/ j # i
    BY <1>2, <1>4 DEF MovesOn
  <1> QED
    BY <1>3, <1>4

LEMMA TornDownKeepsTables ==
    ASSUME TablesInv, ServerTypeOK, NEW S, TornDown(S), UNCHANGED seq,
           \A r \in Session : conn'[r] # "live" => r \in S \/ conn[r] # "live"
    PROVE  TablesInv'
  <1>1. \A r \in Session :
           /\ r \in S => streams'[r] = {} /\ pending'[r] = {}
           /\ r \notin S => streams'[r] = streams[r] /\ pending'[r] = pending[r]
    BY DEF TornDown
  <1>2. OnlyTheLiveHasStreams'
    BY <1>1 DEF TablesInv, OnlyTheLiveHasStreams
  <1> SUFFICES ASSUME NEW r \in Session, NEW i \in StreamId
               PROVE  /\ i \in pending'[r] <=> bridge'[r][i] = "opening"
                      /\ i > seq'[r] => bridge'[r][i] = "none"
    BY <1>2 DEF TablesInv, WaitersAreThePending, UnusedIdsAreFresh
  <1>3. bridge'[r][i] = IF r \in S /\ i \in Settled(r) THEN "done" ELSE bridge[r][i]
    BY DEF TornDown
  <1>4. /\ i \in pending[r] <=> bridge[r][i] = "opening"
        /\ i > seq[r] => bridge[r][i] = "none"
        /\ seq'[r] = seq[r]
    BY DEF TablesInv, WaitersAreThePending, UnusedIdsAreFresh
  <1>5. /\ i \in pending[r] => i \in Settled(r)
        /\ i \in Settled(r) => bridge[r][i] # "none"
    BY <1>4 DEF Settled
  <1> QED
    BY <1>1, <1>3, <1>4, <1>5

LEMMA OpeningKeepsTables ==
    ASSUME TablesInv, ServerTypeOK, RegistryHoldsTheLive, NEW s \in Session, OpenStream(s)
    PROVE  TablesInv'
  <1> DEFINE i == seq[s] + 1
  <1>1. /\ conn' = conn /\ conn[s] = "live" /\ seq' = [seq EXCEPT ![s] = i]
        /\ streams' = [streams EXCEPT ![s] = @ \cup {i}]
        /\ pending' = [pending EXCEPT ![s] = @ \cup {i}]
        /\ bridge' = [bridge EXCEPT ![s][i] = "opening"]
    BY DEF OpenStream, NextId, RegistryHoldsTheLive
  <1>2. i \in StreamId /\ ~(i > i) /\ \A j \in StreamId : j > i => j > seq[s]
    BY WireAssumption DEF OpenStream, ServerTypeOK, StreamId
  <1> HIDE DEF i
  <1>3. OnlyTheLiveHasStreams'
    BY <1>1 DEF TablesInv, OnlyTheLiveHasStreams, ServerTypeOK
  <1> SUFFICES ASSUME NEW r \in Session, NEW j \in StreamId
               PROVE  /\ j \in pending'[r] <=> bridge'[r][j] = "opening"
                      /\ j > seq'[r] => bridge'[r][j] = "none"
    BY <1>3 DEF TablesInv, WaitersAreThePending, UnusedIdsAreFresh
  <1>4. /\ j \in pending[r] <=> bridge[r][j] = "opening"
        /\ j > seq[r] => bridge[r][j] = "none"
    BY DEF TablesInv, WaitersAreThePending, UnusedIdsAreFresh
  <1>5. CASE r = s /\ j = i
    BY <1>1, <1>2, <1>5 DEF ServerTypeOK
  <1>6. CASE r = s /\ j # i
    BY <1>1, <1>2, <1>4, <1>6 DEF ServerTypeOK
  <1>7. CASE r # s
    BY <1>1, <1>4, <1>7 DEF ServerTypeOK
  <1> QED
    BY <1>5, <1>6, <1>7

LEMMA TablesStep ==
    ASSUME RegistryInv, NEW s \in Session, ServerStep(s)
    PROVE  TablesInv'
  <1>0. TablesInv /\ ServerTypeOK /\ WireTypeOK
    BY DEF RegistryInv, TablesInv, TypeInv, TypeOK
  <1>a. /\ streams \in [Session -> SUBSET StreamId] /\ pending \in [Session -> SUBSET StreamId]
        /\ bridge \in [Session -> [StreamId -> {"none", "opening", "opened", "wired", "done"}]]
    BY <1>0 DEF ServerTypeOK
  <1>b. \A r \in Session : \A i \in StreamId : i \in pending[r] <=> bridge[r][i] = "opening"
    BY <1>0 DEF TablesInv, WaitersAreThePending
  <1>1. CASE UNCHANGED <<conn, seq, pending, bridge>> /\ \A r \in Session : streams'[r] \subseteq streams[r]
    BY <1>0, <1>1 DEF TablesInv, OnlyTheLiveHasStreams, WaitersAreThePending, UnusedIdsAreFresh
  <1>2. CASE \/ Accept(s) \/ AuthOk(s) \/ AuthRejects(s) \/ FrameUnheard(s) \/ SendReady(s)
             \/ OnData(s)
    BY <1>1, <1>2 DEF Accept, AuthOk, AuthRejects, FrameUnheard, SendReady, OnData, serverVars,
       streamVars
  <1>4. CASE OnHello(s)
    <2>1. CASE conn[s] = "none"
      <3>1. /\ conn' = [r \in Session |->
                  IF r = s THEN "live" ELSE IF r = agent THEN "torn" ELSE conn[r]]
            /\ TornDown({agent} \ {NoSession}) /\ UNCHANGED seq
        BY <1>4, <2>1 DEF OnHello, Replaced
      <3>2. \A r \in Session : conn'[r] # "live" => r \in {agent} \ {NoSession} \/ conn[r] # "live"
        BY <3>1, ServerAssumption
      <3> QED
        BY <1>0, <3>1, <3>2, TornDownKeepsTables
    <2>2. CASE conn[s] # "none"
      BY <1>1, <1>4, <2>2 DEF OnHello, streamVars
    <2> QED
      BY <2>1, <2>2
  <1>5. CASE SocketCloses(s)
    <2>1. CASE HoldsPlace(s)
      <3>1. conn' = [conn EXCEPT ![s] = "torn"] /\ TornDown({s}) /\ UNCHANGED seq
        BY <1>5, <2>1 DEF SocketCloses
      <3>2. \A r \in Session : conn'[r] # "live" => r \in {s} \/ conn[r] # "live"
        BY <1>0, <3>1 DEF ServerTypeOK
      <3> QED
        BY <1>0, <3>1, <3>2, TornDownKeepsTables
    <2>2. CASE ~HoldsPlace(s)
      BY <1>1, <1>5, <2>2 DEF SocketCloses
    <2> QED
      BY <2>1, <2>2
  <1>6. CASE OpenStream(s)
    BY <1>0, <1>6, OpeningKeepsTables DEF RegistryInv
  <1>7. ASSUME NEW i \in StreamId, UNCHANGED <<conn, seq>>, bridge[s][i] # "none",
               \/ streams' = streams
               \/ streams' = [streams EXCEPT ![s] = @ \ {i}],
               \/ pending' = [pending EXCEPT ![s] = @ \ {i}]
               \/ pending' = pending /\ bridge[s][i] # "opening",
               NEW b \in {"opened", "wired", "done"}, bridge' = [bridge EXCEPT ![s][i] = b]
        PROVE  TablesInv'
    <2>1. i \notin pending'[s] /\ bridge'[s][i] = b
      BY <1>7, <1>a, <1>b
    <2>2. \A r \in Session : streams'[r] \subseteq streams[r] /\ pending'[r] \subseteq pending[r]
      BY <1>7, <1>a
    <2>3. \A r \in Session : \A j \in StreamId : r # s \/ j # i =>
             (j \in pending'[r] <=> j \in pending[r]) /\ bridge'[r][j] = bridge[r][j]
      BY <1>7, <1>a
    <2>4. MovesOn(s, i)
      BY <1>7, <2>1, <2>2, <2>3 DEF MovesOn
    <2> QED
      BY <1>0, <2>4, MovingOnKeepsTables
  <1>8. ASSUME NEW i \in StreamId, Rejected(s, i), UNCHANGED <<conn, seq>>, i \in pending[s]
        PROVE  TablesInv'
    BY <1>7, <1>8, <1>b DEF Rejected
  <1>9. ASSUME NEW i \in StreamId, Shutdown(s, i), UNCHANGED <<conn, seq, pending>>,
               bridge[s][i] = "wired"
        PROVE  TablesInv'
    BY <1>7, <1>9 DEF Shutdown
  <1>10. CASE OnOpened(s) \/ OnOpenErr(s) \/ OnClose(s)
    <2> DEFINE i == Head(toServer[s]).id
    <2>1. i \in StreamId
      BY <1>0, <1>10, TakenFromServer, FrameFields
         DEF OnOpened, OnOpenErr, OnClose, Hears, NextIs
    <2>2. CASE OnOpened(s)
      <3>1. CASE i \in pending[s] \cap streams[s]
        <4>1. /\ pending' = [pending EXCEPT ![s] = @ \ {i}]
              /\ bridge' = [bridge EXCEPT ![s][i] = "opened"]
              /\ UNCHANGED <<conn, seq, streams>>
          BY <2>2, <3>1 DEF OnOpened
        <4>2. bridge[s][i] # "none"
          BY <1>b, <2>1, <3>1
        <4> HIDE DEF i
        <4> QED
          BY <1>7, <2>1, <4>1, <4>2
      <3>2. CASE i \notin pending[s] \cap streams[s]
        BY <1>1, <2>2, <3>2 DEF OnOpened
      <3> QED
        BY <3>1, <3>2
    <2>3. CASE OnOpenErr(s)
      <3>1. CASE i \in pending[s]
        <4>1. Rejected(s, i) /\ UNCHANGED <<conn, seq>>
          BY <2>3, <3>1 DEF OnOpenErr
        <4> QED
          BY <1>8, <2>1, <3>1, <4>1
      <3>2. CASE i \notin pending[s]
        BY <1>1, <2>3, <3>2 DEF OnOpenErr
      <3> QED
        BY <3>1, <3>2
    <2>4. CASE OnClose(s)
      <3>1. CASE i \in streams[s] /\ bridge[s][i] = "wired"
        <4>1. /\ streams' = [streams EXCEPT ![s] = @ \ {i}]
              /\ bridge' = [bridge EXCEPT ![s][i] = "done"]
              /\ UNCHANGED <<conn, seq, pending>>
          BY <2>4, <3>1 DEF OnClose
        <4> HIDE DEF i
        <4> QED
          BY <1>7, <2>1, <3>1, <4>1
      <3>2. CASE ~(i \in streams[s] /\ bridge[s][i] = "wired")
        <4>1. UNCHANGED <<conn, seq, pending, bridge>>
          BY <2>4, <3>2 DEF OnClose
        <4>2. streams' = streams \/ streams' = [streams EXCEPT ![s] = @ \ {i}]
          BY <2>4, <3>2 DEF OnClose
        <4> QED
          BY <1>1, <1>a, <4>1, <4>2
      <3> QED
        BY <3>1, <3>2
    <2> QED
      BY <1>10, <2>2, <2>3, <2>4
  <1>11. ASSUME NEW i \in StreamId, Bridging(s, i) PROVE TablesInv'
    <2>1. CASE OpenTimesOut(s, i)
      BY <1>8, <2>1 DEF OpenTimesOut
    <2>2. CASE ResumeBridge(s, i)
      BY <1>7, <2>2 DEF ResumeBridge
    <2>3. CASE DriverCloses(s, i) \/ DrainEnds(s, i)
      <3>1. CASE Shutdown(s, i) /\ bridge[s][i] = "wired"
        BY <1>9, <2>3, <3>1 DEF DriverCloses, DrainEnds
      <3>2. CASE UNCHANGED <<conn, seq, streams, pending, bridge>>
        BY <1>1, <3>2
      <3> QED
        BY <2>3, <3>1, <3>2 DEF DriverCloses, DrainEnds
    <2>4. CASE DriverWrites(s, i)
      BY <1>1, <2>4 DEF DriverWrites
    <2> QED
      BY <1>11, <2>1, <2>2, <2>3, <2>4 DEF Bridging
  <1> QED
    BY <1>2, <1>4, <1>5, <1>6, <1>10, <1>11 DEF ServerStep, Hearing

LEMMA RegistryInvStep == RegistryInv /\ [Next]_vars => RegistryInv'
  <1> SUFFICES ASSUME RegistryInv, [Next]_vars PROVE RegistryInv'
    OBVIOUS
  <1>1. TypeInv'
    BY TypeStep DEF RegistryInv
  <1>2. CASE ServerNext
    <2>1. PICK s \in Session : ServerStep(s)
      BY <1>2 DEF ServerNext, ServerStep
    <2> QED
      BY <1>1, <2>1, RegistryStep, TablesStep DEF RegistryInv, TablesInv, TypeInv, TypeOK
  <1>3. CASE UNCHANGED serverVars
    BY <1>1, <1>3 DEF RegistryInv, serverVars, RegistryHoldsTheLive, OnlyTheLiveHasStreams,
       WaitersAreThePending, UnusedIdsAreFresh
  <1> QED
    BY <1>2, <1>3 DEF Next, vars

LEMMA RegistryInvariant == Spec => []RegistryInv
  BY InitRegistry, RegistryInvStep, PTL DEF Spec

(* AgentRegistry.register and deregister: the registered session is the    *)
(* live and served one, however many sessions of the agent overlap.        *)
THEOREM RegistryIsRight == Spec => []RegistryHoldsTheLive
  <1>1. RegistryInv => RegistryHoldsTheLive
    BY DEF RegistryInv
  <1> QED
    BY <1>1, RegistryInvariant, PTL

(* AgentConnection.teardown: only the registered session has streams.      *)
THEOREM TornConnectionsAreEmpty == Spec => []OnlyTheLiveHasStreams
  <1>1. RegistryInv => OnlyTheLiveHasStreams
    BY DEF RegistryInv
  <1> QED
    BY <1>1, RegistryInvariant, PTL

(* deregister: the agent goes offline only by the end of its own socket.   *)
THEOREM EvictionIsByTheHolder == Spec => OnlyItsOwnSocketEvicts
  <1> DEFINE Evicts == agent # NoSession /\ agent' = NoSession
                          => sv[agent] = "serving" /\ sv'[agent] = "closed"
  <1>1. RegistryInv /\ [Next]_vars => [Evicts]_vars
    <2> SUFFICES ASSUME RegistryInv, ServerNext PROVE Evicts
      BY DEF Next, serverVars
    <2>1. PICK s \in Session : ServerStep(s)
      BY DEF ServerNext, ServerStep
    <2>2. CASE OnHello(s)
      BY <2>2, ServerAssumption DEF OnHello
    <2>3. CASE SocketCloses(s)
      BY <2>3 DEF SocketCloses, HoldsPlace, RegistryInv, RegistryHoldsTheLive, TypeInv, TypeOK, ServerTypeOK
    <2>4. CASE agent' = agent
      BY <2>4
    <2> QED
      BY <2>1, <2>2, <2>3, <2>4
         DEF ServerStep, Hearing, Bridging, Accept, AuthOk, AuthRejects, FrameUnheard, SendReady,
             OpenStream, OnOpened, OnOpenErr, OnClose, OnData, OpenTimesOut, ResumeBridge,
             DriverCloses, DrainEnds, DriverWrites, serverVars
  <1> QED
    BY <1>1, RegistryInvariant, PTL DEF Spec, OnlyItsOwnSocketEvicts

(* Only openStream adds to a stream table.                                 *)
LEMMA OnlyOpeningAdds ==
    ASSUME TypeInv, NEW s \in Session, ServerStep(s), ~OpenStream(s)
    PROVE  \A r \in Session : streams'[r] \subseteq streams[r]
  <1> DEFINE Shrink == \A r \in Session : streams'[r] \subseteq streams[r]
  <1> USE DEF TypeInv, TypeOK, ServerTypeOK
  <1>1. ASSUME NEW S, TornDown(S) PROVE Shrink
    BY <1>1 DEF TornDown
  <1>2. CASE OnHello(s) \/ SocketCloses(s)
    <2>1. \/ \E S \in {Replaced(s), {s}} : TornDown(S)
          \/ streams' = streams
      BY <1>2 DEF OnHello, SocketCloses, streamVars
    <2> QED
      BY <1>1, <2>1
  <1>3. ASSUME NEW i, streams' = [streams EXCEPT ![s] = @ \ {i}] \/ streams' = streams
        PROVE  Shrink
    <2>1. streams \in [Session -> SUBSET StreamId]
      OBVIOUS
    <2> QED
      BY ONLY <1>3, <2>1
  <1>4. CASE OnOpenErr(s) \/ OnClose(s)
    <2> DEFINE i == Head(toServer[s]).id
    <2>1. streams' = [streams EXCEPT ![s] = @ \ {i}] \/ streams' = streams
      <3>1. CASE OnOpenErr(s)
        BY <3>1 DEF OnOpenErr, Rejected
      <3>2. CASE OnClose(s)
        BY <3>2 DEF OnClose
      <3> QED
        BY <1>4, <3>1, <3>2
    <2> HIDE DEF i
    <2> QED
      BY <1>3, <2>1
  <1>5. ASSUME NEW i \in StreamId, Bridging(s, i) PROVE Shrink
    BY <1>3, <1>5 DEF Bridging, OpenTimesOut, ResumeBridge, DriverCloses, DrainEnds, DriverWrites,
       Rejected, Shutdown
  <1> QED
    BY <1>2, <1>4, <1>5
       DEF ServerStep, Hearing, Accept, AuthOk, AuthRejects, FrameUnheard, SendReady, OnOpened,
           OnData, serverVars, streamVars

(* openStream: a stream enters the table only under an id that never had a *)
(* bridge, so a late frame finds either its own stream or none.            *)
THEOREM StreamIdsAreFresh == Spec => IdsAreNotReused
  <1> DEFINE Fresh == \A s \in Session : \A i \in streams'[s] \ streams[s] : bridge[s][i] = "none"
  <1>1. RegistryInv /\ [Next]_vars => [Fresh]_vars
    <2> SUFFICES ASSUME RegistryInv, ServerNext PROVE Fresh
      BY DEF Next, serverVars
    <2>1. PICK s \in Session : ServerStep(s)
      BY DEF ServerNext, ServerStep
    <2>2. CASE OpenStream(s)
      <3> USE DEF RegistryInv, TypeInv, TypeOK, ServerTypeOK
      <3>1. /\ streams' = [streams EXCEPT ![s] = @ \cup {seq[s] + 1}]
            /\ seq[s] + 1 \in StreamId /\ seq[s] \in Nat
        BY <2>2, WireAssumption DEF OpenStream, NextId, StreamId
      <3> QED
        BY <3>1 DEF UnusedIdsAreFresh
    <2>3. CASE ~OpenStream(s)
      BY <2>1, <2>3, OnlyOpeningAdds DEF RegistryInv
    <2> QED
      BY <2>2, <2>3
  <1> QED
    BY <1>1, RegistryInvariant, PTL DEF Spec, IdsAreNotReused

----------------------------------------------------------------------------
(* The cap of both ends.  Each tests it in the very step that adds.        *)
StreamsBounded == \A s \in Session : Cardinality(streams[s]) <= MaxStreams

LEMMA StreamsBoundedStep ==
    ASSUME TypeInv, StreamsBounded, NEW s \in Session, ServerStep(s), TypeInv'
    PROVE  StreamsBounded'
  <1>0. /\ streams \in [Session -> SUBSET StreamId]
        /\ streams' \in [Session -> SUBSET StreamId]
    BY DEF TypeInv, TypeOK, ServerTypeOK
  <1>1. CASE ~OpenStream(s)
    <2> SUFFICES ASSUME NEW r \in Session PROVE Cardinality(streams'[r]) <= MaxStreams
      BY DEF StreamsBounded
    <2>1. 1 \in StreamId /\ streams'[r] \subseteq streams[r]
      BY <1>1, OnlyOpeningAdds, WireAssumption DEF StreamId
    <2> QED
      BY <1>0, <2>1, CapIsKept DEF StreamsBounded
  <1>2. CASE OpenStream(s)
    <2> SUFFICES ASSUME NEW r \in Session PROVE Cardinality(streams'[r]) <= MaxStreams
      BY DEF StreamsBounded
    <2> DEFINE i == NextId(s)
    <2>1. i \in StreamId /\ streams' = [streams EXCEPT ![s] = @ \cup {i}]
      BY <1>2, WireAssumption DEF OpenStream, NextId, StreamId, TypeInv, TypeOK, ServerTypeOK
    <2> HIDE DEF i
    <2>2. CASE r = s
      <3>1. streams'[r] = streams[r] \cup {i} /\ Cardinality(streams[r]) < MaxStreams
        BY <1>0, <1>2, <2>1, <2>2 DEF OpenStream
      <3> QED
        BY <1>0, <2>1, <3>1, CapIsKept DEF StreamsBounded
    <2>3. CASE r # s
      BY <1>0, <2>1, <2>3 DEF StreamsBounded
    <2> QED
      BY <2>2, <2>3
  <1> QED
    BY <1>1, <1>2

(* openStream and handleOpen: neither table ever holds more than           *)
(* MAX_STREAMS_PER_AGENT streams.  The agent tests the cap twice, and it   *)
(* is the test after the dial that counts: many may dial at once.          *)
THEOREM CapsHold == Spec => []SlotsBounded
  <1> DEFINE Caps == StreamsBounded /\ ConnsBounded
  <1>1. Init => Caps
    BY NoConns DEF Init, ServerInit, ClientInit, StreamsBounded, ConnsBounded
  <1>2. RegistryInv /\ Caps /\ [Next]_vars => Caps'
    <2> SUFFICES ASSUME RegistryInv, Caps, [Next]_vars PROVE Caps'
      OBVIOUS
    <2>0. TypeInv /\ TypeInv'
      BY TypeStep DEF RegistryInv
    <2>1. CASE ServerNext /\ UNCHANGED clientVars
      <3>1. PICK s \in Session : ServerStep(s)
        BY <2>1 DEF ServerNext, ServerStep
      <3>2. ConnsBounded'
        BY <2>1 DEF clientVars, ConnsBounded
      <3> QED
        BY <2>0, <3>1, <3>2, StreamsBoundedStep
    <2>2. CASE ClientNext /\ UNCHANGED serverVars
      <3>1. PICK s \in Session : ClientStep(s)
        BY <2>2 DEF ClientNext, ClientStep
      <3>2. StreamsBounded'
        BY <2>2 DEF serverVars, StreamsBounded
      <3> QED
        BY <2>0, <3>1, <3>2, ConnsBoundedStep DEF TypeInv, TypeOK
    <2>3. CASE UNCHANGED vars
      BY <2>3 DEF vars, serverVars, clientVars, StreamsBounded, ConnsBounded
    <2> QED
      BY <2>1, <2>2, <2>3 DEF Next
  <1>3. Caps => SlotsBounded
    BY DEF SlotsBounded, StreamsBounded, ConnsBounded
  <1> QED
    BY <1>1, <1>2, <1>3, RegistryInvariant, PTL DEF Spec

----------------------------------------------------------------------------
(* One stream, from the server's table to the agent's.  A stream the       *)
(* server holds and has stopped waiting for was answered, so its pump has  *)
(* begun; from then on it has its connection, or its close is on the wire. *)
Served(s) == wire[s] = "up" /\ cl[s] = "running"

IdOK(s, i) ==
    /\ i > seq[s] => /\ gor[s][i] = "none" /\ NoFrameOf(toAgent[s], {"open"}, i)
                     /\ i \notin closed[s] /\ i \notin streams[s]
    /\ OpenOnce(toAgent[s], i)
    /\ gor[s][i] # "none" => NoFrameOf(toAgent[s], {"open"}, i)
    /\ gor[s][i] \in {"none", "dialing"} => i \notin conns[s]
    /\ cl[s] = "new" => gor[s][i] = "none"

UnansweredOK(s, i) ==
    ~Begun(s, i) =>
        /\ NoFrameOf(toServer[s], {"opened", "close"}, i)
        /\ NoFrameOf(toAgent[s], {"close", "data"}, i)
        /\ bridge[s][i] \notin {"opened", "wired"}
        /\ i \in streams[s] => i \in pending[s]
        /\ written[s][i] = 0 /\ dbGot[s][i] = <<>>

HeldOK(s, i) == i \in streams[s] => i \notin closed[s] /\ NoFrameOf(toAgent[s], {"close"}, i)

ToldOK(s, i) ==
    Served(s) /\ i \in streams[s] /\ gor[s][i] \notin {"none", "dialing"} =>
        \/ i \in conns[s]
        \/ Carries(toServer[s], "close", i)
        \/ gor[s][i] = "done" /\ i \in pending[s] /\ NoFrameOf(toServer[s], {"opened"}, i)

StreamOK(s, i) ==
    IdOK(s, i) /\ UnansweredOK(s, i) /\ HeldOK(s, i) /\ ToldOK(s, i)

StreamInv == \A s \in Session : \A i \in StreamId : StreamOK(s, i)

LEMMA InitStreams == Init => StreamInv
  BY WireAssumption DEF Init, WireInit, ServerInit, ClientInit, StreamInv, StreamOK, IdOK,
     UnansweredOK, HeldOK, ToldOK, Begun, Served, NoFrameOf, OpenOnce, StreamId

(* What a server step may do to a stream that is not about it: read a      *)
(* frame, send one, or let the stream go.                                  *)
ServerQuiet(r, j) ==
    /\ UNCHANGED clientVars
    /\ wire'[r] = "up" => wire[r] = "up"
    /\ \/ toServer'[r] = toServer[r]
       \/ toServer'[r] = <<>> /\ wire'[r] # "up"
       \/ /\ toServer[r] # <<>> /\ toServer'[r] = Tail(toServer[r])
          /\ j \in streams'[r] => ~IsFrame(Head(toServer[r]), "close", j)
    /\ \/ toAgent'[r] = toAgent[r]
       \/ \E f \in ServerFrame :
             /\ toAgent'[r] = Append(toAgent[r], f)
             /\ ~IsFrame(f, "open", j) /\ ~IsData(f, j)
             /\ IsFrame(f, "close", j) => j \notin streams'[r] /\ Begun(r, j)
    /\ seq'[r] >= seq[r]
    /\ j \in streams'[r] => j \in streams[r]
    /\ \/ toServer[r] # <<>> /\ IsFrame(Head(toServer[r]), "opened", j)
       \/ /\ j \in streams'[r] /\ j \in pending[r] => j \in pending'[r]
          /\ bridge'[r][j] \in {"opened", "wired"} => bridge[r][j] \in {"opened", "wired"}
    /\ j \in closed'[r] => j \in closed[r] \/ (j \notin streams'[r] /\ j <= seq'[r])
    /\ written'[r][j] = written[r][j]

LEMMA QuietServerStep ==
    ASSUME TypeInv, TypeInv', NEW r \in Session, NEW j \in StreamId, StreamOK(r, j),
           ServerQuiet(r, j)
    PROVE  StreamOK(r, j)'
  <1> DEFINE q == toServer[r]
             p == toAgent[r]
  <1>1. /\ q \in Seq(AgentFrame) /\ p \in Seq(ServerFrame) /\ j \in Nat
        /\ seq[r] \in Nat /\ seq'[r] \in Nat /\ written[r][j] \in Nat
    BY WireAssumption DEF TypeInv, TypeOK, WireTypeOK, ServerTypeOK, StreamId
  <1>2. /\ gor'[r][j] = gor[r][j] /\ conns'[r] = conns[r] /\ cl'[r] = cl[r]
        /\ dbGot'[r][j] = dbGot[r][j] /\ written'[r][j] = written[r][j]
        /\ (Begun(r, j)' <=> Begun(r, j)) /\ (Served(r)' => Served(r))
    BY DEF ServerQuiet, clientVars, Begun, Served
  <1> HIDE DEF q, p
  <1>3. \A kinds : NoFrameOf(q, kinds, j) => NoFrameOf(toServer'[r], kinds, j)
    <2> TAKE kinds
    <2>1. NoFrameOf(<<>>, kinds, j)
      BY DEF NoFrameOf
    <2> QED
      BY <1>1, <2>1, NoneRead DEF ServerQuiet, q
  <1>4. Served(r)' /\ j \in streams'[r] /\ Carries(q, "close", j) => Carries(toServer'[r], "close", j)
    BY <1>1, CarriedRead DEF ServerQuiet, Served, q
  <1>5. toServer[r] # <<>> /\ IsFrame(Head(toServer[r]), "opened", j) =>
            ~NoFrameOf(q, {"opened", "close"}, j) /\ ~NoFrameOf(q, {"opened"}, j)
    BY <1>1, NoneRead DEF IsFrame, q
  <1> DEFINE Kept(x) ==
               /\ NoFrameOf(p, {"open"}, j) => NoFrameOf(x, {"open"}, j)
               /\ OpenOnce(p, j) => OpenOnce(x, j)
               /\ ~Begun(r, j) /\ NoFrameOf(p, {"close", "data"}, j) => NoFrameOf(x, {"close", "data"}, j)
               /\ j \in streams'[r] /\ NoFrameOf(p, {"close"}, j) => NoFrameOf(x, {"close"}, j)
  <1>6. Kept(toAgent'[r])
    <2>1. Kept(p)
      OBVIOUS
    <2>2. ASSUME NEW f \in ServerFrame, ~IsFrame(f, "open", j) /\ ~IsData(f, j),
                 IsFrame(f, "close", j) => j \notin streams'[r] /\ Begun(r, j)
          PROVE  Kept(Append(p, f))
      <3>1. NoFrameOf(p, {"open"}, j) => NoFrameOf(Append(p, f), {"open"}, j)
        BY <1>1, <2>2, OpensOnWire
      <3>2. OpenOnce(p, j) => OpenOnce(Append(p, f), j)
        BY <1>1, <2>2, OpensOnWire
      <3>3. ~Begun(r, j) /\ NoFrameOf(p, {"close", "data"}, j) => NoFrameOf(Append(p, f), {"close", "data"}, j)
        BY <1>1, <2>2, NoneSent DEF IsFrame, IsData
      <3>4. j \in streams'[r] /\ NoFrameOf(p, {"close"}, j) => NoFrameOf(Append(p, f), {"close"}, j)
        BY <1>1, <2>2, NoneSent DEF IsFrame
      <3> QED
        BY <3>1, <3>2, <3>3, <3>4
    <2> HIDE DEF Kept
    <2> QED
      BY <2>1, <2>2 DEF ServerQuiet, p
  <1>7. IdOK(r, j)'
    <2>1. seq'[r] >= seq[r] /\ (j \in closed'[r] => j \in closed[r] \/ j <= seq'[r])
          /\ (j \in streams'[r] => j \in streams[r])
      BY DEF ServerQuiet
    <2>2. j > seq'[r] => j > seq[r] /\ ~(j <= seq'[r])
      BY <1>1, <2>1
    <2> QED
      BY <1>2, <1>6, <2>1, <2>2 DEF StreamOK, IdOK, p
  <1>8. UnansweredOK(r, j)'
    <2> SUFFICES ASSUME ~Begun(r, j) PROVE UnansweredOK(r, j)'
      BY <1>2 DEF UnansweredOK
    <2>1. /\ NoFrameOf(toServer'[r], {"opened", "close"}, j)
          /\ NoFrameOf(toAgent'[r], {"close", "data"}, j)
          /\ NoFrameOf(q, {"opened", "close"}, j)
      BY <1>3, <1>6 DEF StreamOK, UnansweredOK, p, q
    <2>2. bridge'[r][j] \notin {"opened", "wired"} /\ (j \in streams'[r] => j \in pending'[r])
      BY <1>5, <2>1 DEF ServerQuiet, StreamOK, UnansweredOK
    <2> QED
      BY <1>2, <2>1, <2>2 DEF StreamOK, UnansweredOK
  <1>9. HeldOK(r, j)'
    BY <1>6 DEF StreamOK, HeldOK, ServerQuiet, p
  <1>10. ToldOK(r, j)'
    <2> SUFFICES ASSUME Served(r)', j \in streams'[r], gor[r][j] \notin {"none", "dialing"},
                        j \notin conns[r], ~Carries(toServer'[r], "close", j)
                 PROVE  gor[r][j] = "done" /\ j \in pending'[r] /\ NoFrameOf(toServer'[r], {"opened"}, j)
      BY <1>2 DEF ToldOK
    <2>1. gor[r][j] = "done" /\ j \in pending[r] /\ NoFrameOf(q, {"opened"}, j)
      BY <1>2, <1>4 DEF StreamOK, ToldOK, ServerQuiet, q
    <2> QED
      BY <1>3, <1>5, <2>1 DEF ServerQuiet
  <1> QED
    BY <1>7, <1>8, <1>9, <1>10 DEF StreamOK

(* Steps of the server are quiet for every stream but the one they open or *)
(* carry a driver's chunk for.                                             *)
LEMMA TearingIsQuiet ==
    ASSUME TypeInv, StreamInv, NEW S, TornDown(S), UNCHANGED <<seq, written>>,
           NEW r \in Session, NEW j \in StreamId
    PROVE  /\ seq'[r] >= seq[r]
           /\ j \in streams'[r] => j \in streams[r]
           /\ j \in streams'[r] /\ j \in pending[r] => j \in pending'[r]
           /\ bridge'[r][j] \in {"opened", "wired"} => bridge[r][j] \in {"opened", "wired"}
           /\ j \in closed'[r] => j \in closed[r] \/ (j \notin streams'[r] /\ j <= seq'[r])
           /\ written'[r][j] = written[r][j]
  <1>1. seq[r] \in Nat /\ j \in Nat /\ (j \in streams[r] => j <= seq[r])
    BY WireAssumption DEF TypeInv, TypeOK, ServerTypeOK, StreamId, StreamInv, StreamOK, IdOK
  <1>2. /\ pending'[r] = IF r \in S THEN {} ELSE pending[r]
        /\ streams'[r] = IF r \in S THEN {} ELSE streams[r]
        /\ closed'[r] = IF r \in S THEN closed[r] \cup streams[r] ELSE closed[r]
        /\ bridge'[r][j] \in {bridge[r][j], "done"}
    BY DEF TornDown
  <1> QED
    BY <1>1, <1>2

LEMMA ServerStepsAreQuiet ==
    ASSUME RegistryInv, StreamInv, UNCHANGED clientVars, NEW s \in Session,
           NEW r \in Session, NEW j \in StreamId, ServerStep(s)
    PROVE  \/ ServerQuiet(r, j)
           \/ r = s /\ j = NextId(s) /\ OpenStream(s)
           \/ r = s /\ DriverWrites(s, j)
  <1> USE DEF IsFrame, IsData
  <1>1. /\ TypeInv /\ WireTypeOK /\ seq[r] \in Nat /\ seq[s] \in Nat /\ j \in Nat
        /\ streams \in [Session -> SUBSET StreamId] /\ pending \in [Session -> SUBSET StreamId]
        /\ closed \in [Session -> SUBSET StreamId]
        /\ bridge \in [Session -> [StreamId -> {"none", "opening", "opened", "wired", "done"}]]
    <2>1. TypeInv /\ WireTypeOK /\ ServerTypeOK
      BY DEF RegistryInv, TypeInv, TypeOK
    <2>2. seq[r] \in Nat /\ seq[s] \in Nat /\ j \in Nat
      BY <2>1, WireAssumption DEF ServerTypeOK, StreamId
    <2> QED
      BY <2>1, <2>2 DEF ServerTypeOK
  <1>2. /\ written \in [Session -> [StreamId -> 0..MaxChunks]] /\ seq \in [Session -> 0..MaxOpens]
        /\ j \in streams[r] => j <= seq[r] /\ j \notin closed[r]
        /\ bridge[r][j] = "wired" => Begun(r, j)
    BY <1>1 DEF TypeInv, TypeOK, ServerTypeOK, StreamInv, StreamOK, IdOK, HeldOK, UnansweredOK
  <1>3. CASE Accept(s) \/ AuthOk(s)
    BY <1>1, <1>2, <1>3 DEF Accept, AuthOk, ServerQuiet, wireVars, streamVars
  <1>4. CASE AuthRejects(s)
    <2>1. UNCHANGED <<toAgent, seq, streams, pending, closed, bridge, written>>
      BY <1>4 DEF AuthRejects, streamVars
    <2>2. /\ wire'[r] = IF r = s /\ wire[s] = "up" THEN "down" ELSE wire[r]
          /\ toServer'[r] = IF r = s THEN <<>> ELSE toServer[r]
      BY <1>1, <1>4, ChannelEnds DEF AuthRejects, TypeInv, TypeOK, WireTypeOK
    <2> QED
      BY <1>1, <2>1, <2>2 DEF ServerQuiet
  <1>5. CASE FrameUnheard(s)
    <2>1. streams[s] = {}
      BY <1>5 DEF FrameUnheard, RegistryInv, RegistryHoldsTheLive, OnlyTheLiveHasStreams
    <2>2. UNCHANGED <<wire, toAgent, seq, streams, pending, closed, bridge, written>>
      BY <1>5 DEF FrameUnheard, serverVars
    <2>3. toServer[s] # <<>> /\ toServer'[r] = IF r = s THEN Tail(toServer[s]) ELSE toServer[r]
      BY <1>1, <1>5, ChannelEnds DEF FrameUnheard
    <2> QED
      BY <1>1, <2>1, <2>2, <2>3 DEF ServerQuiet
  <1>6. CASE SendReady(s)
    <2>1. UNCHANGED <<wire, toServer, seq, streams, pending, closed, bridge, written>>
      BY <1>6 DEF SendReady, streamVars
    <2>2. Ready \in ServerFrame /\ Ready.t = "ready"
          /\ toAgent'[r] = IF r = s /\ wire[s] = "up" THEN Append(toAgent[s], Ready) ELSE toAgent[r]
      BY <1>1, <1>6, ChannelEnds, FramesAreTyped DEF SendReady, Ready
    <2> QED
      BY <1>1, <2>1, <2>2 DEF ServerQuiet
  <1>7. CASE SocketCloses(s)
    <2>1. UNCHANGED <<toAgent, seq, written>>
      BY <1>7 DEF SocketCloses
    <2>2. /\ wire'[r] = IF r = s /\ wire[s] = "up" THEN "down" ELSE wire[r]
          /\ toServer'[r] = IF r = s THEN <<>> ELSE toServer[r]
      BY <1>1, <1>7, ChannelEnds DEF SocketCloses, TypeInv, TypeOK, WireTypeOK
    <2>3. CASE TornDown({s})
      BY <1>1, <2>1, <2>2, <2>3, TearingIsQuiet DEF ServerQuiet
    <2>4. CASE UNCHANGED <<streams, pending, closed, bridge>>
      BY <1>1, <2>1, <2>2, <2>4 DEF ServerQuiet
    <2> QED
      BY <1>7, <2>3, <2>4 DEF SocketCloses
  <1>8. CASE OpenStream(s) /\ ~(r = s /\ j = NextId(s))
    <2> DEFINE i == NextId(s)
    <2>1. /\ streams'[r] = IF r = s THEN streams[s] \cup {i} ELSE streams[r]
          /\ pending'[r] = IF r = s THEN pending[s] \cup {i} ELSE pending[r]
          /\ seq'[r] = IF r = s THEN seq[s] + 1 ELSE seq[r]
          /\ UNCHANGED <<wire, toServer, closed, written>>
      BY <1>1, <1>2, <1>8 DEF OpenStream
    <2>2. bridge'[r][j] = bridge[r][j]
      BY <1>1, <1>8 DEF OpenStream
    <2>3. i \in StreamId /\ Open(i) \in ServerFrame /\ Open(i).t = "open" /\ Open(i).id = i
      BY <1>1, <1>8, FramesAreTyped, WireAssumption DEF OpenStream, NextId, StreamId, Open
    <2>4. toAgent'[r] = IF r = s /\ wire[s] = "up" THEN Append(toAgent[s], Open(i)) ELSE toAgent[r]
      BY <1>1, <1>8, ChannelEnds DEF OpenStream
    <2> HIDE DEF i
    <2> QED
      BY <1>1, <1>8, <2>1, <2>2, <2>3, <2>4 DEF ServerQuiet, i
  <1>9. CASE Hearing(s)
    <2> DEFINE h == Head(toServer[s])
    <2>1. /\ toServer[s] # <<>> /\ h \in AgentFrame
          /\ toServer'[r] = IF r = s THEN Tail(toServer[s]) ELSE toServer[r]
          /\ UNCHANGED <<wire, toAgent>>
      <3>1. toServer[s] # <<>> /\ toServer' = Dropped(toServer, s) /\ UNCHANGED <<wire, toAgent>>
        BY <1>9 DEF Hearing, OnHello, OnOpened, OnOpenErr, OnClose, OnData, Hears, NextIs
      <3> QED
        BY <1>1, <3>1, ChannelEnds, TakenFromServer DEF TypeInv, TypeOK
    <2>2. UNCHANGED <<seq, written>>
      BY <1>9 DEF Hearing, OnHello, OnOpened, OnOpenErr, OnClose, OnData, streamVars
    <2> DEFINE TablesQuiet ==
                 /\ j \in streams'[r] => j \in streams[r]
                 /\ r = s /\ j \in streams'[r] => ~IsFrame(h, "close", j)
                 /\ \/ r = s /\ IsFrame(h, "opened", j)
                    \/ /\ j \in streams'[r] /\ j \in pending[r] => j \in pending'[r]
                       /\ bridge'[r][j] \in {"opened", "wired"} => bridge[r][j] \in {"opened", "wired"}
                 /\ j \in closed'[r] => j \in closed[r] \/ (j \notin streams'[r] /\ j <= seq'[r])
    <2>3. ASSUME TablesQuiet PROVE ServerQuiet(r, j)
      BY <1>1, <2>1, <2>2, <2>3 DEF ServerQuiet
    <2>4. CASE OnHello(s)
      <3>1. h.t = "hello"
        BY <2>4 DEF OnHello, Hears, NextIs
      <3>2. CASE TornDown(Replaced(s))
        BY <1>1, <2>2, <2>3, <3>1, <3>2, TearingIsQuiet
      <3>3. CASE UNCHANGED streamVars
        BY <2>3, <3>1, <3>3 DEF streamVars
      <3> QED
        BY <2>4, <3>2, <3>3 DEF OnHello
    <2>5. CASE OnOpened(s)
      <3>1. h.t = "opened" /\ h.id \in StreamId /\ UNCHANGED <<streams, closed>>
        BY <2>1, <2>5, FrameFields DEF OnOpened, Hears, NextIs
      <3>2. CASE r = s /\ j = h.id
        BY <2>3, <3>1, <3>2
      <3>3. CASE ~(r = s /\ j = h.id)
        <4>1. bridge'[r][j] = bridge[r][j] /\ (j \in pending[r] => j \in pending'[r])
          BY <1>1, <2>5, <3>3 DEF OnOpened
        <4> QED
          BY <2>3, <3>1, <4>1
      <3> QED
        BY <3>2, <3>3
    <2>6. CASE OnOpenErr(s)
      <3>1. h.t = "openerr" /\ h.id \in StreamId /\ UNCHANGED closed
        BY <2>1, <2>6, FrameFields DEF OnOpenErr, Hears, NextIs
      <3>2. /\ j \in streams'[r] => j \in streams[r]
            /\ j \in streams'[r] /\ j \in pending[r] => j \in pending'[r]
            /\ bridge'[r][j] \in {bridge[r][j], "done"}
        <4> HIDE DEF TablesQuiet, h
        <4>1. CASE Rejected(s, h.id)
          BY <1>1, <4>1 DEF Rejected
        <4>2. CASE UNCHANGED <<pending, streams, bridge, sock>>
          BY <4>2
        <4> QED
          BY <2>6, <4>1, <4>2 DEF OnOpenErr, h
      <3> QED
        BY <2>3, <3>1, <3>2
    <2>7. CASE OnClose(s)
      <3>1. h.t = "close" /\ h.id \in StreamId /\ UNCHANGED pending
        BY <2>1, <2>7, FrameFields DEF OnClose, Hears, NextIs
      <3>2. /\ streams'[r] = IF r = s THEN streams[s] \ {h.id} ELSE streams[r]
            /\ closed'[r] = IF r = s /\ h.id \in streams[s] THEN closed[s] \cup {h.id} ELSE closed[r]
        BY <1>1, <2>7 DEF OnClose
      <3>3. bridge'[r][j] \in {bridge[r][j], "done"}
        <4>1. \/ bridge' = [bridge EXCEPT ![s][h.id] = "done"]
              \/ bridge' = bridge
          BY <2>7 DEF OnClose
        <4> HIDE DEF TablesQuiet, h
        <4> QED
          BY <1>1, <4>1
      <3> QED
        BY <1>2, <2>2, <2>3, <3>1, <3>2, <3>3
    <2>8. CASE OnData(s)
      <3>1. h.t = "data" /\ UNCHANGED <<streams, pending, closed, bridge>>
        BY <2>8 DEF OnData, Hears, NextIs
      <3> QED
        BY <2>3, <3>1
    <2> QED
      BY <1>9, <2>4, <2>5, <2>6, <2>7, <2>8 DEF Hearing
  <1>10. ASSUME NEW i \in StreamId, Bridging(s, i), ~(r = s /\ DriverWrites(s, j))
         PROVE  ServerQuiet(r, j)
    <2>1. CASE OpenTimesOut(s, i)
      <3>1. UNCHANGED <<wire, toServer, toAgent, seq, closed, written>> /\ Rejected(s, i)
        BY <2>1 DEF OpenTimesOut, wireVars
      <3>2. /\ j \in streams'[r] => j \in streams[r]
            /\ j \in streams'[r] /\ j \in pending[r] => j \in pending'[r]
            /\ bridge'[r][j] \in {bridge[r][j], "done"}
        BY <1>1, <3>1 DEF Rejected
      <3> QED
        BY <1>1, <3>1, <3>2 DEF ServerQuiet
    <2>2. CASE ResumeBridge(s, i)
      <3>1. /\ UNCHANGED <<wire, toServer, toAgent, seq, streams, pending, closed, written>>
            /\ bridge[s][i] = "opened" /\ bridge' = [bridge EXCEPT ![s][i] = "wired"]
        BY <2>2 DEF ResumeBridge, wireVars
      <3>2. bridge'[r][j] = bridge[r][j] \/ bridge[r][j] = "opened"
        BY <1>1, <3>1
      <3> QED
        BY <1>1, <3>1, <3>2 DEF ServerQuiet
    <2>3. CASE DriverCloses(s, i) \/ DrainEnds(s, i)
      <3>1. UNCHANGED <<wire, toServer, seq, pending, written>>
        BY <2>3 DEF DriverCloses, DrainEnds
      <3>2. CASE UNCHANGED <<toAgent, bridge, closed, streams>>
        BY <1>1, <3>1, <3>2 DEF ServerQuiet
      <3>3. CASE Shutdown(s, i) /\ bridge[s][i] = "wired"
        <4>1. /\ streams'[r] = IF r = s THEN streams[s] \ {i} ELSE streams[r]
              /\ closed'[r] = IF r = s THEN closed[s] \cup {i} ELSE closed[r]
              /\ bridge'[r][j] \in {bridge[r][j], "done"}
          BY <1>1, <3>3 DEF Shutdown
        <4>2. Close(i) \in ServerFrame /\ Close(i).t = "close" /\ Close(i).id = i
          BY FramesAreTyped DEF Close
        <4>3. \/ toAgent'[r] = toAgent[r]
              \/ r = s /\ toAgent'[r] = Append(toAgent[s], Close(i))
          <5>1. toAgent' = toAgent \/ toAgent' = Sent(toAgent, s, Close(i))
            BY <3>3 DEF Shutdown
          <5>2. CASE toAgent' = Sent(toAgent, s, Close(i))
            <6>1. toAgent'[r] = IF r = s /\ wire[s] = "up" THEN Append(toAgent[s], Close(i)) ELSE toAgent[r]
              BY ONLY <1>1, <5>2, ChannelEnds
            <6> QED
              BY <6>1
          <5> QED
            BY <5>1, <5>2
        <4>4. bridge[r][i] # "none" => i <= seq[r]
          BY <1>1, WireAssumption DEF RegistryInv, UnusedIdsAreFresh, StreamId
        <4>5. j \in closed'[r] => j \in closed[r] \/ (j \notin streams'[r] /\ j <= seq'[r])
          BY <3>1, <3>3, <4>1, <4>4
        <4>6. \/ toAgent'[r] = toAgent[r]
              \/ /\ toAgent'[r] = Append(toAgent[r], Close(i))
                 /\ IsFrame(Close(i), "close", j) => j \notin streams'[r] /\ Begun(r, j)
          BY <1>2, <3>3, <4>1, <4>2, <4>3
        <4> HIDE DEF Close
        <4> QED
          BY <1>1, <3>1, <4>1, <4>2, <4>5, <4>6 DEF ServerQuiet
      <3> QED
        BY <2>3, <3>2, <3>3 DEF DriverCloses, DrainEnds
    <2>4. CASE DriverWrites(s, i)
      <3>1. UNCHANGED <<wire, toServer, seq, streams, pending, closed, bridge>>
        BY <2>4 DEF DriverWrites
      <3>2. ~(r = s /\ j = i)
        BY <1>10, <2>4
      <3>3. written'[r][j] = written[r][j] /\ written[s][i] + 1 \in Chunk
        BY <1>2, <2>4, <3>2, WireAssumption DEF DriverWrites, Chunk
      <3> DEFINE f == Data(i, written[s][i] + 1)
      <3>4. f \in ServerFrame /\ f.t = "data" /\ f.id = i
        BY <3>3, FramesAreTyped DEF Data
      <3>5. \/ toAgent'[r] = toAgent[r]
            \/ r = s /\ toAgent'[r] = Append(toAgent[s], f)
        <4>1. toAgent' = toAgent \/ toAgent' = Sent(toAgent, s, f)
          BY <2>4 DEF DriverWrites
        <4> HIDE DEF f
        <4>2. toAgent' = Sent(toAgent, s, f) =>
                 toAgent'[r] = IF r = s /\ wire[s] = "up" THEN Append(toAgent[s], f) ELSE toAgent[r]
          BY <1>1, ChannelEnds
        <4> QED
          BY <4>1, <4>2
      <3> HIDE DEF f
      <3> QED
        BY <1>1, <3>1, <3>2, <3>3, <3>4, <3>5 DEF ServerQuiet
    <2> QED
      BY <1>10, <2>1, <2>2, <2>3, <2>4 DEF Bridging
  <1> QED
    BY <1>3, <1>4, <1>5, <1>6, <1>7, <1>8, <1>9, <1>10 DEF ServerStep

(* A stream that is asked for is unknown to the agent.                     *)
LEMMA OpeningKeepsStream ==
    ASSUME RegistryInv, StreamInv, UNCHANGED clientVars, NEW s \in Session, OpenStream(s),
           NEW j \in StreamId, j = NextId(s)
    PROVE  StreamOK(s, j)'
  <1>1. /\ TypeInv /\ seq[s] \in Nat /\ j = seq[s] + 1 /\ toAgent[s] \in Seq(ServerFrame)
        /\ j > seq[s] /\ seq'[s] = seq[s] + 1
    BY DEF RegistryInv, TypeInv, TypeOK, WireTypeOK, ServerTypeOK, OpenStream, NextId
  <1>2. /\ StreamOK(s, j) /\ gor[s][j] = "none" /\ ~Begun(s, j) /\ j \notin closed[s]
        /\ NoFrameOf(toAgent[s], {"open"}, j) /\ OpenOnce(toAgent[s], j)
        /\ NoFrameOf(toAgent[s], {"close", "data"}, j)
    BY <1>1 DEF StreamInv, StreamOK, IdOK, UnansweredOK, Begun
  <1>3. /\ UNCHANGED <<wire, toServer, closed, written>> /\ UNCHANGED <<cl, gor, conns, dbGot>>
        /\ pending'[s] = pending[s] \cup {j} /\ bridge'[s][j] = "opening"
    <2>1. /\ pending' = [pending EXCEPT ![s] = @ \cup {j}] /\ bridge' = [bridge EXCEPT ![s][j] = "opening"]
          /\ UNCHANGED <<wire, toServer, closed, written>>
      BY DEF OpenStream
    <2>2. pending \in [Session -> SUBSET StreamId] /\ DOMAIN bridge = Session /\ DOMAIN bridge[s] = StreamId
      BY <1>1 DEF TypeInv, TypeOK, ServerTypeOK
    <2> QED
      BY <2>1, <2>2 DEF clientVars
  <1>4. /\ OpenOnce(toAgent'[s], j) /\ NoFrameOf(toAgent'[s], {"close", "data"}, j)
    <2>1. Open(j) \in ServerFrame /\ Open(j).t = "open"
      BY FramesAreTyped DEF Open
    <2>2. toAgent'[s] \in {toAgent[s], Append(toAgent[s], Open(j))}
      BY <1>1, ChannelEnds DEF OpenStream, TypeInv, TypeOK
    <2>3. OpenOnce(Append(toAgent[s], Open(j)), j)
      BY <1>1, <1>2, <2>1, OpensOnWire
    <2>4. NoFrameOf(Append(toAgent[s], Open(j)), {"close", "data"}, j)
      BY <1>1, <1>2, <2>1, NoneSent
    <2> QED
      BY <1>2, <2>2, <2>3, <2>4
  <1>5. NoFrameOf(toAgent'[s], {"close"}, j)
    BY <1>4 DEF NoFrameOf
  <1>6. ~Begun(s, j)' /\ gor'[s][j] = "none"
    BY <1>2, <1>3 DEF Begun
  <1>7. IdOK(s, j)'
    <2>1. ~(j > seq'[s])
      BY <1>1
    <2> QED
      BY <1>2, <1>3, <1>4, <1>6, <2>1 DEF StreamOK, IdOK
  <1>8. UnansweredOK(s, j)'
    BY <1>2, <1>3, <1>4 DEF StreamOK, UnansweredOK
  <1>9. HeldOK(s, j)' /\ ToldOK(s, j)'
    <2>1. j \notin conns'[s]
      BY <1>2, <1>3 DEF StreamOK, IdOK
    <2> QED
      BY <1>2, <1>3, <1>5, <1>6, <2>1 DEF HeldOK, ToldOK
  <1> QED
    BY <1>7, <1>8, <1>9 DEF StreamOK

(* The driver's next chunk follows those on the wire.                      *)
LEMMA WritingKeepsStream ==
    ASSUME RegistryInv, TypeInv', StreamInv, UNCHANGED clientVars, NEW s \in Session,
           NEW j \in StreamId, DriverWrites(s, j)
    PROVE  StreamOK(s, j)'
  <1>1. /\ TypeInv /\ toAgent[s] \in Seq(ServerFrame) /\ written[s][j] \in Nat
        /\ written[s][j] + 1 \in Chunk
    <2>1. TypeInv /\ toAgent[s] \in Seq(ServerFrame)
      BY DEF RegistryInv, TypeInv, TypeOK, WireTypeOK
    <2>2. written[s][j] \in 0..MaxChunks /\ written[s][j] < MaxChunks
      BY <2>1 DEF TypeInv, TypeOK, ServerTypeOK, DriverWrites
    <2> QED
      BY <2>1, <2>2, WireAssumption DEF Chunk
  <1>2. /\ UNCHANGED <<wire, toServer, seq, streams, pending, closed, bridge>>
        /\ UNCHANGED <<cl, gor, conns, dbGot>>
        /\ written'[s][j] = written[s][j] + 1 /\ bridge[s][j] = "wired"
    <2>1. /\ written' = [written EXCEPT ![s][j] = @ + 1] /\ bridge[s][j] = "wired"
          /\ UNCHANGED <<wire, toServer, seq, streams, pending, closed, bridge>>
      BY DEF DriverWrites, ReadsSocket
    <2>2. DOMAIN written = Session /\ DOMAIN written[s] = StreamId
      BY <1>1 DEF TypeInv, TypeOK, ServerTypeOK
    <2> QED
      BY <2>1, <2>2 DEF clientVars
  <1>3. StreamOK(s, j) /\ Begun(s, j) /\ Begun(s, j)' /\ (Served(s)' <=> Served(s))
    BY <1>2 DEF StreamInv, StreamOK, UnansweredOK, Begun, Served
  <1> DEFINE f == Data(j, written[s][j] + 1)
  <1>4. f \in ServerFrame /\ f.t = "data" /\ f.id = j /\ f.n = written[s][j] + 1
    BY <1>1, FramesAreTyped DEF Data
  <1>5. toAgent'[s] = IF j \notin closed[s] /\ wire[s] = "up" THEN Append(toAgent[s], f) ELSE toAgent[s]
    <2>1. toAgent' = IF j \in closed[s] THEN toAgent ELSE Sent(toAgent, s, f)
      BY DEF DriverWrites
    <2>2. toAgent' = Sent(toAgent, s, f) =>
             toAgent'[s] = IF wire[s] = "up" THEN Append(toAgent[s], f) ELSE toAgent[s]
      BY <1>1, ChannelEnds DEF TypeInv, TypeOK
    <2> HIDE DEF f
    <2> QED
      BY <2>1, <2>2
  <1> HIDE DEF f
  <1>6. IdOK(s, j)'
    <2>1. NoFrameOf(toAgent[s], {"open"}, j) => NoFrameOf(Append(toAgent[s], f), {"open"}, j)
      BY <1>1, <1>4, NoneSent
    <2>2. OpenOnce(toAgent[s], j) => OpenOnce(Append(toAgent[s], f), j)
      BY <1>1, <1>4, OpensOnWire DEF IsFrame
    <2>3. j > seq'[s] => j > seq[s]
      BY <1>2
    <2> QED
      BY <1>2, <1>3, <1>5, <2>1, <2>2, <2>3 DEF StreamOK, IdOK
  <1>7. UnansweredOK(s, j)'
    BY <1>3 DEF UnansweredOK
  <1>8. HeldOK(s, j)'
    <2>1. NoFrameOf(toAgent[s], {"close"}, j) => NoFrameOf(Append(toAgent[s], f), {"close"}, j)
      BY <1>1, <1>4, NoneSent
    <2> QED
      BY <1>2, <1>3, <1>5, <2>1 DEF StreamOK, HeldOK
  <1>9. ToldOK(s, j)'
    BY <1>2, <1>3 DEF StreamOK, ToldOK
  <1> QED
    BY <1>6, <1>7, <1>8, <1>9 DEF StreamOK

(* What an agent step may do to a stream that is not about it: read a      *)
(* frame, send one, or drop its connection and say so.                     *)
AgentQuiet(r, j) ==
    /\ UNCHANGED serverVars
    /\ wire'[r] = wire[r] /\ cl'[r] = cl[r]
    /\ \/ gor'[r][j] = gor[r][j]
       \/ gor[r][j] \in {"pumping", "sending"} /\ gor'[r][j] \in {"pumping", "sending", "done"}
    /\ j \in conns'[r] => j \in conns[r]
    /\ wire[r] = "up" /\ j \in streams[r] \cap conns[r] /\ j \notin conns'[r] =>
          Carries(toServer'[r], "close", j)
    /\ Begun(r, j) \/ dbGot'[r][j] = dbGot[r][j]
    /\ \/ toServer'[r] = toServer[r]
       \/ \E f \in AgentFrame :
             /\ toServer'[r] = Append(toServer[r], f)
             /\ ~IsFrame(f, "opened", j)
             /\ IsFrame(f, "close", j) => Begun(r, j)
    /\ \/ toAgent'[r] = toAgent[r]
       \/ toAgent[r] # <<>> /\ toAgent'[r] = Tail(toAgent[r])

LEMMA QuietAgentStep ==
    ASSUME TypeInv, NEW r \in Session, NEW j \in StreamId, StreamOK(r, j), AgentQuiet(r, j)
    PROVE  StreamOK(r, j)'
  <1> DEFINE q == toServer[r]
             p == toAgent[r]
  <1>1. q \in Seq(AgentFrame) /\ p \in Seq(ServerFrame) /\ written[r][j] \in Nat
    BY WireAssumption DEF TypeInv, TypeOK, WireTypeOK, ServerTypeOK
  <1>2. /\ UNCHANGED <<seq, streams, pending, closed, bridge, written>>
        /\ (Begun(r, j) \/ dbGot'[r][j] = dbGot[r][j]) /\ cl'[r] = cl[r]
        /\ (Begun(r, j)' <=> Begun(r, j)) /\ (Served(r)' <=> Served(r))
    BY DEF AgentQuiet, serverVars, Begun, Served
  <1> HIDE DEF q, p
  <1> DEFINE Heard(x) ==
               /\ NoFrameOf(q, {"opened"}, j) => NoFrameOf(x, {"opened"}, j)
               /\ ~Begun(r, j) /\ NoFrameOf(q, {"opened", "close"}, j) => NoFrameOf(x, {"opened", "close"}, j)
               /\ Carries(q, "close", j) => Carries(x, "close", j)
  <1>3. Heard(toServer'[r])
    <2>1. Heard(q)
      OBVIOUS
    <2>2. ASSUME NEW f \in AgentFrame, ~IsFrame(f, "opened", j), IsFrame(f, "close", j) => Begun(r, j)
          PROVE  Heard(Append(q, f))
      <3>1. NoFrameOf(q, {"opened"}, j) => NoFrameOf(Append(q, f), {"opened"}, j)
        BY <1>1, <2>2, NoneSent DEF IsFrame
      <3>2. ~Begun(r, j) /\ NoFrameOf(q, {"opened", "close"}, j) =>
               NoFrameOf(Append(q, f), {"opened", "close"}, j)
        BY <1>1, <2>2, NoneSent DEF IsFrame
      <3>3. Carries(q, "close", j) => Carries(Append(q, f), "close", j)
        BY <1>1, CarriedSent
      <3> QED
        BY <3>1, <3>2, <3>3
    <2> HIDE DEF Heard
    <2> QED
      BY <2>1, <2>2 DEF AgentQuiet, q
  <1>4. \A kinds : NoFrameOf(p, kinds, j) => NoFrameOf(toAgent'[r], kinds, j)
    BY <1>1, NoneRead DEF AgentQuiet, p
  <1>5. OpenOnce(p, j) => OpenOnce(toAgent'[r], j)
    BY <1>1, OpensOnWire DEF AgentQuiet, p
  <1>7. IdOK(r, j)'
    <2>1. gor'[r][j] = "none" <=> gor[r][j] = "none"
      BY DEF AgentQuiet
    <2>2. gor'[r][j] \in {"none", "dialing"} => gor'[r][j] = gor[r][j]
      BY DEF AgentQuiet
    <2>3. j \in conns'[r] => j \in conns[r]
      BY DEF AgentQuiet
    <2> QED
      BY <1>2, <1>4, <1>5, <2>1, <2>2, <2>3 DEF StreamOK, IdOK, p
  <1>8. UnansweredOK(r, j)'
    BY <1>2, <1>3, <1>4 DEF StreamOK, UnansweredOK, p, q
  <1>9. HeldOK(r, j)'
    BY <1>2, <1>4 DEF StreamOK, HeldOK, p
  <1>10. ToldOK(r, j)'
    <2> SUFFICES ASSUME Served(r), j \in streams[r], gor'[r][j] \notin {"none", "dialing"},
                        j \notin conns'[r], ~Carries(toServer'[r], "close", j)
                 PROVE  gor'[r][j] = "done" /\ j \in pending[r] /\ NoFrameOf(toServer'[r], {"opened"}, j)
      BY <1>2 DEF ToldOK
    <2>1. j \notin conns[r] /\ gor[r][j] \notin {"none", "dialing"}
      BY DEF AgentQuiet, Served
    <2>2. gor[r][j] = "done" /\ j \in pending[r] /\ NoFrameOf(q, {"opened"}, j)
      BY <1>3, <2>1 DEF StreamOK, ToldOK, q
    <2> QED
      BY <1>3, <2>2 DEF AgentQuiet
  <1> QED
    BY <1>7, <1>8, <1>9, <1>10 DEF StreamOK

(* Steps of the agent that are about one stream.                           *)
Asked(s, j) == HandleOpen(s) /\ Head(toAgent[s]).id = j
Dialled(s, j) == DialFails(s, j) \/ DialSucceeds(s, j) \/ SendOpened(s, j)

LEMMA DroppingIsQuiet ==
    ASSUME TypeInv, StreamInv, NEW s \in Session, NEW i \in StreamId, DropAndNotify(s, i),
           Begun(s, i), NEW r \in Session, NEW j \in StreamId
    PROVE  /\ j \in conns'[r] => j \in conns[r] /\ ~(r = s /\ j = i)
           /\ wire[r] = "up" /\ j \in streams[r] \cap conns[r] /\ j \notin conns'[r] =>
                 Carries(toServer'[r], "close", j)
           /\ \/ toServer'[r] = toServer[r]
              \/ \E f \in AgentFrame :
                    /\ toServer'[r] = Append(toServer[r], f)
                    /\ ~IsFrame(f, "opened", j)
                    /\ IsFrame(f, "close", j) => Begun(r, j)
  <1>1. /\ conns'[r] = IF r = s THEN conns[s] \ {i} ELSE conns[r]
        /\ toServer[r] \in Seq(AgentFrame)
    BY DEF DropAndNotify, TypeInv, TypeOK, WireTypeOK, ClientTypeOK
  <1>2. Close(i) \in AgentFrame /\ Close(i).t = "close" /\ Close(i).id = i
    BY FramesAreTyped DEF Close
  <1>3. toServer'[r] = IF r = s /\ i \in conns[s] /\ wire[s] = "up"
                       THEN Append(toServer[s], Close(i)) ELSE toServer[r]
    <2>1. toServer' = IF i \in conns[s] THEN Sent(toServer, s, Close(i)) ELSE toServer
      BY DEF DropAndNotify
    <2>2. toServer' = Sent(toServer, s, Close(i)) =>
             toServer'[r] = IF r = s /\ wire[s] = "up" THEN Append(toServer[s], Close(i)) ELSE toServer[r]
      BY ChannelEnds DEF TypeInv, TypeOK
    <2> HIDE DEF Close
    <2> QED
      BY <2>1, <2>2
  <1> HIDE DEF Close
  <1>4. IsFrame(Close(i), "close", i) /\ ~IsFrame(Close(i), "opened", j)
        /\ (IsFrame(Close(i), "close", j) => j = i)
    BY <1>2 DEF IsFrame
  <1>5. Carries(Append(toServer[r], Close(i)), "close", i)
    BY <1>1, <1>2, <1>4, CarriedSent
  <1> QED
    BY <1>1, <1>2, <1>3, <1>4, <1>5

LEMMA AgentStepsAreQuiet ==
    ASSUME TypeInv, StreamInv, UNCHANGED serverVars, NEW s \in Session,
           NEW r \in Session, NEW j \in StreamId, ClientStep(s)
    PROVE  \/ AgentQuiet(r, j)
           \/ r = s /\ (ClientDial(s) \/ ClientEnds(s) \/ Asked(s, j) \/ Dialled(s, j))
  <1>1. /\ wire \in [Session -> {"idle", "up", "down"}]
        /\ toServer \in [Session -> Seq(AgentFrame)] /\ toAgent \in [Session -> Seq(ServerFrame)]
    BY DEF TypeInv, TypeOK, WireTypeOK
  <1>2. /\ gor \in [Session -> [StreamId -> {"none", "dialing", "registered", "pumping", "sending", "done"}]]
        /\ conns \in [Session -> SUBSET StreamId] /\ cl \in [Session -> {"new", "running", "ended"}]
    BY DEF TypeInv, TypeOK, ClientTypeOK
  <1>a. /\ dbGot \in [Session -> [StreamId -> Seq(Chunk)]]
        /\ dbSent \in [Session -> [StreamId -> 0..MaxChunks]]
    BY DEF TypeInv, TypeOK, ClientTypeOK
  <1>3. CASE r # s /\ (ClientDial(s) \/ ClientEnds(s))
    BY <1>1, <1>2, <1>3 DEF ClientDial, ClientEnds, WireDown, AgentQuiet
  <1>4. CASE HandleReady(s)
    <2>1. /\ toAgent[s] # <<>> /\ Head(toAgent[s]).t = "ready" /\ toAgent' = Dropped(toAgent, s)
          /\ UNCHANGED <<wire, toServer, cl, gor, conns, dbGot>>
      BY <1>4 DEF HandleReady, Reads, NextIs
    <2>2. toAgent'[r] = IF r = s THEN Tail(toAgent[s]) ELSE toAgent[r]
      BY <2>1, ChannelEnds DEF TypeInv, TypeOK
    <2> QED
      BY <2>1, <2>2 DEF AgentQuiet, IsFrame
  <1>5. CASE HandleOpen(s) /\ ~(r = s /\ Asked(s, j))
    <2> DEFINE i == Head(toAgent[s]).id
    <2>1. /\ toAgent[s] # <<>> /\ Head(toAgent[s]).t = "open" /\ toAgent' = Dropped(toAgent, s)
          /\ UNCHANGED <<wire, cl, conns, dbGot>>
      BY <1>5 DEF HandleOpen, Reads, NextIs
    <2>2. /\ toAgent'[r] = IF r = s THEN Tail(toAgent[s]) ELSE toAgent[r]
          /\ i \in StreamId /\ ~(r = s /\ j = i)
      BY <1>5, <2>1, ChannelEnds, TakenFromAgent, FrameFields DEF TypeInv, TypeOK, Asked
    <2>3. OpenErr(i) \in AgentFrame /\ OpenErr(i).t = "openerr"
      BY <2>2, FramesAreTyped DEF OpenErr
    <2> HIDE DEF i
    <2>4. CASE toServer' = Sent(toServer, s, OpenErr(i)) /\ gor' = gor
      <3>1. toServer'[r] \in {toServer[r], Append(toServer[r], OpenErr(i))}
        BY <2>4, ChannelEnds DEF TypeInv, TypeOK
      <3> QED
        BY <2>1, <2>2, <2>3, <2>4, <3>1 DEF AgentQuiet, IsFrame
    <2>5. CASE gor' = [gor EXCEPT ![s][i] = "dialing"] /\ toServer' = toServer
      <3>1. gor'[r][j] = gor[r][j]
        BY <1>2, <2>2, <2>5
      <3> QED
        BY <2>1, <2>2, <2>5, <3>1 DEF AgentQuiet, IsFrame
    <2> QED
      BY <1>5, <2>4, <2>5 DEF HandleOpen, i
  <1>6. CASE HandleServerClose(s)
    <2> DEFINE i == Head(toAgent[s]).id
    <2>1. /\ toAgent[s] # <<>> /\ Head(toAgent[s]).t = "close" /\ toAgent' = Dropped(toAgent, s)
          /\ conns' = [conns EXCEPT ![s] = @ \ {i}]
          /\ UNCHANGED <<wire, toServer, cl, gor, dbGot>>
      BY <1>6 DEF HandleServerClose, Reads, NextIs
    <2>2. toAgent'[r] = IF r = s THEN Tail(toAgent[s]) ELSE toAgent[r]
      BY <2>1, ChannelEnds DEF TypeInv, TypeOK
    <2>3. conns'[r] = IF r = s THEN conns[s] \ {i} ELSE conns[r]
      BY <1>2, <2>1
    <2>4. r = s /\ j = i => j \notin streams[r]
      BY <1>1, <2>1, NoneRead DEF StreamInv, StreamOK, HeldOK
    <2> HIDE DEF i
    <2> QED
      BY <2>1, <2>2, <2>3, <2>4 DEF AgentQuiet, IsFrame
  <1>7. CASE HandleData(s)
    <2> DEFINE i == Head(toAgent[s]).id
    <2>1. /\ toAgent[s] # <<>> /\ Head(toAgent[s]).t = "data" /\ toAgent' = Dropped(toAgent, s)
          /\ UNCHANGED <<wire, cl, gor>>
      BY <1>7 DEF HandleData, Reads, NextIs
    <2>2. /\ toAgent'[r] = IF r = s THEN Tail(toAgent[s]) ELSE toAgent[r]
          /\ i \in StreamId
      BY <2>1, ChannelEnds, TakenFromAgent, FrameFields DEF TypeInv, TypeOK
    <2>3. Begun(s, i)
      <3>1. Head(toAgent[s]).id = i /\ toAgent[s] \in Seq(ServerFrame)
        BY <1>1
      <3> HIDE DEF i
      <3>2. ~NoFrameOf(toAgent[s], {"close", "data"}, i)
        BY <2>1, <3>1, NoneRead
      <3> QED
        BY <2>2, <3>2 DEF StreamInv, StreamOK, UnansweredOK
    <2>4. CASE /\ dbGot' = IF i \in conns[s] THEN [dbGot EXCEPT ![s][i] = Append(@, Head(toAgent[s]).n)] ELSE dbGot
               /\ UNCHANGED <<conns, toServer>>
      <3>1. (r = s /\ j = i) \/ dbGot'[r][j] = dbGot[r][j]
        BY <1>a, <2>2, <2>4
      <3> HIDE DEF i
      <3> QED
        BY <2>1, <2>2, <2>3, <2>4, <3>1 DEF AgentQuiet
    <2>5. CASE DropAndNotify(s, i) /\ UNCHANGED dbGot
      <3> HIDE DEF i
      <3> QED
        BY <2>1, <2>2, <2>3, <2>5, DroppingIsQuiet DEF AgentQuiet
    <2> QED
      BY <1>7, <2>4, <2>5 DEF HandleData
  <1>8. ASSUME NEW i \in StreamId, Dialled(s, i), ~(r = s /\ Dialled(s, j))
        PROVE  AgentQuiet(r, j)
    <2>1. /\ UNCHANGED <<wire, toAgent, cl, dbGot>> /\ ~(r = s /\ j = i)
      BY <1>8 DEF Dialled, DialFails, DialSucceeds, SendOpened
    <2>2. /\ \E g : gor' = [gor EXCEPT ![s][i] = g]
          /\ conns' = conns \/ conns' = [conns EXCEPT ![s] = @ \cup {i}]
          /\ toServer' = toServer \/ \E f \in {OpenErr(i), Opened(i)} : toServer' = Sent(toServer, s, f)
      BY <1>8 DEF Dialled, DialFails, DialSucceeds, SendOpened
    <2>3. gor'[r][j] = gor[r][j] /\ (j \in conns'[r] <=> j \in conns[r])
      BY <1>2, <2>1, <2>2
    <2>4. /\ OpenErr(i) \in AgentFrame /\ OpenErr(i).t = "openerr" /\ OpenErr(i).id = i
          /\ Opened(i) \in AgentFrame /\ Opened(i).t = "opened" /\ Opened(i).id = i
      BY FramesAreTyped DEF OpenErr, Opened
    <2>5. \/ toServer'[r] = toServer[r]
          \/ r = s /\ toServer'[r] = Append(toServer[r], OpenErr(i))
          \/ r = s /\ toServer'[r] = Append(toServer[r], Opened(i))
      <3> HIDE DEF OpenErr, Opened
      <3>1. ASSUME NEW f, toServer' = Sent(toServer, s, f)
            PROVE  toServer'[r] = toServer[r] \/ (r = s /\ toServer'[r] = Append(toServer[r], f))
        <4>1. toServer'[r] = IF r = s /\ wire[s] = "up" THEN Append(toServer[s], f) ELSE toServer[r]
          BY <3>1, ChannelEnds DEF TypeInv, TypeOK
        <4> QED
          BY <4>1
      <3> QED
        BY <2>2, <3>1
    <2> HIDE DEF OpenErr, Opened
    <2> QED
      BY <2>1, <2>3, <2>4, <2>5 DEF AgentQuiet, IsFrame
  <1>9. ASSUME NEW i \in StreamId, PumpReads(s, i) \/ PumpStops(s, i)
        PROVE  AgentQuiet(r, j)
    <2>1. /\ UNCHANGED <<wire, toServer, toAgent, cl, conns, dbGot>> /\ gor[s][i] = "pumping"
          /\ \E g \in {"sending", "done"} : gor' = [gor EXCEPT ![s][i] = g]
      BY <1>9 DEF PumpReads, PumpStops
    <2>2. gor'[r][j] = gor[r][j] \/ (gor[r][j] = "pumping" /\ gor'[r][j] \in {"sending", "done"})
      BY <1>2, <2>1
    <2> QED
      BY <2>1, <2>2 DEF AgentQuiet
  <1>10. ASSUME NEW i \in StreamId, PumpSends(s, i)
         PROVE  AgentQuiet(r, j)
    <2> DEFINE f == Data(i, dbSent[s][i])
    <2>1. /\ UNCHANGED <<wire, toAgent, cl, conns, dbGot>> /\ gor[s][i] = "sending"
          /\ gor' = [gor EXCEPT ![s][i] = "pumping"] /\ toServer' = Sent(toServer, s, f)
      BY <1>10 DEF PumpSends
    <2>2. gor'[r][j] = gor[r][j] \/ (gor[r][j] = "sending" /\ gor'[r][j] = "pumping")
      BY <1>2, <2>1
    <2>3. f \in AgentFrame /\ f.t = "data"
      <3>1. dbSent[s][i] \in Chunk
        BY <1>a, <2>1, WireAssumption DEF Chunk, TypeInv, ChunkInHand
      <3> QED
        BY <3>1, FramesAreTyped DEF Data
    <2> HIDE DEF f
    <2>4. toServer'[r] \in {toServer[r], Append(toServer[r], f)}
      BY <2>1, ChannelEnds DEF TypeInv, TypeOK
    <2> QED
      BY <2>1, <2>2, <2>3, <2>4 DEF AgentQuiet, IsFrame
  <1>11. ASSUME NEW i \in StreamId, DatabaseCloses(s, i)
         PROVE  AgentQuiet(r, j)
    <2>1. /\ UNCHANGED <<wire, toAgent, cl, dbGot>> /\ gor[s][i] = "pumping"
          /\ gor' = [gor EXCEPT ![s][i] = "done"] /\ DropAndNotify(s, i)
      BY <1>11 DEF DatabaseCloses
    <2>2. gor'[r][j] = gor[r][j] \/ (gor[r][j] = "pumping" /\ gor'[r][j] = "done")
      BY <1>2, <2>1
    <2> QED
      BY <2>1, <2>2, DroppingIsQuiet DEF AgentQuiet, Begun
  <1>12. ASSUME NEW i \in StreamId, StreamGoroutine(s, i), ~(r = s /\ Dialled(s, j))
         PROVE  AgentQuiet(r, j)
    BY <1>8, <1>9, <1>10, <1>11, <1>12 DEF StreamGoroutine, Dialled
  <1> QED
    BY <1>3, <1>4, <1>5, <1>6, <1>7, <1>12 DEF ClientStep, ClientReads

(* The agent dials, and the session ends.                                  *)
LEMMA EndsKeepStream ==
    ASSUME TypeInv, StreamInv, UNCHANGED serverVars, NEW s \in Session,
           ClientDial(s) \/ ClientEnds(s), NEW j \in StreamId
    PROVE  StreamOK(s, j)'
  <1>1. /\ StreamOK(s, j) /\ UNCHANGED <<seq, streams, pending, closed, bridge, written, gor, dbGot>>
        /\ (Begun(s, j)' <=> Begun(s, j))
    BY DEF StreamInv, serverVars, ClientDial, ClientEnds, Begun
  <1>2. CASE ClientDial(s)
    <2>1. gor[s][j] = "none" /\ ~Begun(s, j)
      BY <1>1, <1>2 DEF ClientDial, StreamOK, IdOK, Begun
    <2>2. toServer'[s] = <<Hello>> /\ cl'[s] = "running" /\ UNCHANGED <<toAgent, conns>>
      BY <1>2 DEF ClientDial, TypeInv, TypeOK, WireTypeOK, ClientTypeOK
    <2>3. NoFrameOf(toServer'[s], {"opened", "close"}, j)
      BY <2>2 DEF NoFrameOf, Hello
    <2>4. j \notin conns[s]
      BY <1>1, <2>1 DEF StreamOK, IdOK
    <2>5. IdOK(s, j)' /\ HeldOK(s, j)' /\ ToldOK(s, j)'
      BY <1>1, <2>1, <2>2, <2>4 DEF StreamOK, IdOK, HeldOK, ToldOK
    <2>6. UnansweredOK(s, j)'
      BY <1>1, <2>1, <2>2, <2>3 DEF StreamOK, UnansweredOK
    <2> QED
      BY <2>5, <2>6 DEF StreamOK
  <1>3. CASE ClientEnds(s)
    <2>1. toAgent'[s] = <<>> /\ conns'[s] = {} /\ cl'[s] = "ended" /\ UNCHANGED toServer
      BY <1>3 DEF ClientEnds, TypeInv, TypeOK, WireTypeOK, ClientTypeOK
    <2>2. OpenOnce(<<>>, j) /\ \A kinds : NoFrameOf(<<>>, kinds, j)
      BY DEF OpenOnce, NoFrameOf
    <2>3. ~Served(s)'
      BY <2>1 DEF Served
    <2>4. IdOK(s, j)' /\ HeldOK(s, j)' /\ ToldOK(s, j)'
      BY <1>1, <2>1, <2>2, <2>3 DEF StreamOK, IdOK, HeldOK, ToldOK
    <2>5. UnansweredOK(s, j)'
      BY <1>1, <2>1, <2>2 DEF StreamOK, UnansweredOK
    <2> QED
      BY <2>4, <2>5 DEF StreamOK
  <1> QED
    BY <1>2, <1>3

(* The open is read: once, since it was sent once.                         *)
LEMMA AskingKeepsStream ==
    ASSUME TypeInv, StreamInv, UNCHANGED serverVars, NEW s \in Session, NEW j \in StreamId,
           Asked(s, j)
    PROVE  StreamOK(s, j)'
  <1> DEFINE p == toAgent[s]
  <1>1. /\ StreamOK(s, j) /\ UNCHANGED <<seq, streams, pending, closed, bridge, written>>
        /\ UNCHANGED <<wire, cl, conns, dbGot>> /\ p \in Seq(ServerFrame) /\ p # <<>>
        /\ IsFrame(Head(p), "open", j)
    BY DEF StreamInv, serverVars, Asked, HandleOpen, Reads, NextIs, IsFrame, TypeInv, TypeOK, WireTypeOK
  <1>2. toAgent'[s] = Tail(p)
    BY <1>1, ChannelEnds DEF Asked, HandleOpen, TypeInv, TypeOK
  <1> HIDE DEF p
  <1>3. gor[s][j] = "none" /\ ~Begun(s, j) /\ ~(j > seq[s])
    BY <1>1, NoneRead DEF StreamOK, IdOK, IsFrame, Begun, p
  <1>4. /\ OpenOnce(Tail(p), j) /\ NoFrameOf(Tail(p), {"open"}, j)
        /\ \A kinds : NoFrameOf(p, kinds, j) => NoFrameOf(Tail(p), kinds, j)
    BY <1>1, OpensOnWire, NoneRead DEF StreamOK, IdOK, p
  <1>5. gor'[s][j] \in {"none", "dialing"} /\ ~Begun(s, j)'
    <2>1. gor' = gor \/ gor' = [gor EXCEPT ![s][j] = "dialing"]
      BY DEF Asked, HandleOpen
    <2>2. gor'[s][j] \in {"none", "dialing"}
      BY <1>3, <2>1 DEF TypeInv, TypeOK, ClientTypeOK
    <2> QED
      BY <2>2 DEF Begun
  <1>6. NoFrameOf(toServer[s], {"opened", "close"}, j) => NoFrameOf(toServer'[s], {"opened", "close"}, j)
    <2>1. OpenErr(j) \in AgentFrame /\ OpenErr(j).t = "openerr" /\ toServer[s] \in Seq(AgentFrame)
      BY FramesAreTyped DEF OpenErr, TypeInv, TypeOK, WireTypeOK
    <2>2. toServer' = toServer \/ toServer' = Sent(toServer, s, OpenErr(j))
      BY DEF Asked, HandleOpen
    <2> HIDE DEF OpenErr
    <2>3. toServer'[s] \in {toServer[s], Append(toServer[s], OpenErr(j))}
      BY <2>2, ChannelEnds DEF TypeInv, TypeOK
    <2> QED
      BY <2>1, <2>3, NoneSent
  <1>7. IdOK(s, j)'
    <2>1. j \notin conns[s] /\ cl[s] = "running"
      BY <1>1, <1>3 DEF StreamOK, IdOK, Asked, HandleOpen, Reads
    <2> QED
      BY <1>1, <1>2, <1>3, <1>4, <2>1 DEF IdOK
  <1>8. UnansweredOK(s, j)'
    BY <1>1, <1>2, <1>3, <1>4, <1>6 DEF StreamOK, UnansweredOK, p
  <1>9. HeldOK(s, j)'
    BY <1>1, <1>2, <1>4 DEF StreamOK, HeldOK, p
  <1>10. ToldOK(s, j)'
    BY <1>1, <1>3, <1>5 DEF StreamOK, IdOK, ToldOK
  <1> QED
    BY <1>7, <1>8, <1>9, <1>10 DEF StreamOK

(* The dial ends and the answer is sent: until then nothing but the open   *)
(* and its answer has been on the wire.                                    *)
LEMMA DiallingKeepsStream ==
    ASSUME TypeInv, StreamInv, UNCHANGED serverVars, NEW s \in Session, NEW j \in StreamId,
           Dialled(s, j)
    PROVE  StreamOK(s, j)'
  <1> DEFINE q == toServer[s]
  <1>1. /\ StreamOK(s, j) /\ UNCHANGED <<seq, streams, pending, closed, bridge, written>>
        /\ UNCHANGED <<wire, toAgent, cl, dbGot>> /\ q \in Seq(AgentFrame)
        /\ gor[s][j] \in {"dialing", "registered"} /\ (Served(s)' <=> Served(s))
    BY DEF StreamInv, serverVars, Dialled, DialFails, DialSucceeds, SendOpened, Served, TypeInv,
       TypeOK, WireTypeOK
  <1>2. /\ ~Begun(s, j) /\ NoFrameOf(q, {"opened", "close"}, j)
        /\ NoFrameOf(toAgent[s], {"close", "data"}, j) /\ (j \in streams[s] => j \in pending[s])
        /\ written[s][j] = 0 /\ dbGot[s][j] = <<>> /\ bridge[s][j] \notin {"opened", "wired"}
    BY <1>1 DEF StreamOK, UnansweredOK, Begun
  <1>3. /\ gor \in [Session -> [StreamId -> {"none", "dialing", "registered", "pumping", "sending", "done"}]]
        /\ conns \in [Session -> SUBSET StreamId]
    BY DEF TypeInv, TypeOK, ClientTypeOK
  <1>4. /\ OpenErr(j) \in AgentFrame /\ OpenErr(j).t = "openerr"
        /\ Opened(j) \in AgentFrame /\ Opened(j).t = "opened"
    BY FramesAreTyped DEF OpenErr, Opened
  <1> HIDE DEF q, OpenErr, Opened
  <1>5. ASSUME NEW f, toServer' = Sent(toServer, s, f) PROVE toServer'[s] \in {q, Append(q, f)}
    BY <1>5, ChannelEnds DEF q, TypeInv, TypeOK
  <1>6. HeldOK(s, j)' /\ NoFrameOf(toAgent[s], {"open"}, j) /\ OpenOnce(toAgent[s], j)
        /\ ~(j > seq[s]) /\ cl[s] # "new"
    BY <1>1 DEF StreamOK, HeldOK, IdOK
  <1>7. ASSUME gor'[s][j] # "none", gor'[s][j] = "dialing" => j \notin conns'[s] PROVE IdOK(s, j)'
    BY <1>1, <1>6, <1>7 DEF IdOK
  <1>8. CASE /\ gor' = [gor EXCEPT ![s][j] = "done"] /\ conns' = conns
             /\ gor[s][j] = "dialing" /\ toServer' = Sent(toServer, s, OpenErr(j))
    <2>1. gor'[s][j] = "done" /\ j \notin conns'[s]
      BY <1>1, <1>3, <1>8 DEF StreamOK, IdOK
    <2>2. NoFrameOf(toServer'[s], {"opened", "close"}, j)
      <3>1. NoFrameOf(Append(q, OpenErr(j)), {"opened", "close"}, j)
        BY <1>1, <1>2, <1>4, NoneSent
      <3>2. toServer'[s] \in {q, Append(q, OpenErr(j))}
        BY <1>5, <1>8
      <3> QED
        BY <1>2, <3>1, <3>2
    <2>3. NoFrameOf(toServer'[s], {"opened"}, j)
      BY <2>2 DEF NoFrameOf
    <2> QED
      BY <1>1, <1>2, <1>6, <1>7, <2>1, <2>3 DEF StreamOK, UnansweredOK, ToldOK, Begun
  <1>9. CASE /\ gor' = [gor EXCEPT ![s][j] = "registered"] /\ conns' = [conns EXCEPT ![s] = @ \cup {j}]
             /\ toServer' = toServer
    <2>1. gor'[s][j] = "registered" /\ j \in conns'[s] /\ ~Begun(s, j)'
      BY <1>3, <1>9 DEF Begun
    <2>2. UnansweredOK(s, j)'
      BY <1>1, <1>2, <1>9 DEF UnansweredOK, q
    <2> QED
      BY <1>6, <1>7, <2>1, <2>2 DEF StreamOK, ToldOK
  <1>10. CASE /\ gor' = [gor EXCEPT ![s][j] = "pumping"] /\ conns' = conns
              /\ gor[s][j] = "registered" /\ toServer' = Sent(toServer, s, Opened(j))
    <2>1. gor'[s][j] = "pumping" /\ Begun(s, j)'
      BY <1>3, <1>10 DEF Begun
    <2>2. Carries(q, "close", j) => Carries(toServer'[s], "close", j)
      BY <1>1, <1>4, <1>5, <1>10, CarriedSent
    <2>3. ToldOK(s, j)'
      BY <1>1, <1>10, <2>2 DEF StreamOK, ToldOK, q
    <2> QED
      BY <1>6, <1>7, <2>1, <2>3 DEF StreamOK, UnansweredOK
  <1> QED
    BY <1>8, <1>9, <1>10 DEF Dialled, DialFails, DialSucceeds, SendOpened

LEMMA StreamInvStep == RegistryInv /\ StreamInv /\ [Next]_vars => StreamInv'
  <1> SUFFICES ASSUME RegistryInv, StreamInv, [Next]_vars, NEW r \in Session, NEW j \in StreamId
               PROVE  StreamOK(r, j)'
    BY DEF StreamInv
  <1>1. TypeInv /\ TypeInv' /\ StreamOK(r, j)
    BY TypeStep DEF RegistryInv, StreamInv
  <1>2. CASE ServerNext /\ UNCHANGED clientVars
    <2>1. PICK s \in Session : ServerStep(s)
      BY <1>2 DEF ServerNext, ServerStep
    <2>2. \/ ServerQuiet(r, j)
          \/ r = s /\ j = NextId(s) /\ OpenStream(s)
          \/ r = s /\ DriverWrites(s, j)
      BY <1>2, <2>1, ServerStepsAreQuiet
    <2> QED
      BY <1>1, <1>2, <2>2, QuietServerStep, OpeningKeepsStream, WritingKeepsStream
  <1>3. CASE ClientNext /\ UNCHANGED serverVars
    <2>1. PICK s \in Session : ClientStep(s)
      BY <1>3 DEF ClientNext, ClientStep
    <2>2. \/ AgentQuiet(r, j)
          \/ r = s /\ (ClientDial(s) \/ ClientEnds(s) \/ Asked(s, j) \/ Dialled(s, j))
      BY <1>1, <1>3, <2>1, AgentStepsAreQuiet
    <2> QED
      BY <1>1, <1>3, <2>2, QuietAgentStep, EndsKeepStream, AskingKeepsStream,
         DiallingKeepsStream
  <1>4. CASE UNCHANGED vars
    <2>1. UNCHANGED <<wire, toServer, toAgent, seq, streams, pending, closed, bridge, written>>
          /\ UNCHANGED <<cl, gor, conns, dbGot>>
      BY <1>4 DEF vars, wireVars, serverVars, clientVars
    <2> QED
      BY <1>1, <2>1 DEF StreamOK, IdOK, UnansweredOK, HeldOK, ToldOK, Begun, Served
  <1> QED
    BY <1>2, <1>3, <1>4 DEF Next

LEMMA StreamInvariant == Spec => []StreamInv
  BY InitStreams, StreamInvStep, RegistryInvariant, PTL DEF Spec

(* pumpTCPToServer and dropStream: whoever takes an answered stream's      *)
(* connection out of the agent's table has queued its close, so a stream   *)
(* the server believes open has its connection or learns that it has not.  *)
THEOREM DatabaseEndsAreAnnounced == Spec => []DatabaseEndIsAnnounced
  <1>1. RegistryInv /\ StreamInv => DatabaseEndIsAnnounced
    <2> SUFFICES ASSUME RegistryInv, StreamInv, NEW s \in Session, Healthy(s),
                        NEW i \in streams[s] \ pending[s], i \notin conns[s]
                 PROVE  InFlight(toServer, s, "close", i) # {}
      BY DEF DatabaseEndIsAnnounced
    <2>1. i \in StreamId
      BY DEF RegistryInv, TypeInv, TypeOK, ServerTypeOK
    <2>2. Carries(toServer[s], "close", i)
      BY <2>1 DEF StreamInv, StreamOK, UnansweredOK, ToldOK, Begun, Served, Healthy
    <2> QED
      BY <2>2 DEF Carries, IsFrame, InFlight
  <1> QED
    BY <1>1, RegistryInvariant, StreamInvariant, PTL

----------------------------------------------------------------------------
(* From the driver to the database.  AgentStream.write sends while the     *)
(* server has not closed the stream.                                       *)
Unclosed(s) == StreamId \ closed[s]
WritingInv == \A s \in Session : \A i \in StreamId : WritingOK(s, i, written[s][i], Unclosed(s))

LEMMA InitWriting == Init => WritingInv
  <1> SUFFICES ASSUME Init, NEW s \in Session, NEW i \in StreamId
               PROVE  WritingOK(s, i, written[s][i], Unclosed(s))
    BY DEF WritingInv
  <1>1. written[s][i] = 0 /\ dbGot[s][i] = <<>> /\ i \notin conns[s]
    BY DEF Init, ServerInit, ClientInit
  <1>2. Len(dbGot[s][i]) = 0
    BY <1>1
  <1> QED
    BY <1>1, <1>2 DEF WritingOK

(* What is closed stays closed.                                            *)
LEMMA ClosedStays ==
    ASSUME TypeInv, NEW s \in Session, ServerStep(s), NEW r \in Session
    PROVE  closed[r] \subseteq closed'[r]
  <1>1. closed \in [Session -> SUBSET StreamId]
    BY DEF TypeInv, TypeOK, ServerTypeOK
  <1>2. ASSUME NEW S, TornDown(S) PROVE closed[r] \subseteq closed'[r]
    BY <1>2 DEF TornDown
  <1>3. ASSUME NEW i, closed' = [closed EXCEPT ![s] = closed[s] \cup {i}] \/ closed' = closed
        PROVE  closed[r] \subseteq closed'[r]
    BY <1>1, <1>3
  <1>4. CASE Accept(s) \/ AuthOk(s) \/ AuthRejects(s) \/ FrameUnheard(s) \/ SendReady(s) \/ OpenStream(s)
    BY <1>4 DEF Accept, AuthOk, AuthRejects, FrameUnheard, SendReady, OpenStream, serverVars, streamVars
  <1>5. CASE SocketCloses(s)
    BY <1>2, <1>5 DEF SocketCloses
  <1>6. CASE Hearing(s)
    <2>1. CASE OnHello(s)
      BY <1>2, <2>1 DEF OnHello, streamVars
    <2>2. CASE OnOpened(s) \/ OnOpenErr(s) \/ OnData(s)
      BY <2>2 DEF OnOpened, OnOpenErr, OnData
    <2>3. CASE OnClose(s)
      BY <1>3, <2>3 DEF OnClose
    <2> QED
      BY <1>6, <2>1, <2>2, <2>3 DEF Hearing
  <1>7. ASSUME NEW i \in StreamId, Bridging(s, i) PROVE closed[r] \subseteq closed'[r]
    <2>1. CASE OpenTimesOut(s, i) \/ ResumeBridge(s, i) \/ DriverWrites(s, i)
      BY <2>1 DEF OpenTimesOut, ResumeBridge, DriverWrites
    <2>2. CASE DriverCloses(s, i) \/ DrainEnds(s, i)
      <3>1. closed' = [closed EXCEPT ![s] = closed[s] \cup {i}] \/ closed' = closed
        BY <2>2 DEF DriverCloses, DrainEnds, Shutdown
      <3> QED
        BY <1>3, <3>1
    <2> QED
      BY <1>7, <2>1, <2>2 DEF Bridging
  <1> QED
    BY <1>4, <1>5, <1>6, <1>7 DEF ServerStep

LEMMA ServerKeepsWriting ==
    ASSUME RegistryInv, StreamInv, WritingInv, UNCHANGED clientVars, NEW s \in Session,
           ServerStep(s), NEW r \in Session, NEW j \in StreamId
    PROVE  WritingOK(r, j, written[r][j], Unclosed(r))'
  <1>1. /\ TypeInv /\ WireTypeOK /\ ClientTypeOK /\ WritingOK(r, j, written[r][j], Unclosed(r))
        /\ toAgent[r] \in Seq(ServerFrame)
    BY DEF RegistryInv, TypeInv, TypeOK, WritingInv, WireTypeOK
  <1>2. written[r][j] \in Nat /\ (written[r][j] < MaxChunks => written[r][j] + 1 \in Chunk)
    <2>1. written[r][j] \in 0..MaxChunks
      BY <1>1 DEF TypeInv, TypeOK, ServerTypeOK
    <2> QED
      BY <2>1, WireAssumption DEF Chunk
  <1>3. j \in Unclosed(r)' => j \in Unclosed(r)
    BY <1>1, ClosedStays DEF Unclosed
  <1> DEFINE Undisturbed ==
               /\ wire'[r] = "up" => wire[r] = "up"
               /\ \/ toAgent'[r] = toAgent[r]
                  \/ \E f \in ServerFrame : toAgent'[r] = Append(toAgent[r], f) /\ ~IsData(f, j)
               /\ written'[r][j] = written[r][j]
  <1>4. ASSUME Undisturbed PROVE WritingOK(r, j, written[r][j], Unclosed(r))'
    <2>1. PICK w \in Nat : w = written[r][j]
      BY <1>2
    <2>2. PICK held : held = Unclosed(r)
      OBVIOUS
    <2>3. PICK kept : kept = Unclosed(r)'
      OBVIOUS
    <2>4. WritingOK(r, j, w, held) /\ (j \in kept => j \in held)
      BY <1>1, <1>3, <2>1, <2>2, <2>3
    <2>5. WritingOK(r, j, w, kept)'
      BY <1>1, <1>4, <2>4, WritingUndisturbed
    <2> QED
      BY <1>4, <2>1, <2>3, <2>5 DEF WritingOK
  <1>5. CASE ServerQuiet(r, j)
    BY <1>4, <1>5 DEF ServerQuiet
  <1>6. CASE r = s /\ j = NextId(s) /\ OpenStream(s)
    <2>1. UNCHANGED <<wire, written>> /\ toAgent' = Sent(toAgent, s, Open(j))
      BY <1>6 DEF OpenStream
    <2>2. toAgent'[r] = toAgent[r] \/ toAgent'[r] = Append(toAgent[r], Open(j))
      BY <1>1, <1>6, <2>1, ChannelEnds
    <2>3. Open(j) \in ServerFrame /\ ~IsData(Open(j), j)
      BY FramesAreTyped DEF Open, IsData, IsFrame
    <2> QED
      BY <1>4, <2>1, <2>2, <2>3
  <1>7. CASE r = s /\ DriverWrites(s, j)
    <2>1. PICK w \in Nat : w = written[r][j]
      BY <1>2
    <2>2. PICK held : held = Unclosed(r)
      OBVIOUS
    <2> DEFINE f == Data(j, w + 1)
    <2>3. w + 1 \in Chunk /\ UNCHANGED <<wire, closed>>
          /\ written' = [written EXCEPT ![s][j] = @ + 1]
          /\ toAgent' = IF j \in closed[s] THEN toAgent ELSE Sent(toAgent, s, f)
      BY <1>2, <1>7, <2>1 DEF DriverWrites
    <2>4. written'[r][j] = w + 1 /\ Unclosed(r)' = held
      BY <1>1, <1>7, <2>1, <2>2, <2>3 DEF TypeInv, TypeOK, ServerTypeOK, Unclosed
    <2>5. f \in ServerFrame /\ IsData(f, j) /\ f.n = w + 1
      BY <2>3, FramesAreTyped DEF Data, IsData, IsFrame
    <2> HIDE DEF f
    <2>6. toAgent'[r] = IF j \in held /\ wire[r] = "up" THEN Append(toAgent[r], f) ELSE toAgent[r]
      <3>1. toAgent' = Sent(toAgent, s, f) =>
               toAgent'[r] = IF wire[r] = "up" THEN Append(toAgent[r], f) ELSE toAgent[r]
        BY <1>1, <1>7, ChannelEnds
      <3> QED
        BY <1>7, <2>2, <2>3, <3>1 DEF Unclosed
    <2>7. WritingOK(r, j, w, held) /\ wire'[r] = wire[r]
      BY <1>1, <2>1, <2>2, <2>3
    <2>8. WritingOK(r, j, w + 1, held)'
      BY <1>1, <2>5, <2>6, <2>7, WritingGoesOn
    <2> QED
      BY <2>4, <2>8 DEF WritingOK
  <1> QED
    BY <1>5, <1>6, <1>7, ServerStepsAreQuiet

LEMMA WritingInvStep == RegistryInv /\ StreamInv /\ WritingInv /\ [Next]_vars => WritingInv'
  <1> SUFFICES ASSUME RegistryInv, StreamInv, WritingInv, [Next]_vars,
                      NEW r \in Session, NEW j \in StreamId
               PROVE  WritingOK(r, j, written[r][j], Unclosed(r))'
    BY DEF WritingInv
  <1>1. /\ TypeInv /\ WireTypeOK /\ ClientTypeOK /\ WritingOK(r, j, written[r][j], Unclosed(r))
        /\ written[r][j] \in Nat
    <2>1. TypeInv /\ WireTypeOK /\ ClientTypeOK /\ ServerTypeOK
      BY DEF RegistryInv, TypeInv, TypeOK
    <2>2. written[r][j] \in 0..MaxChunks
      BY <2>1 DEF ServerTypeOK
    <2> QED
      BY <2>1, <2>2 DEF WritingInv
  <1>2. CASE ServerNext /\ UNCHANGED clientVars
    <2>1. PICK s \in Session : ServerStep(s)
      BY <1>2 DEF ServerNext, ServerStep
    <2> QED
      BY <1>2, <2>1, ServerKeepsWriting
  <1>3. CASE ClientNext /\ UNCHANGED serverVars
    <2>1. PICK s \in Session : ClientStep(s)
      BY <1>3 DEF ClientNext, ClientStep
    <2>2. UNCHANGED <<written, closed>>
      BY <1>3 DEF serverVars
    <2>3. cl[r] = "new" => j \notin conns[r]
      BY DEF StreamInv, StreamOK, IdOK
    <2>4. gor[r][j] = "dialing" =>
             NoFrameOf(toAgent[r], {"data"}, j) /\ dbGot[r][j] = <<>> /\ written[r][j] = 0
      BY DEF StreamInv, StreamOK, UnansweredOK, Begun, NoFrameOf
    <2> QED
      BY <1>1, <2>1, <2>2, <2>3, <2>4, AgentKeepsWriting DEF WritingOK, Unclosed
  <1>4. CASE UNCHANGED vars
    <2>1. UNCHANGED <<wire, toAgent, closed, written, conns, dbGot>>
      BY <1>4 DEF vars, wireVars, serverVars, clientVars
    <2> QED
      BY <1>1, <2>1 DEF WritingOK, Unclosed
  <1> QED
    BY <1>2, <1>3, <1>4 DEF Next

LEMMA WritingInvariant == Spec => []WritingInv
  BY InitWriting, WritingInvStep, StreamInvariant, RegistryInvariant, PTL DEF Spec

(* handleBinary and AgentStream.write: whatever happens to a stream, the   *)
(* database is given the first of the chunks its driver wrote, in order;   *)
(* for as long as both ends hold it, what it was not given yet is on the   *)
(* wire, without a gap.                                                    *)
THEOREM DriverBytesArrive == Spec => []DriverBytesIntact
  <1>1. RegistryInv /\ StreamInv /\ WritingInv => DriverBytesIntact
    <2> SUFFICES ASSUME RegistryInv, StreamInv, WritingInv, NEW s \in Session, NEW i \in StreamId
                 PROVE  /\ Len(dbGot[s][i]) <= written[s][i]
                        /\ \A k \in DOMAIN dbGot[s][i] : dbGot[s][i][k] = k
                        /\ Healthy(s) /\ i \in streams[s] \cap conns[s] =>
                              ChunksInFlight(toAgent, s, i, Len(dbGot[s][i]) + 1, written[s][i])
      BY DEF DriverBytesIntact
    <2>1. WritingOK(s, i, written[s][i], Unclosed(s)) /\ dbGot[s][i] \in Seq(Chunk)
      BY DEF WritingInv, RegistryInv, TypeInv, TypeOK, ClientTypeOK
    <2>2. DOMAIN dbGot[s][i] = 1..Len(dbGot[s][i])
      BY <2>1
    <2>3. ASSUME Healthy(s), i \in streams[s] \cap conns[s]
          PROVE  InOrder(toAgent[s], i, Len(dbGot[s][i]) + 1, written[s][i])
      BY <2>1, <2>3 DEF StreamInv, StreamOK, HeldOK, Healthy, WritingOK, Unclosed
    <2> QED
      BY <2>1, <2>2, <2>3, InFlightInOrder DEF WritingOK
  <1> QED
    BY <1>1, RegistryInvariant, StreamInvariant, WritingInvariant, PTL
=============================================================================
