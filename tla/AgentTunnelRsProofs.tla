------------------------- MODULE AgentTunnelRsProofs -------------------------
(***************************************************************************)
(* Theorems about the v2 tunnel for any set of sessions and any bounds.    *)
(***************************************************************************)
EXTENDS AgentTunnelRs, AgentClientProofs

LEMMA InitTypeOK == Init => TypeOK
  BY WireAssumption DEF Init, WireInit, ServerInit, ClientInit, TypeOK, WireTypeOK,
     ServerTypeOK, ClientTypeOK, SessionState, BridgeState

(* TornDown only takes from the tables and answers who still waits.        *)
LEMMA TornDownTyped ==
    ASSUME ServerTypeOK, NEW S, TornDown(S)
    PROVE  /\ conn' \in [Session -> {"none", "live", "torn"}]
           /\ pending' \in [Session -> SUBSET StreamId]
           /\ slots' \in [Session -> SUBSET StreamId]
           /\ bridge' \in [Session -> [StreamId -> BridgeState]]
  <1> USE DEF ServerTypeOK, TornDown, BridgeState
  <1>1. conn' \in [Session -> {"none", "live", "torn"}]
    OBVIOUS
  <1>2. pending' \in [Session -> SUBSET StreamId] /\ slots' \in [Session -> SUBSET StreamId]
    OBVIOUS
  <1>3. bridge' \in [Session -> [StreamId -> BridgeState]]
    OBVIOUS
  <1> QED
    BY <1>1, <1>2, <1>3

SessionTask(s) ==
    \/ Accept(s) \/ AuthOk(s) \/ AuthRejects(s)
    \/ FinishRegister(s) \/ SocketCloses(s) \/ Evict(s)

BridgeTask(s, i) ==
    Opening(s, i) \/ Copying(s, i) \/ DriverCloses(s, i) \/ DriverWrites(s, i)

ServerStep(s) ==
    \/ SessionTask(s) \/ Hearing(s) \/ OpenStream(s)
    \/ \E i \in StreamId : BridgeTask(s, i)

LEMMA SessionTaskTyped ==
    ASSUME WireTypeOK, ServerTypeOK, NEW s \in Session, SessionTask(s)
    PROVE  WireTypeOK' /\ ServerTypeOK'
  <1> USE DEF WireTypeOK, ServerTypeOK, streamVars, wireVars, SessionState
  <1>1. CASE Accept(s)
    BY <1>1 DEF Accept
  <1>2. CASE AuthOk(s)
    BY <1>2 DEF AuthOk
  <1>3. CASE AuthRejects(s)
    BY <1>3 DEF AuthRejects, WireDown
  <1>4. CASE FinishRegister(s)
    <2>1. TornDown({replaced[s]} \ {NoSession})
      BY <1>4 DEF FinishRegister
    <2>2. toAgent' \in [Session -> Seq(ServerFrame)] /\ sv' \in [Session -> SessionState]
      BY <1>4, SentToAgent, FramesAreTyped DEF FinishRegister
    <2>3. UNCHANGED <<wire, toServer, registry, replaced, seq, sock, inbox, got, written>>
      BY <1>4 DEF FinishRegister
    <2> QED
      BY <2>1, <2>2, <2>3, TornDownTyped
  <1>5. CASE SocketCloses(s)
    <2>1. /\ registry' \in Session \cup {NoSession} /\ sv' \in [Session -> SessionState]
          /\ toServer' \in [Session -> Seq(AgentFrame)]
      BY <1>5 DEF SocketCloses
    <2>2. wire' \in [Session -> {"idle", "up", "down"}]
      BY <1>5 DEF SocketCloses, WireDown
    <2>3. UNCHANGED <<toAgent, replaced, conn, streamVars>>
      BY <1>5 DEF SocketCloses
    <2> QED
      BY <2>1, <2>2, <2>3
  <1>6. CASE Evict(s)
    <2>1. TornDown({s}) /\ sv' \in [Session -> SessionState]
      BY <1>6 DEF Evict
    <2>2. UNCHANGED <<wire, toServer, toAgent, registry, replaced, seq, sock, inbox, got, written>>
      BY <1>6 DEF Evict
    <2> QED
      BY <2>1, <2>2, TornDownTyped
  <1> QED
    BY <1>1, <1>2, <1>3, <1>4, <1>5, <1>6 DEF SessionTask

(* Changing one entry of a table of tables keeps its type.                 *)
LEMMA EntrySet ==
    /\ \A s \in Session : \A i \in StreamId : \A b \in BridgeState :
          bridge \in [Session -> [StreamId -> BridgeState]] =>
              [bridge EXCEPT ![s][i] = b] \in [Session -> [StreamId -> BridgeState]]
    /\ \A s \in Session : \A i \in StreamId : \A q \in Seq(Chunk) :
          /\ inbox \in [Session -> [StreamId -> Seq(Chunk)]] =>
                [inbox EXCEPT ![s][i] = q] \in [Session -> [StreamId -> Seq(Chunk)]]
          /\ got \in [Session -> [StreamId -> Seq(Chunk)]] =>
                [got EXCEPT ![s][i] = q] \in [Session -> [StreamId -> Seq(Chunk)]]
  OBVIOUS

LEMMA HearingTyped ==
    ASSUME WireTypeOK, ServerTypeOK, NEW s \in Session, Hearing(s)
    PROVE  WireTypeOK' /\ ServerTypeOK'
  <1> USE DEF WireTypeOK, ServerTypeOK, streamVars
  <1> DEFINE f == Head(toServer[s])
  <1>1. toServer[s] # <<>> /\ f.t \in {"hello", "opened", "openerr", "close", "data"}
    BY DEF Hearing, OnHello, OnOpened, OnOpenErr, OnClose, OnData, Hears, NextIs
  <1>2. Dropped(toServer, s) \in [Session -> Seq(AgentFrame)] /\ f \in AgentFrame
    BY <1>1, TakenFromServer
  <1>0. /\ bridge \in [Session -> [StreamId -> BridgeState]]
        /\ inbox \in [Session -> [StreamId -> Seq(Chunk)]]
        /\ slots \in [Session -> SUBSET StreamId] /\ pending \in [Session -> SUBSET StreamId]
    OBVIOUS
  <1>3. CASE OnHello(s)
    <2>1. CASE conn[s] # "none"
      BY <1>2, <1>3, <2>1 DEF OnHello
    <2>2. CASE conn[s] = "none"
      <3>1. /\ conn' = [conn EXCEPT ![s] = "live"]
            /\ registry' = s
            /\ replaced' = [replaced EXCEPT ![s] = registry]
            /\ sv' = [sv EXCEPT ![s] = "registering"]
            /\ toServer' = Dropped(toServer, s)
            /\ UNCHANGED <<wire, toAgent, seq, slots, pending, bridge, sock, inbox, got, written>>
        BY <1>3, <2>2 DEF OnHello
      <3>2. sv' \in [Session -> SessionState] /\ conn' \in [Session -> {"none", "live", "torn"}]
        BY <3>1 DEF SessionState
      <3> QED
        BY <1>2, <3>1, <3>2
    <2> QED
      BY <2>1, <2>2
  <1>4. CASE OnOpened(s)
    <2>1. f.id \in StreamId
      BY <1>2, <1>4, FrameFields DEF OnOpened, Hears, NextIs
    <2> DEFINE b == IF bridge[s][f.id] = "opening" THEN "acked" ELSE bridge[s][f.id]
    <2>2. b \in BridgeState
      BY <2>1 DEF BridgeState
    <2>3. bridge' \in [Session -> [StreamId -> BridgeState]]
      <3>1. bridge' = bridge \/ bridge' = [bridge EXCEPT ![s][f.id] = b]
        BY <1>4, <2>1 DEF OnOpened
      <3> DEFINE i == f.id
      <3>2. i \in StreamId /\ b \in BridgeState /\ (bridge' = bridge \/ bridge' = [bridge EXCEPT ![s][i] = b])
        BY <2>1, <2>2, <3>1
      <3> HIDE DEF i, f, b, WireTypeOK, ServerTypeOK
      <3>3. [bridge EXCEPT ![s][i] = b] \in [Session -> [StreamId -> BridgeState]]
        BY <1>0, <3>2
      <3> QED
        BY <1>0, <3>2, <3>3
    <2>4. toServer' = Dropped(toServer, s) /\ pending' \in [Session -> SUBSET StreamId]
      <3>1. pending' = pending \/ pending' = [pending EXCEPT ![s] = @ \ {f.id}]
        BY <1>4 DEF OnOpened
      <3>2. pending' \in [Session -> SUBSET StreamId]
        <4> HIDE DEF f, WireTypeOK, ServerTypeOK
        <4> QED
          BY <1>0, <3>1
      <3> QED
        BY <1>4, <3>2 DEF OnOpened
    <2>5. UNCHANGED <<wire, toAgent, sv, registry, replaced, conn, seq, slots, sock, inbox, got,
                      written>>
      BY <1>4 DEF OnOpened
    <2> QED
      BY <1>2, <2>3, <2>4, <2>5
  <1>5. CASE OnOpenErr(s)
    <2>1. f.id \in StreamId
      BY <1>2, <1>5, FrameFields DEF OnOpenErr, Hears, NextIs
    <2> DEFINE b == IF bridge[s][f.id] = "opening" THEN "refused" ELSE bridge[s][f.id]
    <2>2. b \in BridgeState
      BY <2>1 DEF BridgeState
    <2>3. bridge' \in [Session -> [StreamId -> BridgeState]]
      <3>1. bridge' = bridge \/ bridge' = [bridge EXCEPT ![s][f.id] = b]
        BY <1>5, <2>1 DEF OnOpenErr
      <3> DEFINE i == f.id
      <3>2. i \in StreamId /\ b \in BridgeState /\ (bridge' = bridge \/ bridge' = [bridge EXCEPT ![s][i] = b])
        BY <2>1, <2>2, <3>1
      <3> HIDE DEF i, f, b, WireTypeOK, ServerTypeOK
      <3>3. [bridge EXCEPT ![s][i] = b] \in [Session -> [StreamId -> BridgeState]]
        BY <1>0, <3>2
      <3> QED
        BY <1>0, <3>2, <3>3
    <2>4. /\ toServer' = Dropped(toServer, s)
          /\ pending' \in [Session -> SUBSET StreamId] /\ slots' \in [Session -> SUBSET StreamId]
      <3>1. \/ UNCHANGED <<pending, slots>>
            \/ /\ pending' = [pending EXCEPT ![s] = @ \ {f.id}]
               /\ slots' = [slots EXCEPT ![s] = @ \ {f.id}]
        BY <1>5 DEF OnOpenErr
      <3>2. pending' \in [Session -> SUBSET StreamId] /\ slots' \in [Session -> SUBSET StreamId]
        <4> HIDE DEF f, WireTypeOK, ServerTypeOK
        <4> QED
          BY <1>0, <3>1
      <3> QED
        BY <1>5, <3>2 DEF OnOpenErr
    <2>5. UNCHANGED <<wire, toAgent, sv, registry, replaced, conn, seq, sock, inbox, got, written>>
      BY <1>5 DEF OnOpenErr
    <2> QED
      BY <1>2, <2>3, <2>4, <2>5
  <1>6. CASE OnClose(s)
    BY <1>2, <1>6 DEF OnClose
  <1>7. CASE OnData(s)
    <2>1. f.id \in StreamId /\ f.n \in Chunk
      BY <1>2, <1>7, FrameFields DEF OnData, Hears, NextIs
    <2>2. Append(inbox[s][f.id], f.n) \in Seq(Chunk)
      BY <2>1
    <2>3. inbox' \in [Session -> [StreamId -> Seq(Chunk)]]
      <3>1. inbox' = inbox \/ inbox' = [inbox EXCEPT ![s][f.id] = Append(inbox[s][f.id], f.n)]
        BY <1>7, <2>1 DEF OnData
      <3> DEFINE i == f.id
                 q == Append(inbox[s][f.id], f.n)
      <3>2. i \in StreamId /\ q \in Seq(Chunk) /\ (inbox' = inbox \/ inbox' = [inbox EXCEPT ![s][i] = q])
        BY <2>1, <2>2, <3>1
      <3> HIDE DEF i, q, f, WireTypeOK, ServerTypeOK
      <3>3. [inbox EXCEPT ![s][i] = q] \in [Session -> [StreamId -> Seq(Chunk)]]
        BY <1>0, <3>2
      <3> QED
        BY <1>0, <3>2, <3>3
    <2>4. toServer' = Dropped(toServer, s)
          /\ UNCHANGED <<wire, toAgent, sv, registry, replaced, conn, seq, slots, pending, bridge,
                         sock, got, written>>
      BY <1>7 DEF OnData
    <2> QED
      BY <1>2, <2>3, <2>4
  <1> QED
    BY <1>3, <1>4, <1>5, <1>6, <1>7 DEF Hearing

LEMMA OpenStreamTyped ==
    ASSUME WireTypeOK, ServerTypeOK, NEW s \in Session, OpenStream(s)
    PROVE  WireTypeOK' /\ ServerTypeOK'
  <1> USE DEF WireTypeOK, ServerTypeOK, wireVars
  <1> DEFINE i == NextId(s)
  <1>1. i \in StreamId /\ seq[s] + 1 \in 0..MaxOpens
    <2>1. seq[s] \in 0..MaxOpens /\ seq[s] < MaxOpens /\ MaxOpens \in Nat
      BY WireAssumption DEF OpenStream
    <2>2. seq[s] + 1 \in 1..MaxOpens
      BY <2>1
    <2> QED
      BY <2>1, <2>2 DEF NextId, StreamId
  <1> HIDE DEF i
  <1>2. /\ [seq EXCEPT ![s] = @ + 1] \in [Session -> 0..MaxOpens]
        /\ [slots EXCEPT ![s] = @ \cup {i}] \in [Session -> SUBSET StreamId]
        /\ [pending EXCEPT ![s] = @ \cup {i}] \in [Session -> SUBSET StreamId]
        /\ [bridge EXCEPT ![s][i] = "asked"] \in [Session -> [StreamId -> BridgeState]]
        /\ [sock EXCEPT ![s][i] = "open"]
              \in [Session -> [StreamId -> {"none", "open", "hungup", "gone"}]]
    BY <1>1 DEF BridgeState
  <1> QED
    BY <1>2 DEF OpenStream, i

(* The tables a bridge task writes: it sets its bridge and socket, takes   *)
(* itself off the tables, or queues a frame for the agent.                 *)
LEMMA BridgeTaskTyped ==
    ASSUME WireTypeOK, ServerTypeOK, NEW s \in Session, NEW i \in StreamId, BridgeTask(s, i)
    PROVE  WireTypeOK' /\ ServerTypeOK'
  <1> USE DEF WireTypeOK, ServerTypeOK, wireVars
  <1>1. \A f \in ServerFrame : Sent(toAgent, s, f) \in [Session -> Seq(ServerFrame)]
    BY SentToAgent
  <1>2. \A b \in BridgeState :
           [bridge EXCEPT ![s][i] = b] \in [Session -> [StreamId -> BridgeState]]
    BY EntrySet
  <1>3. \A k \in {"none", "open", "hungup", "gone"} :
           [sock EXCEPT ![s][i] = k] \in [Session -> [StreamId -> {"none", "open", "hungup", "gone"}]]
    OBVIOUS
  <1>4. /\ [slots EXCEPT ![s] = @ \ {i}] \in [Session -> SUBSET StreamId]
        /\ [pending EXCEPT ![s] = @ \ {i}] \in [Session -> SUBSET StreamId]
    OBVIOUS
  <1>5. Open(i) \in ServerFrame /\ Close(i) \in ServerFrame
    BY FramesAreTyped
  <1>6. ASSUME Over(s, i)
        PROVE  /\ bridge' \in [Session -> [StreamId -> BridgeState]]
               /\ sock' \in [Session -> [StreamId -> {"none", "open", "hungup", "gone"}]]
    BY <1>2, <1>3, <1>6 DEF Over, BridgeState
  <1>7. ASSUME CloseNow(s, i)
        PROVE  slots' \in [Session -> SUBSET StreamId] /\ toAgent' \in [Session -> Seq(ServerFrame)]
    BY <1>1, <1>4, <1>5, <1>7 DEF CloseNow, NoticeOf
  <1>8. CASE SendOpen(s, i)
    <2>1. CASE sv[s] = "closed" /\ Forgotten(s, i) /\ Over(s, i) /\ UNCHANGED toAgent
      BY <1>4, <1>6, <1>8, <2>1 DEF SendOpen, Forgotten
    <2>2. CASE /\ toAgent' = Sent(toAgent, s, Open(i))
               /\ bridge' = [bridge EXCEPT ![s][i] = IF i \in pending[s] THEN "opening" ELSE "refused"]
               /\ UNCHANGED <<slots, pending, sock>>
      BY <1>1, <1>2, <1>5, <1>8, <2>2 DEF SendOpen, BridgeState
    <2> QED
      BY <1>8, <2>1, <2>2 DEF SendOpen
  <1>9. CASE OpenTimesOut(s, i)
    BY <1>2, <1>9 DEF OpenTimesOut, BridgeState
  <1>10. CASE GiveUp(s, i)
    BY <1>1, <1>4, <1>5, <1>6, <1>10 DEF GiveUp, Forgotten, NoticeOf
  <1>11. CASE Resume(s, i)
    BY <1>2, <1>6, <1>11 DEF Resume, BridgeState
  <1>12. CASE CopyChunk(s, i)
    <2>1. CASE CloseNow(s, i) /\ Over(s, i) /\ UNCHANGED <<inbox, got>>
      BY <1>6, <1>7, <1>12, <2>1 DEF CopyChunk
    <2>2. CASE /\ inbox' = [inbox EXCEPT ![s][i] = Tail(@)]
               /\ got' = [got EXCEPT ![s][i] = Append(@, Head(inbox[s][i]))]
               /\ UNCHANGED <<toAgent, slots, bridge, sock>>
      <3>1. inbox[s][i] \in Seq(Chunk) /\ inbox[s][i] # <<>>
        BY <1>12 DEF CopyChunk
      <3>2. Tail(inbox[s][i]) \in Seq(Chunk) /\ Append(got[s][i], Head(inbox[s][i])) \in Seq(Chunk)
        BY <3>1
      <3> QED
        BY <1>12, <2>2, <3>2, EntrySet DEF CopyChunk
    <2> QED
      BY <1>12, <2>1, <2>2 DEF CopyChunk
  <1>13. CASE DriverEof(s, i)
    BY <1>2, <1>6, <1>7, <1>13 DEF DriverEof, BridgeState
  <1>14. CASE StreamEof(s, i)
    BY <1>2, <1>6, <1>14 DEF StreamEof, BridgeState
  <1>15. CASE DriverCloses(s, i)
    BY <1>3, <1>15 DEF DriverCloses
  <1>16. CASE DriverWrites(s, i)
    <2>1. CASE CloseNow(s, i) /\ Over(s, i) /\ UNCHANGED written
      BY <1>6, <1>7, <1>16, <2>1 DEF DriverWrites
    <2>2. CASE /\ written' = [written EXCEPT ![s][i] = @ + 1]
               /\ toAgent' = Sent(toAgent, s, Data(i, written[s][i] + 1))
               /\ UNCHANGED <<slots, bridge, sock>>
      <3>1. written[s][i] + 1 \in Chunk /\ written[s][i] + 1 \in 0..MaxChunks
        <4>1. written[s][i] \in 0..MaxChunks /\ written[s][i] < MaxChunks
          BY <1>16 DEF DriverWrites
        <4> QED
          BY ONLY <4>1, WireAssumption DEF Chunk
      <3>2. Data(i, written[s][i] + 1) \in ServerFrame
        BY <3>1, FramesAreTyped
      <3> QED
        BY <1>1, <1>16, <2>2, <3>1, <3>2 DEF DriverWrites
    <2> QED
      BY <1>16, <2>1, <2>2 DEF DriverWrites
  <1> QED
    BY <1>8, <1>9, <1>10, <1>11, <1>12, <1>13, <1>14, <1>15, <1>16 DEF BridgeTask, Opening, Copying

TypeInv == TypeOK /\ ChunkInHand

LEMMA InitTypeInv == Init => TypeInv
  <1>1. Init => ChunkInHand
    BY DEF Init, ClientInit, ChunkInHand
  <1> QED
    BY <1>1, InitTypeOK DEF TypeInv

LEMMA TypeStep == TypeInv /\ [Next]_vars => TypeInv'
  <1> SUFFICES ASSUME TypeInv, [Next]_vars PROVE TypeInv'
    OBVIOUS
  <1> USE DEF TypeInv, TypeOK
  <1>1. CASE ServerNext /\ UNCHANGED clientVars
    <2>1. ClientTypeOK' /\ ChunkInHand'
      BY <1>1 DEF ClientTypeOK, ChunkInHand, clientVars
    <2>2. PICK s \in Session : ServerStep(s)
      BY <1>1 DEF ServerNext, ServerStep, SessionTask, BridgeTask
    <2> QED
      BY <2>1, <2>2, SessionTaskTyped, HearingTyped, OpenStreamTyped, BridgeTaskTyped DEF ServerStep
  <1>2. CASE ClientNext /\ UNCHANGED serverVars
    <2>1. ServerTypeOK'
      BY <1>2 DEF ServerTypeOK, serverVars
    <2>2. PICK s \in Session : ClientStep(s)
      BY <1>2 DEF ClientNext, ClientStep
    <2> QED
      BY <2>1, <2>2, ClientTypeStep, ChunkInHandStep
  <1>3. CASE UNCHANGED vars
    BY <1>3 DEF vars, wireVars, serverVars, clientVars, WireTypeOK, ServerTypeOK, ClientTypeOK,
       ChunkInHand
  <1> QED
    BY <1>1, <1>2, <1>3 DEF Next

(* Every variable of the v2 tunnel keeps its type, however its parallel    *)
(* tasks, the agents, the drivers and the databases interleave.            *)
THEOREM TypeCorrect == Spec => []TypeOK
  <1>1. TypeInv => TypeOK
    BY DEF TypeInv
  <1> QED
    BY <1>1, InitTypeInv, TypeStep, PTL DEF Spec

----------------------------------------------------------------------------
(* The registry.  register replaces under the lock and tears down outside  *)
(* it: the induction needs that what a session is about to tear down was a *)
(* connection, and is not what the registry holds by now.                  *)
ReplacedIsOut ==
    \A s \in Session :
        sv[s] = "registering" /\ replaced[s] # NoSession =>
            conn[replaced[s]] # "none" /\ registry # replaced[s]

RegistryInv == TypeInv /\ LiveIsRegisteredOrDoomed /\ ReplacedIsOut

LEMMA InitRegistry == Init => RegistryInv
  BY InitTypeInv, ServerAssumption DEF RegistryInv, Init, ServerInit, LiveIsRegisteredOrDoomed, ReplacedIsOut

(* Only a session task and a hello touch what the registry is about.       *)
registryVars == <<sv, registry, replaced, conn>>

LEMMA RegistryUntouched ==
    ASSUME NEW s \in Session,
           \/ OnOpened(s) \/ OnOpenErr(s) \/ OnClose(s) \/ OnData(s)
           \/ OpenStream(s) \/ \E i \in StreamId : BridgeTask(s, i)
    PROVE  UNCHANGED registryVars
  <1>1. CASE OnOpened(s) \/ OnOpenErr(s) \/ OnClose(s) \/ OnData(s) \/ OpenStream(s)
    BY <1>1 DEF OnOpened, OnOpenErr, OnClose, OnData, OpenStream, registryVars
  <1>2. ASSUME NEW i \in StreamId, BridgeTask(s, i) PROVE UNCHANGED registryVars
    <2>1. CASE Opening(s, i)
      BY <2>1 DEF Opening, SendOpen, OpenTimesOut, GiveUp, Resume, registryVars
    <2>2. CASE Copying(s, i)
      BY <2>2 DEF Copying, CopyChunk, DriverEof, StreamEof, registryVars
    <2>3. CASE DriverCloses(s, i) \/ DriverWrites(s, i)
      BY <2>3 DEF DriverCloses, DriverWrites, registryVars
    <2> QED
      BY <1>2, <2>1, <2>2, <2>3 DEF BridgeTask
  <1> QED
    BY <1>1, <1>2

LEMMA RegistryStep ==
    ASSUME RegistryInv, [Next]_vars
    PROVE  LiveIsRegisteredOrDoomed' /\ ReplacedIsOut'
  <1>0. /\ sv \in [Session -> SessionState] /\ registry \in Session \cup {NoSession}
        /\ replaced \in [Session -> Session \cup {NoSession}]
        /\ conn \in [Session -> {"none", "live", "torn"}]
        /\ LiveIsRegisteredOrDoomed /\ ReplacedIsOut
    BY DEF RegistryInv, TypeInv, TypeOK, ServerTypeOK
  <1> USE <1>0, ServerAssumption DEF LiveIsRegisteredOrDoomed, ReplacedIsOut
  <1>1. CASE UNCHANGED registryVars
    BY <1>1 DEF registryVars
  <1>2. ASSUME NEW s \in Session, OnHello(s)
        PROVE  LiveIsRegisteredOrDoomed' /\ ReplacedIsOut'
    <2>1. CASE conn[s] # "none"
      BY <1>1, <1>2, <2>1 DEF OnHello, registryVars
    <2>2. CASE conn[s] = "none"
      <3>1. /\ sv[s] = "serving" /\ registry # s
            /\ sv' = [sv EXCEPT ![s] = "registering"]
            /\ registry' = s
            /\ replaced' = [replaced EXCEPT ![s] = registry]
            /\ conn' = [conn EXCEPT ![s] = "live"]
        BY <1>2, <2>2 DEF OnHello, Hears
      <3> QED
        BY <2>2, <3>1
    <2> QED
      BY <2>1, <2>2
  <1>3. ASSUME NEW s \in Session, SessionTask(s)
        PROVE  LiveIsRegisteredOrDoomed' /\ ReplacedIsOut'
    <2>1. CASE Accept(s) \/ AuthOk(s) \/ AuthRejects(s)
      <3>1. /\ sv[s] \in {"new", "auth"}
            /\ \E k \in {"auth", "serving", "closed"} : sv' = [sv EXCEPT ![s] = k]
            /\ UNCHANGED <<registry, replaced, conn>>
        BY <2>1 DEF Accept, AuthOk, AuthRejects
      <3>2. \A r \in Session : \A k \in {"registering", "evicting"} : sv'[r] = k <=> sv[r] = k
        BY <3>1
      <3>3. registry # s /\ \A r \in Session : r # s => sv'[r] = sv[r]
        BY <3>1
      <3>4. LiveIsRegisteredOrDoomed'
        BY <3>1, <3>2, <3>3
      <3>5. ReplacedIsOut'
        BY <3>1, <3>2
      <3> QED
        BY <3>4, <3>5
    <2>2. CASE FinishRegister(s)
      <3>1. /\ sv[s] = "registering" /\ sv' = [sv EXCEPT ![s] = "serving"]
            /\ UNCHANGED <<registry, replaced>>
            /\ conn' = [r \in Session |-> IF r \in {replaced[s]} \ {NoSession} THEN "torn" ELSE conn[r]]
        BY <2>2 DEF FinishRegister, TornDown
      <3> QED
        BY <3>1
    <2>3. CASE SocketCloses(s)
      <3>1. /\ sv[s] = "serving" /\ UNCHANGED <<replaced, conn>>
            /\ \/ registry = s /\ registry' = NoSession /\ sv' = [sv EXCEPT ![s] = "evicting"]
               \/ registry # s /\ registry' = registry /\ sv' = [sv EXCEPT ![s] = "closed"]
        BY <2>3 DEF SocketCloses, IsCurrent
      <3> QED
        BY <3>1
    <2>4. CASE Evict(s)
      <3>1. /\ sv[s] = "evicting" /\ sv' = [sv EXCEPT ![s] = "closed"]
            /\ UNCHANGED <<registry, replaced>>
            /\ conn' = [r \in Session |-> IF r \in {s} THEN "torn" ELSE conn[r]]
        BY <2>4 DEF Evict, TornDown
      <3> QED
        BY <3>1
    <2> QED
      BY <1>3, <2>1, <2>2, <2>3, <2>4 DEF SessionTask
  <1>4. CASE ServerNext
    <2>1. PICK s \in Session : ServerStep(s)
      BY <1>4 DEF ServerNext, ServerStep, SessionTask, BridgeTask
    <2> QED
      BY <1>1, <1>2, <1>3, <2>1, RegistryUntouched DEF ServerStep, Hearing
  <1>5. CASE UNCHANGED serverVars \/ UNCHANGED vars
    BY <1>1, <1>5 DEF serverVars, vars, registryVars
  <1> QED
    BY <1>4, <1>5 DEF Next

LEMMA RegistryInvStep == RegistryInv /\ [Next]_vars => RegistryInv'
  BY TypeStep, RegistryStep DEF RegistryInv

LEMMA RegistryInvariant == Spec => []RegistryInv
  BY InitRegistry, RegistryInvStep, PTL DEF Spec

(* register and deregister each act in two steps, and the tasks of other   *)
(* sessions run in between; still the registry only ever names a live      *)
(* connection of a session that serves it, and every live connection is    *)
(* in the registry or about to be torn down.                               *)
THEOREM RegistrationIsRight == Spec => []LiveIsRegisteredOrDoomed
  <1>1. RegistryInv => LiveIsRegisteredOrDoomed
    BY DEF RegistryInv
  <1> QED
    BY <1>1, RegistryInvariant, PTL

----------------------------------------------------------------------------
(* The slots.  That a stream which waits for its answer keeps its slot     *)
(* rests on the order of frames: the agent's close of a stream comes after *)
(* its opened, because its pump starts after opened is queued and because  *)
(* no data is sent to a stream that is not open.                           *)
Announced(q, i) == \E k \in DOMAIN q : IsFrame(q[k], "opened", i)

OpenedBeforeClose(q, i) ==
    \A k \in DOMAIN q : IsFrame(q[k], "close", i) =>
        \E j \in DOMAIN q : j < k /\ IsFrame(q[j], "opened", i)

AnswerKinds == {"opened", "openerr", "close", "data"}

(* The tables of stream i, and what the agent can have done about it.      *)
TablesOK(s, i) ==
    /\ conn[s] # "live" => i \notin slots[s] /\ i \notin pending[s]
    /\ i \in slots[s] => bridge[s][i] \in {"asked", "opening", "acked", "late", "open"}
    /\ bridge[s][i] = "opening" => i \in pending[s]
    /\ i \in pending[s] => i \in slots[s] /\ bridge[s][i] \in {"asked", "opening", "late"}
    /\ bridge[s][i] = "asked" /\ i \in slots[s] => i \in pending[s]
    /\ i > seq[s] => bridge[s][i] = "none"

UnaskedIsUnknown(s, i) ==
    bridge[s][i] \in {"none", "asked"} =>
        /\ gor[s][i] = "none"
        /\ NoFrameOf(toServer[s], AnswerKinds, i)
        /\ NoFrameOf(toAgent[s], {"open", "data"}, i)

WaiterHearsOpenedFirst(s, i) ==
    i \in pending[s] =>
        /\ NoFrameOf(toAgent[s], {"data"}, i)
        /\ OpenedBeforeClose(toServer[s], i)
        /\ gor[s][i] \in {"pumping", "sending"} /\ wire[s] = "up" => Announced(toServer[s], i)

NewClientIsIdle(s, i) == cl[s] = "new" => gor[s][i] = "none"

StreamOK(s, i) ==
    /\ TablesOK(s, i) /\ UnaskedIsUnknown(s, i)
    /\ WaiterHearsOpenedFirst(s, i) /\ NewClientIsIdle(s, i)

SlotInv == \A s \in Session : \A i \in StreamId : StreamOK(s, i)

LEMMA InitSlots == Init => SlotInv
  BY WireAssumption DEF Init, WireInit, ServerInit, ClientInit, SlotInv, StreamOK, TablesOK,
     UnaskedIsUnknown, WaiterHearsOpenedFirst, NewClientIsIdle, NoFrameOf, OpenedBeforeClose

(* Reading a channel and sending on it.                                    *)
LEMMA AfterRead ==
    ASSUME NEW T, NEW q \in Seq(T), q # <<>>, NEW i, NEW kinds
    PROVE  /\ NoFrameOf(q, kinds, i) => /\ NoFrameOf(Tail(q), kinds, i)
                                        /\ Head(q).t \in kinds => Head(q).id # i
           /\ ~IsFrame(Head(q), "opened", i) =>
                /\ Announced(q, i) => Announced(Tail(q), i)
                /\ OpenedBeforeClose(q, i) => OpenedBeforeClose(Tail(q), i)
                /\ OpenedBeforeClose(q, i) => ~IsFrame(Head(q), "close", i)
  <1>1. /\ Len(q) \in Nat \ {0} /\ DOMAIN q = 1..Len(q) /\ Head(q) = q[1]
        /\ DOMAIN Tail(q) = 1..(Len(q) - 1)
        /\ \A k \in 1..(Len(q) - 1) : Tail(q)[k] = q[k + 1]
    OBVIOUS
  <1>2. NoFrameOf(q, kinds, i) => NoFrameOf(Tail(q), kinds, i) /\ (Head(q).t \in kinds => Head(q).id # i)
    BY <1>1 DEF NoFrameOf
  <1>3. ASSUME ~IsFrame(q[1], "opened", i), Announced(q, i) PROVE Announced(Tail(q), i)
    <2>1. PICK k \in 1..Len(q) : IsFrame(q[k], "opened", i)
      BY <1>1, <1>3 DEF Announced
    <2>2. k - 1 \in 1..(Len(q) - 1) /\ Tail(q)[k - 1] = q[k]
      BY <1>1, <1>3, <2>1
    <2> QED
      BY <1>1, <2>1, <2>2 DEF Announced
  <1>4. ASSUME ~IsFrame(q[1], "opened", i), OpenedBeforeClose(q, i)
        PROVE  OpenedBeforeClose(Tail(q), i) /\ ~IsFrame(q[1], "close", i)
    <2>1. ASSUME NEW k \in 1..(Len(q) - 1), IsFrame(Tail(q)[k], "close", i)
          PROVE  \E j \in 1..(Len(q) - 1) : j < k /\ IsFrame(Tail(q)[j], "opened", i)
      <3>1. PICK j \in 1..Len(q) : j < k + 1 /\ IsFrame(q[j], "opened", i)
        BY <1>1, <1>4, <2>1 DEF OpenedBeforeClose
      <3>2. j - 1 \in 1..(Len(q) - 1) /\ j - 1 < k /\ Tail(q)[j - 1] = q[j]
        BY <1>1, <1>4, <3>1
      <3> QED
        BY <3>1, <3>2
    <2>2. ~IsFrame(q[1], "close", i)
      BY <1>1, <1>4 DEF OpenedBeforeClose
    <2> QED
      BY <1>1, <2>1, <2>2 DEF OpenedBeforeClose
  <1> QED
    BY <1>1, <1>2, <1>3, <1>4

LEMMA AfterSend ==
    ASSUME NEW T, NEW q \in Seq(T), NEW f \in T, NEW i, NEW kinds
    PROVE  /\ NoFrameOf(q, kinds, i) /\ (f.t \in kinds => f.id # i) => NoFrameOf(Append(q, f), kinds, i)
           /\ Announced(q, i) \/ IsFrame(f, "opened", i) => Announced(Append(q, f), i)
           /\ OpenedBeforeClose(q, i) /\ (IsFrame(f, "close", i) => Announced(q, i)) =>
                OpenedBeforeClose(Append(q, f), i)
  <1>1. /\ Len(q) \in Nat /\ DOMAIN q = 1..Len(q)
        /\ DOMAIN Append(q, f) = 1..(Len(q) + 1)
        /\ Append(q, f)[Len(q) + 1] = f
        /\ \A k \in 1..Len(q) : Append(q, f)[k] = q[k]
    OBVIOUS
  <1> HIDE DEF IsFrame
  <1>2. NoFrameOf(q, kinds, i) /\ (f.t \in kinds => f.id # i) => NoFrameOf(Append(q, f), kinds, i)
    BY <1>1 DEF NoFrameOf
  <1>3. Announced(q, i) \/ IsFrame(f, "opened", i) => Announced(Append(q, f), i)
    <2>1. Len(q) + 1 \in 1..(Len(q) + 1) /\ \A k \in 1..Len(q) : k \in 1..(Len(q) + 1)
      BY <1>1
    <2> QED
      BY <1>1, <2>1 DEF Announced
  <1>4. ASSUME OpenedBeforeClose(q, i), IsFrame(f, "close", i) => Announced(q, i)
        PROVE  OpenedBeforeClose(Append(q, f), i)
    <2>1. ASSUME NEW k \in 1..(Len(q) + 1), IsFrame(Append(q, f)[k], "close", i)
          PROVE  \E j \in 1..Len(q) : j < k /\ IsFrame(q[j], "opened", i)
      <3>1. CASE k \in 1..Len(q)
        BY <1>1, <1>4, <2>1, <3>1 DEF OpenedBeforeClose
      <3>2. CASE k = Len(q) + 1
        BY <1>1, <1>4, <2>1, <3>2 DEF Announced
      <3> QED
        BY <1>1, <2>1, <3>1, <3>2
    <2>2. \A k \in 1..Len(q) : k \in 1..(Len(q) + 1)
      BY <1>1
    <2> QED
      BY <1>1, <2>1, <2>2 DEF OpenedBeforeClose
  <1> QED
    BY <1>2, <1>3, <1>4

LEMMA EmptyChannel ==
    ASSUME NEW i, NEW kinds
    PROVE  NoFrameOf(<<>>, kinds, i) /\ OpenedBeforeClose(<<>>, i)
  BY DEF NoFrameOf, OpenedBeforeClose

----------------------------------------------------------------------------
(* What a server step may do without a waiter losing its place: ask for    *)
(* nothing new, and leave tables that are right.                           *)
NothingNewAsked ==
    \A s \in Session : \A i \in StreamId :
        /\ i \in pending'[s] => i \in pending[s]
        /\ bridge'[s][i] \in {"none", "asked"} => bridge[s][i] \in {"none", "asked"}

TablesStayOK == \A s \in Session : \A i \in StreamId : TablesOK(s, i)'

Keeps == NothingNewAsked /\ TablesStayOK /\ UNCHANGED clientVars

(* The session task reads one frame; an opened frame ends the wait.        *)
LEMMA ReadingKeepsOrder ==
    ASSUME WireTypeOK, SlotInv, Keeps, NEW s \in Session,
           toServer[s] # <<>>, toServer' = Dropped(toServer, s), UNCHANGED <<wire, toAgent>>,
           \A i \in StreamId : IsFrame(Head(toServer[s]), "opened", i) => i \notin pending'[s]
    PROVE  SlotInv'
  <1> SUFFICES ASSUME NEW r \in Session, NEW i \in StreamId PROVE StreamOK(r, i)'
    BY DEF SlotInv
  <1>1. StreamOK(r, i) /\ TablesOK(r, i)' /\ UNCHANGED <<gor, cl>>
    BY DEF SlotInv, Keeps, TablesStayOK, clientVars
  <1>2. toServer'[r] = IF r = s THEN Tail(toServer[s]) ELSE toServer[r]
    BY DEF WireTypeOK, Dropped
  <1>3. toServer[s] \in Seq(AgentFrame)
    BY DEF WireTypeOK
  <1>4. NewClientIsIdle(r, i)'
    BY <1>1 DEF StreamOK, NewClientIsIdle
  <1>5. UnaskedIsUnknown(r, i)'
    BY <1>1, <1>2, <1>3, AfterRead DEF StreamOK, UnaskedIsUnknown, Keeps, NothingNewAsked
  <1>6. WaiterHearsOpenedFirst(r, i)'
    <2> SUFFICES ASSUME i \in pending'[r]
                 PROVE  /\ NoFrameOf(toAgent[r], {"data"}, i)
                        /\ OpenedBeforeClose(toServer'[r], i)
                        /\ gor[r][i] \in {"pumping", "sending"} /\ wire[r] = "up" =>
                              Announced(toServer'[r], i)
      BY <1>1 DEF WaiterHearsOpenedFirst
    <2>1. /\ NoFrameOf(toAgent[r], {"data"}, i)
          /\ OpenedBeforeClose(toServer[r], i)
          /\ gor[r][i] \in {"pumping", "sending"} /\ wire[r] = "up" => Announced(toServer[r], i)
      BY <1>1 DEF StreamOK, WaiterHearsOpenedFirst, Keeps, NothingNewAsked
    <2>2. CASE r # s
      BY <1>2, <2>1, <2>2
    <2>3. CASE r = s
      BY <1>2, <1>3, <2>1, <2>3, AfterRead
    <2> QED
      BY <2>2, <2>3
  <1> QED
    BY <1>1, <1>4, <1>5, <1>6 DEF StreamOK

(* A frame is queued for the agent: not an open or data of a stream that   *)
(* was not asked for, nor data of one that waits.                          *)
LEMMA SendingKeepsOrder ==
    ASSUME WireTypeOK, SlotInv, Keeps, NEW s \in Session, NEW f \in ServerFrame,
           toAgent' = Sent(toAgent, s, f), UNCHANGED <<wire, toServer>>,
           \A i \in StreamId :
              /\ IsFrame(f, "open", i) => bridge'[s][i] \notin {"none", "asked"}
              /\ IsFrame(f, "data", i) => bridge'[s][i] \in {"open", "ended"}
    PROVE  SlotInv'
  <1> SUFFICES ASSUME NEW r \in Session, NEW i \in StreamId PROVE StreamOK(r, i)'
    BY DEF SlotInv
  <1>1. StreamOK(r, i) /\ TablesOK(r, i)' /\ UNCHANGED <<gor, cl>>
    BY DEF SlotInv, Keeps, TablesStayOK, clientVars
  <1>2. \/ toAgent'[r] = toAgent[r]
        \/ r = s /\ toAgent'[r] = Append(toAgent[s], f)
    <2>1. toAgent' = toAgent \/ toAgent' = [toAgent EXCEPT ![s] = Append(toAgent[s], f)]
      BY DEF Sent
    <2>2. toAgent \in [Session -> Seq(ServerFrame)]
      BY DEF WireTypeOK
    <2> HIDE DEF WireTypeOK
    <2> QED
      BY <2>1, <2>2
  <1>3. toAgent[s] \in Seq(ServerFrame)
    BY DEF WireTypeOK
  <1>4. NewClientIsIdle(r, i)'
    BY <1>1 DEF StreamOK, NewClientIsIdle
  <1>5. UnaskedIsUnknown(r, i)'
    <2>1. \A kinds : /\ NoFrameOf(toAgent[s], kinds, i) /\ (f.t \in kinds => f.id # i)
                     => NoFrameOf(Append(toAgent[s], f), kinds, i)
      BY <1>3, AfterSend
    <2> QED
      BY <1>1, <1>2, <2>1 DEF StreamOK, UnaskedIsUnknown, Keeps, NothingNewAsked, IsFrame
  <1>6. WaiterHearsOpenedFirst(r, i)'
    <2>1. \A kinds : /\ NoFrameOf(toAgent[s], kinds, i) /\ (f.t \in kinds => f.id # i)
                     => NoFrameOf(Append(toAgent[s], f), kinds, i)
      BY <1>3, AfterSend
    <2>2. i \in pending'[r] => bridge'[r][i] \in {"asked", "opening", "late"}
      BY <1>1 DEF TablesOK
    <2> QED
      BY <1>1, <1>2, <2>1, <2>2 DEF StreamOK, WaiterHearsOpenedFirst, Keeps, NothingNewAsked, IsFrame
  <1> QED
    BY <1>1, <1>4, <1>5, <1>6 DEF StreamOK

(* Nothing is read or sent, or the socket goes down with what was on it.   *)
LEMMA SilenceKeepsOrder ==
    ASSUME WireTypeOK, SlotInv, Keeps, UNCHANGED toAgent,
           \/ UNCHANGED <<wire, toServer>>
           \/ \E s \in Session : WireDown(s) /\ toServer' = [toServer EXCEPT ![s] = <<>>]
    PROVE  SlotInv'
  <1> SUFFICES ASSUME NEW r \in Session, NEW i \in StreamId PROVE StreamOK(r, i)'
    BY DEF SlotInv
  <1>1. StreamOK(r, i) /\ TablesOK(r, i)' /\ UNCHANGED <<gor, cl>>
    BY DEF SlotInv, Keeps, TablesStayOK, clientVars
  <1>2. \/ wire'[r] = wire[r] /\ toServer'[r] = toServer[r]
        \/ wire'[r] # "up" /\ toServer'[r] = <<>>
    BY DEF WireTypeOK, WireDown
  <1>3. NewClientIsIdle(r, i)'
    BY <1>1 DEF StreamOK, NewClientIsIdle
  <1>4. UnaskedIsUnknown(r, i)'
    BY <1>1, <1>2, EmptyChannel DEF StreamOK, UnaskedIsUnknown, Keeps, NothingNewAsked
  <1>5. WaiterHearsOpenedFirst(r, i)'
    BY <1>1, <1>2, EmptyChannel DEF StreamOK, WaiterHearsOpenedFirst, Keeps, NothingNewAsked
  <1> QED
    BY <1>1, <1>3, <1>4, <1>5 DEF StreamOK

----------------------------------------------------------------------------
(* A step that concerns one stream.                                        *)
OnlyStream(s, i) ==
    /\ UNCHANGED <<conn, seq>>
    /\ \A r \in Session : \A j \in StreamId : r # s \/ j # i =>
          /\ j \in slots'[r] <=> j \in slots[r]
          /\ j \in pending'[r] <=> j \in pending[r]
          /\ bridge'[r][j] = bridge[r][j]

LEMMA OneStreamMoves ==
    ASSUME SlotInv, UNCHANGED clientVars, NEW s \in Session, NEW i \in StreamId,
           OnlyStream(s, i), TablesOK(s, i)',
           i \in pending'[s] => i \in pending[s],
           bridge'[s][i] \in {"none", "asked"} => bridge[s][i] \in {"none", "asked"}
    PROVE  Keeps
  <1>1. NothingNewAsked
    BY DEF NothingNewAsked, OnlyStream
  <1>2. ASSUME NEW r \in Session, NEW j \in StreamId, r # s \/ j # i PROVE TablesOK(r, j)'
    BY <1>2 DEF SlotInv, StreamOK, TablesOK, OnlyStream
  <1> QED
    BY <1>1, <1>2 DEF Keeps, TablesStayOK

TablesTyped ==
    /\ slots \in [Session -> SUBSET StreamId] /\ pending \in [Session -> SUBSET StreamId]
    /\ bridge \in [Session -> [StreamId -> BridgeState]]

(* What the assignments of one stream's step come to.                      *)
LEMMA OneStreamStep ==
    ASSUME TablesTyped, NEW s \in Session, NEW i \in StreamId, NEW b \in BridgeState,
           UNCHANGED <<conn, seq>>,
           slots' = slots \/ slots' = [slots EXCEPT ![s] = @ \ {i}],
           pending' = pending \/ pending' = [pending EXCEPT ![s] = @ \ {i}],
           \/ bridge' = [bridge EXCEPT ![s][i] = b]
           \/ bridge' = bridge /\ b = bridge[s][i]
    PROVE  /\ OnlyStream(s, i)
           /\ bridge'[s][i] = b
           /\ slots' = slots \/ i \notin slots'[s]
           /\ pending' = pending \/ i \notin pending'[s]
           /\ i \in slots'[s] => i \in slots[s]
           /\ i \in pending'[s] => i \in pending[s]
           /\ slots' = [slots EXCEPT ![s] = @ \ {i}] => i \notin slots'[s]
           /\ pending' = [pending EXCEPT ![s] = @ \ {i}] => i \notin pending'[s]
  <1> USE DEF TablesTyped
  <1>1. /\ \A r \in Session : \A j \in StreamId : r # s \/ j # i =>
              (j \in slots'[r] <=> j \in slots[r]) /\ (j \in pending'[r] <=> j \in pending[r])
        /\ slots' = slots \/ i \notin slots'[s]
        /\ pending' = pending \/ i \notin pending'[s]
        /\ slots' = [slots EXCEPT ![s] = @ \ {i}] => i \notin slots'[s]
        /\ pending' = [pending EXCEPT ![s] = @ \ {i}] => i \notin pending'[s]
    OBVIOUS
  <1>2. /\ \A r \in Session : \A j \in StreamId : r # s \/ j # i => bridge'[r][j] = bridge[r][j]
        /\ bridge'[s][i] = b
    OBVIOUS
  <1> QED
    BY <1>1, <1>2 DEF OnlyStream

(* No variable of the tables changes.                                      *)
LEMMA TablesUnchanged ==
    ASSUME SlotInv, UNCHANGED clientVars, UNCHANGED <<slots, pending, bridge, conn, seq>>
    PROVE  Keeps
  BY DEF SlotInv, StreamOK, TablesOK, Keeps, NothingNewAsked, TablesStayOK

LEMMA TornDownKeeps ==
    ASSUME TypeOK, SlotInv, UNCHANGED clientVars, UNCHANGED seq, NEW S, TornDown(S)
    PROVE  Keeps
  <1>1. ASSUME NEW r \in Session, NEW i \in StreamId
        PROVE  /\ conn'[r] = IF r \in S THEN "torn" ELSE conn[r]
               /\ i \in slots'[r] <=> r \notin S /\ i \in slots[r]
               /\ i \in pending'[r] <=> r \notin S /\ i \in pending[r]
               /\ bridge'[r][i] = IF r \in S /\ i \in pending[r] /\ bridge[r][i] = "opening"
                                  THEN "refused" ELSE bridge[r][i]
    BY DEF TornDown
  <1>2. NothingNewAsked
    BY <1>1 DEF NothingNewAsked
  <1>3. ASSUME NEW r \in Session, NEW i \in StreamId PROVE TablesOK(r, i)'
    <2>1. TablesOK(r, i)
      BY DEF SlotInv, StreamOK
    <2> QED
      BY <1>1, <2>1 DEF TablesOK
  <1> QED
    BY <1>2, <1>3 DEF Keeps, TablesStayOK

LEMMA SessionTaskKeepsSlots ==
    ASSUME TypeOK, SlotInv, UNCHANGED clientVars, NEW s \in Session, SessionTask(s)
    PROVE  SlotInv'
  <1>0. WireTypeOK
    BY DEF TypeOK
  <1>1. CASE Accept(s) \/ AuthOk(s)
    <2>1. UNCHANGED <<wire, toServer, toAgent>> /\ UNCHANGED <<slots, pending, bridge, conn, seq>>
      BY <1>1 DEF Accept, AuthOk, wireVars, streamVars
    <2> QED
      BY <1>0, <2>1, TablesUnchanged, SilenceKeepsOrder
  <1>2. CASE AuthRejects(s) \/ SocketCloses(s)
    <2>1. /\ UNCHANGED <<slots, pending, bridge, conn, seq>> /\ UNCHANGED toAgent
          /\ WireDown(s) /\ toServer' = [toServer EXCEPT ![s] = <<>>]
      BY <1>2 DEF AuthRejects, SocketCloses, streamVars
    <2> QED
      BY <1>0, <2>1, TablesUnchanged, SilenceKeepsOrder
  <1>3. CASE FinishRegister(s)
    <2>1. /\ TornDown({replaced[s]} \ {NoSession}) /\ UNCHANGED seq
          /\ toAgent' = Sent(toAgent, s, Ready) /\ UNCHANGED <<wire, toServer>>
      BY <1>3 DEF FinishRegister
    <2>2. \A i : ~IsFrame(Ready, "open", i) /\ ~IsFrame(Ready, "data", i)
      BY DEF IsFrame, Ready
    <2>3. Keeps
      BY <2>1, TornDownKeeps
    <2> QED
      BY <1>0, <2>1, <2>2, <2>3, SendingKeepsOrder, FramesAreTyped
  <1>4. CASE Evict(s)
    <2>1. TornDown({s}) /\ UNCHANGED seq /\ UNCHANGED toAgent /\ UNCHANGED <<wire, toServer>>
      BY <1>4 DEF Evict, wireVars
    <2>2. Keeps
      BY <2>1, TornDownKeeps
    <2> QED
      BY <1>0, <2>1, <2>2, SilenceKeepsOrder
  <1> QED
    BY <1>1, <1>2, <1>3, <1>4 DEF SessionTask

----------------------------------------------------------------------------
(* One frame is read: an answer ends the wait, and a close never comes    *)
(* before the answer.                                                      *)
LEMMA HearingKeepsSlots ==
    ASSUME TypeOK, SlotInv, UNCHANGED clientVars, NEW s \in Session, Hearing(s)
    PROVE  SlotInv'
  <1> DEFINE f == Head(toServer[s])
  <1>1. /\ toServer[s] # <<>> /\ toServer' = Dropped(toServer, s) /\ UNCHANGED <<wire, toAgent>>
        /\ f.t \in {"hello", "opened", "openerr", "close", "data"}
    BY DEF Hearing, OnHello, OnOpened, OnOpenErr, OnClose, OnData, Hears, NextIs
  <1>2. WireTypeOK /\ toServer[s] \in Seq(AgentFrame) /\ f \in AgentFrame
    BY <1>1, TakenFromServer DEF TypeOK, WireTypeOK
  <1>3. TablesTyped
    BY DEF TypeOK, ServerTypeOK, TablesTyped
  <1>4. \A i \in StreamId : StreamOK(s, i)
    BY DEF SlotInv
  <1>5. CASE OnHello(s) \/ OnData(s)
    <2>1. f.t \in {"hello", "data"} /\ UNCHANGED <<slots, pending, bridge, seq>>
      BY <1>5 DEF OnHello, OnData, Hears, NextIs, streamVars
    <2>2. \A r \in Session : conn[r] = "live" => conn'[r] = "live"
      <3>1. conn' = conn \/ conn' = [conn EXCEPT ![s] = "live"]
        BY <1>5 DEF OnHello, OnData
      <3> QED
        BY <3>1 DEF TypeOK, ServerTypeOK
    <2>3. Keeps
      BY <2>1, <2>2 DEF SlotInv, StreamOK, TablesOK, Keeps, NothingNewAsked, TablesStayOK
    <2> HIDE DEF f
    <2>4. \A i \in StreamId : ~IsFrame(f, "opened", i)
      BY <2>1 DEF IsFrame
    <2> QED
      BY <1>1, <1>2, <2>3, <2>4, ReadingKeepsOrder DEF f
  <1>6. CASE OnOpened(s) \/ OnOpenErr(s) \/ OnClose(s)
    <2>1. PICK i \in StreamId : i = f.id /\ f.t \in {"opened", "openerr", "close"}
      BY <1>2, <1>6, FrameFields DEF OnOpened, OnOpenErr, OnClose, Hears, NextIs
    <2>2. bridge[s][i] # "asked"
      <3>1. NoFrameOf(toServer[s], AnswerKinds, i) => (f.t \in AnswerKinds => f.id # i)
        BY <1>1, <1>2, AfterRead
      <3> QED
        BY <1>4, <2>1, <3>1 DEF StreamOK, UnaskedIsUnknown, AnswerKinds
    <2>3. TablesOK(s, i)
      BY <1>4, <2>1 DEF StreamOK
    <2>4. bridge[s][i] \in BridgeState
      BY <1>3, <2>1 DEF TablesTyped
    <2>5. Keeps /\ (f.t = "opened" => i \notin pending'[s])
      <3>1. CASE OnOpened(s)
        <4> DEFINE b == IF i \in slots[s] \cap pending[s] /\ bridge[s][i] = "opening"
                        THEN "acked" ELSE bridge[s][i]
        <4>1. b \in BridgeState /\ (b = "asked" => bridge[s][i] = "asked")
              /\ (b = "none" => bridge[s][i] = "none")
          BY <2>4 DEF BridgeState
        <4>2. /\ UNCHANGED <<conn, seq, slots>>
              /\ pending' = pending \/ pending' = [pending EXCEPT ![s] = @ \ {i}]
              /\ i \in slots[s] \cap pending[s] => pending' = [pending EXCEPT ![s] = @ \ {i}]
              /\ \/ bridge' = [bridge EXCEPT ![s][i] = b]
                 \/ bridge' = bridge /\ b = bridge[s][i]
          BY <2>1, <3>1 DEF OnOpened
        <4> HIDE DEF b
        <4>3. /\ OnlyStream(s, i) /\ bridge'[s][i] = b
              /\ i \in pending'[s] => i \in pending[s]
              /\ i \in slots[s] \cap pending[s] => i \notin pending'[s]
          BY <1>3, <2>1, <4>1, <4>2, OneStreamStep
        <4>4. i \notin pending'[s]
          BY <2>3, <4>3 DEF TablesOK
        <4>5. TablesOK(s, i)'
          BY <2>2, <2>3, <4>2, <4>3, <4>4 DEF TablesOK, b
        <4> QED
          BY <2>1, <4>1, <4>3, <4>4, <4>5, OneStreamMoves
      <3>2. CASE OnOpenErr(s)
        <4> DEFINE b == IF i \in pending[s] /\ bridge[s][i] = "opening" THEN "refused" ELSE bridge[s][i]
        <4>1. b \in BridgeState /\ (b = "asked" => bridge[s][i] = "asked")
              /\ (b = "none" => bridge[s][i] = "none")
          BY <2>4 DEF BridgeState
        <4>2. /\ UNCHANGED <<conn, seq>> /\ f.t = "openerr"
              /\ \/ /\ pending' = [pending EXCEPT ![s] = @ \ {i}]
                    /\ slots' = [slots EXCEPT ![s] = @ \ {i}]
                 \/ i \notin pending[s] /\ UNCHANGED <<pending, slots>>
              /\ \/ bridge' = [bridge EXCEPT ![s][i] = b]
                 \/ bridge' = bridge /\ b = bridge[s][i]
          BY <2>1, <3>2 DEF OnOpenErr, Hears, NextIs
        <4> HIDE DEF f, b
        <4>3. /\ OnlyStream(s, i) /\ bridge'[s][i] = b
              /\ i \in pending'[s] => i \in pending[s]
              /\ \/ i \notin pending'[s] /\ i \notin slots'[s]
                 \/ i \notin pending[s] /\ UNCHANGED <<pending, slots>>
          BY <1>3, <2>1, <4>1, <4>2, OneStreamStep
        <4>5. TablesOK(s, i)'
          BY <2>2, <2>3, <4>2, <4>3 DEF TablesOK, b
        <4> QED
          BY <2>1, <4>1, <4>2, <4>3, <4>5, OneStreamMoves
      <3>3. CASE OnClose(s)
        <4>1. i \notin pending[s]
          <5>1. ~IsFrame(f, "opened", i) /\ IsFrame(f, "close", i)
            BY <2>1, <3>3 DEF OnClose, Hears, NextIs, IsFrame
          <5>2. ~OpenedBeforeClose(toServer[s], i)
            BY <1>1, <1>2, <5>1, AfterRead
          <5> QED
            BY <1>4, <2>1, <5>2 DEF StreamOK, WaiterHearsOpenedFirst
        <4>2. /\ UNCHANGED <<conn, seq, pending, bridge>> /\ f.t = "close"
              /\ slots' = [slots EXCEPT ![s] = @ \ {i}]
          BY <2>1, <3>3 DEF OnClose, Hears, NextIs
        <4> HIDE DEF f
        <4>3. OnlyStream(s, i) /\ i \notin slots'[s]
          BY <1>3, <2>1, <2>4, <4>2, OneStreamStep
        <4>5. TablesOK(s, i)'
          BY <2>2, <2>3, <4>1, <4>2, <4>3 DEF TablesOK
        <4> QED
          BY <2>1, <4>2, <4>3, <4>5, OneStreamMoves
      <3> QED
        BY <1>6, <3>1, <3>2, <3>3
    <2>6. \A j \in StreamId : IsFrame(f, "opened", j) => j \notin pending'[s]
      BY <2>1, <2>5 DEF IsFrame
    <2> QED
      BY <1>1, <1>2, <2>5, <2>6, ReadingKeepsOrder
  <1> QED
    BY <1>5, <1>6 DEF Hearing

(* A bridge that closes its stream gives the slot back, and may tell the   *)
(* agent so; nobody was waiting for it any more.                           *)
LEMMA ClosingKeepsSlots ==
    ASSUME TypeOK, SlotInv, UNCHANGED clientVars, NEW s \in Session, NEW i \in StreamId,
           NEW b \in {"halfclosed", "done"},
           bridge[s][i] \in {"open", "halfclosed", "ended"},
           CloseNow(s, i), bridge' = [bridge EXCEPT ![s][i] = b],
           UNCHANGED <<conn, seq, pending>>, UNCHANGED <<wire, toServer>>
    PROVE  SlotInv'
  <1>1. TablesTyped /\ WireTypeOK /\ b \in BridgeState
    BY DEF TypeOK, ServerTypeOK, TablesTyped, BridgeState
  <1>2. slots' = [slots EXCEPT ![s] = @ \ {i}]
    BY DEF CloseNow
  <1>3. OnlyStream(s, i) /\ bridge'[s][i] = b /\ i \notin slots'[s]
    BY <1>1, <1>2, OneStreamStep
  <1>4. TablesOK(s, i)
    BY DEF SlotInv, StreamOK
  <1>5. TablesOK(s, i)'
    BY <1>3, <1>4 DEF TablesOK, OnlyStream
  <1>6. Keeps
    BY <1>3, <1>5, OneStreamMoves
  <1>7. CASE toAgent' = toAgent
    BY <1>1, <1>6, <1>7, SilenceKeepsOrder
  <1>8. CASE toAgent' = Sent(toAgent, s, Close(i))
    <2>1. \A j : ~IsFrame(Close(i), "open", j) /\ ~IsFrame(Close(i), "data", j)
      BY DEF IsFrame, Close
    <2>2. Close(i) \in ServerFrame
      BY FramesAreTyped
    <2> QED
      BY <1>1, <1>6, <1>8, <2>1, <2>2, SendingKeepsOrder
  <1> QED
    BY <1>7, <1>8 DEF CloseNow, NoticeOf

LEMMA OpeningKeepsSlots ==
    ASSUME TypeOK, SlotInv, UNCHANGED clientVars, NEW s \in Session, NEW i \in StreamId,
           Opening(s, i)
    PROVE  SlotInv'
  <1>1. TablesTyped /\ WireTypeOK
    BY DEF TypeOK, ServerTypeOK, TablesTyped
  <1>2. TablesOK(s, i)
    BY DEF SlotInv, StreamOK
  <1>3. CASE SendOpen(s, i)
    <2>1. UNCHANGED <<conn, seq>> /\ UNCHANGED <<wire, toServer>> /\ bridge[s][i] = "asked"
      BY <1>3 DEF SendOpen
    <2>2. CASE Forgotten(s, i) /\ Over(s, i) /\ UNCHANGED toAgent
      <3>1. /\ slots' = [slots EXCEPT ![s] = @ \ {i}] /\ pending' = [pending EXCEPT ![s] = @ \ {i}]
            /\ bridge' = [bridge EXCEPT ![s][i] = "done"]
        BY <2>2 DEF Forgotten, Over
      <3>2. /\ OnlyStream(s, i) /\ bridge'[s][i] = "done"
            /\ i \notin slots'[s] /\ i \notin pending'[s]
        BY <1>1, <2>1, <3>1, OneStreamStep DEF BridgeState
      <3>3. TablesOK(s, i)'
        BY <1>2, <2>1, <3>2 DEF TablesOK
      <3>4. Keeps
        BY <3>2, <3>3, OneStreamMoves
      <3> QED
        BY <1>1, <2>1, <2>2, <3>4, SilenceKeepsOrder
    <2>3. CASE /\ toAgent' = Sent(toAgent, s, Open(i)) /\ UNCHANGED <<slots, pending, sock>>
               /\ bridge' = [bridge EXCEPT ![s][i] = IF i \in pending[s] THEN "opening" ELSE "refused"]
      <3> DEFINE b == IF i \in pending[s] THEN "opening" ELSE "refused"
      <3>1. b \in BridgeState /\ bridge' = [bridge EXCEPT ![s][i] = b]
        BY <2>3 DEF BridgeState
      <3>2. b \notin {"none", "asked"}
        OBVIOUS
      <3> HIDE DEF b
      <3>3. OnlyStream(s, i) /\ bridge'[s][i] = b
        BY <1>1, <2>1, <2>3, <3>1, OneStreamStep
      <3>4. TablesOK(s, i)'
        BY <1>2, <2>1, <2>3, <3>3 DEF TablesOK, b
      <3>5. Keeps
        BY <2>3, <3>2, <3>3, <3>4, OneStreamMoves
      <3>6. /\ Open(i) \in ServerFrame
            /\ \A j \in StreamId : ~IsFrame(Open(i), "data", j) /\ (IsFrame(Open(i), "open", j) => j = i)
        BY FramesAreTyped DEF IsFrame, Open
      <3> QED
        BY <1>1, <2>1, <2>3, <3>2, <3>3, <3>5, <3>6, SendingKeepsOrder
    <2> QED
      BY <1>3, <2>2, <2>3 DEF SendOpen
  <1>4. CASE OpenTimesOut(s, i)
    <2>1. /\ UNCHANGED <<conn, seq, slots, pending>> /\ UNCHANGED <<wire, toServer>> /\ UNCHANGED toAgent
          /\ bridge[s][i] = "opening" /\ bridge' = [bridge EXCEPT ![s][i] = "late"]
      BY <1>4 DEF OpenTimesOut, wireVars
    <2>2. OnlyStream(s, i) /\ bridge'[s][i] = "late"
      BY <1>1, <2>1, OneStreamStep DEF BridgeState
    <2>3. TablesOK(s, i)'
      BY <1>2, <2>1, <2>2 DEF TablesOK
    <2>4. Keeps
      BY <2>1, <2>2, <2>3, OneStreamMoves
    <2> QED
      BY <1>1, <2>1, <2>4, SilenceKeepsOrder
  <1>5. CASE GiveUp(s, i)
    <2>1. /\ UNCHANGED <<conn, seq>> /\ UNCHANGED <<wire, toServer>> /\ bridge[s][i] = "late"
          /\ slots' = [slots EXCEPT ![s] = @ \ {i}] /\ pending' = [pending EXCEPT ![s] = @ \ {i}]
          /\ bridge' = [bridge EXCEPT ![s][i] = "done"] /\ toAgent' = Sent(toAgent, s, Close(i))
      BY <1>5 DEF GiveUp, Forgotten, Over, NoticeOf
    <2>2. /\ OnlyStream(s, i) /\ bridge'[s][i] = "done"
          /\ i \notin slots'[s] /\ i \notin pending'[s]
      BY <1>1, <2>1, OneStreamStep DEF BridgeState
    <2>3. TablesOK(s, i)'
      BY <1>2, <2>1, <2>2 DEF TablesOK
    <2>4. Keeps
      BY <2>2, <2>3, OneStreamMoves
    <2>5. /\ Close(i) \in ServerFrame
          /\ \A j : ~IsFrame(Close(i), "open", j) /\ ~IsFrame(Close(i), "data", j)
      BY FramesAreTyped DEF IsFrame, Close
    <2> QED
      BY <1>1, <2>1, <2>4, <2>5, SendingKeepsOrder
  <1>6. CASE Resume(s, i)
    <2>1. /\ UNCHANGED <<conn, seq, slots, pending>> /\ UNCHANGED <<wire, toServer>> /\ UNCHANGED toAgent
          /\ \/ bridge[s][i] = "acked" /\ bridge' = [bridge EXCEPT ![s][i] = "open"]
             \/ bridge[s][i] = "refused" /\ bridge' = [bridge EXCEPT ![s][i] = "done"]
      BY <1>6 DEF Resume, Over, wireVars
    <2>2. /\ OnlyStream(s, i)
          /\ \/ bridge[s][i] = "acked" /\ bridge'[s][i] = "open"
             \/ bridge[s][i] = "refused" /\ bridge'[s][i] = "done"
      BY <1>1, <2>1, OneStreamStep DEF BridgeState
    <2>3. TablesOK(s, i)'
      BY <1>2, <2>1, <2>2 DEF TablesOK
    <2>4. Keeps
      BY <2>1, <2>2, <2>3, OneStreamMoves
    <2> QED
      BY <1>1, <2>1, <2>4, SilenceKeepsOrder
  <1> QED
    BY <1>3, <1>4, <1>5, <1>6 DEF Opening

LEMMA CopyingKeepsSlots ==
    ASSUME TypeOK, SlotInv, UNCHANGED clientVars, NEW s \in Session, NEW i \in StreamId,
           Copying(s, i) \/ DriverCloses(s, i) \/ DriverWrites(s, i)
    PROVE  SlotInv'
  <1>1. TablesTyped /\ WireTypeOK
    BY DEF TypeOK, ServerTypeOK, TablesTyped
  <1>2. TablesOK(s, i)
    BY DEF SlotInv, StreamOK
  <1>3. ASSUME UNCHANGED <<slots, pending, bridge, conn, seq>>, UNCHANGED <<wire, toServer>>,
               UNCHANGED toAgent
        PROVE  SlotInv'
    BY <1>1, <1>3, TablesUnchanged, SilenceKeepsOrder
  <1>4. CASE CopyChunk(s, i)
    <2>1. /\ UNCHANGED <<conn, seq, pending>> /\ UNCHANGED <<wire, toServer>>
          /\ bridge[s][i] \in {"open", "halfclosed"}
      BY <1>4 DEF CopyChunk
    <2>2. CASE CloseNow(s, i) /\ Over(s, i)
      BY <2>1, <2>2, ClosingKeepsSlots DEF Over
    <2>3. CASE UNCHANGED <<toAgent, slots, bridge, sock>>
      BY <1>3, <2>1, <2>3
    <2> QED
      BY <1>4, <2>2, <2>3 DEF CopyChunk
  <1>5. CASE DriverEof(s, i)
    <2>1. /\ UNCHANGED <<conn, seq, pending>> /\ UNCHANGED <<wire, toServer>> /\ CloseNow(s, i)
          /\ \/ bridge[s][i] = "open" /\ bridge' = [bridge EXCEPT ![s][i] = "halfclosed"]
             \/ bridge[s][i] = "ended" /\ bridge' = [bridge EXCEPT ![s][i] = "done"]
      BY <1>5 DEF DriverEof, Over
    <2> QED
      BY <2>1, ClosingKeepsSlots
  <1>6. CASE StreamEof(s, i)
    <2>1. /\ UNCHANGED <<conn, seq, slots, pending>> /\ UNCHANGED <<wire, toServer>> /\ UNCHANGED toAgent
          /\ i \notin slots[s]
          /\ \/ bridge[s][i] = "open" /\ bridge' = [bridge EXCEPT ![s][i] = "ended"]
             \/ bridge[s][i] = "halfclosed" /\ bridge' = [bridge EXCEPT ![s][i] = "done"]
      BY <1>6 DEF StreamEof, EofSeen, Over, wireVars
    <2>2. /\ OnlyStream(s, i) /\ bridge[s][i] \in {"open", "halfclosed"}
          /\ bridge'[s][i] \in {"ended", "done"}
      BY <1>1, <2>1, OneStreamStep DEF BridgeState
    <2>3. TablesOK(s, i)'
      BY <1>2, <2>1, <2>2 DEF TablesOK
    <2>4. Keeps
      BY <2>1, <2>2, <2>3, OneStreamMoves
    <2> QED
      BY <1>1, <2>1, <2>4, SilenceKeepsOrder
  <1>7. CASE DriverCloses(s, i)
    BY <1>3, <1>7 DEF DriverCloses, wireVars
  <1>8. CASE DriverWrites(s, i)
    <2>1. /\ UNCHANGED <<conn, seq, pending>> /\ UNCHANGED <<wire, toServer>>
          /\ bridge[s][i] \in {"open", "ended"} /\ written[s][i] < MaxChunks
      BY <1>8 DEF DriverWrites, CopiesFromDriver
    <2>2. CASE CloseNow(s, i) /\ Over(s, i)
      BY <2>1, <2>2, ClosingKeepsSlots DEF Over
    <2>3. CASE toAgent' = Sent(toAgent, s, Data(i, written[s][i] + 1)) /\ UNCHANGED <<slots, bridge, sock>>
      <3>1. PICK f \in ServerFrame : f = Data(i, written[s][i] + 1)
        <4>1. written[s][i] + 1 \in Chunk
          BY <2>1, WireAssumption DEF TypeOK, ServerTypeOK, Chunk
        <4> QED
          BY <4>1, FramesAreTyped
      <3>2. \A j \in StreamId : ~IsFrame(f, "open", j) /\ (IsFrame(f, "data", j) => j = i)
        BY <3>1 DEF IsFrame, Data
      <3>3. Keeps
        BY <2>1, <2>3, TablesUnchanged
      <3> QED
        BY <1>1, <2>1, <2>3, <3>1, <3>2, <3>3, SendingKeepsOrder
    <2> QED
      BY <1>8, <2>2, <2>3 DEF DriverWrites
  <1> QED
    BY <1>4, <1>5, <1>6, <1>7, <1>8 DEF Copying

(* The next stream id was never used: the agent cannot know it.            *)
LEMMA OpenStreamKeepsSlots ==
    ASSUME TypeOK, SlotInv, UNCHANGED clientVars, NEW s \in Session, OpenStream(s)
    PROVE  SlotInv'
  <1>1. PICK n \in StreamId : n = seq[s] + 1
    <2>1. seq[s] \in 0..MaxOpens /\ seq[s] < MaxOpens /\ MaxOpens \in Nat
      BY WireAssumption DEF OpenStream, TypeOK, ServerTypeOK
    <2>2. seq[s] + 1 \in 1..MaxOpens
      BY <2>1
    <2> QED
      BY <2>2 DEF StreamId
  <1>2. /\ UNCHANGED <<wire, toServer, toAgent, conn>> /\ conn[s] = "live"
        /\ seq' = [seq EXCEPT ![s] = n]
        /\ slots' = [slots EXCEPT ![s] = @ \cup {n}]
        /\ pending' = [pending EXCEPT ![s] = @ \cup {n}]
        /\ bridge' = [bridge EXCEPT ![s][n] = "asked"]
    BY <1>1 DEF OpenStream, NextId, wireVars
  <1>3. TablesTyped /\ seq \in [Session -> 0..MaxOpens] /\ MaxOpens \in Nat
    BY WireAssumption DEF TypeOK, ServerTypeOK, TablesTyped
  <1>4. ASSUME NEW r \in Session, NEW i \in StreamId
        PROVE  /\ r # s \/ i # n => /\ i \in slots'[r] <=> i \in slots[r]
                                    /\ i \in pending'[r] <=> i \in pending[r]
                                    /\ bridge'[r][i] = bridge[r][i]
               /\ n \in slots'[s] /\ n \in pending'[s] /\ bridge'[s][n] = "asked"
               /\ i > seq'[r] => i > seq[r] /\ (r = s => i # n)
    <2>1. /\ r # s \/ i # n => /\ i \in slots'[r] <=> i \in slots[r]
                               /\ i \in pending'[r] <=> i \in pending[r]
          /\ n \in slots'[s] /\ n \in pending'[s]
      BY <1>2, <1>3 DEF TablesTyped
    <2>2. (r # s \/ i # n => bridge'[r][i] = bridge[r][i]) /\ bridge'[s][n] = "asked"
      BY <1>2, <1>3 DEF TablesTyped
    <2>3. i > seq'[r] => i > seq[r] /\ (r = s => i # n)
      BY <1>1, <1>2, <1>3 DEF StreamId
    <2> QED
      BY <2>1, <2>2, <2>3
  <1>5. ASSUME NEW r \in Session, NEW i \in StreamId, r # s \/ i # n PROVE StreamOK(r, i)'
    <2>1. StreamOK(r, i) /\ UNCHANGED <<gor, cl>>
      BY DEF SlotInv, clientVars
    <2> QED
      BY <1>2, <1>4, <1>5, <2>1 DEF StreamOK, TablesOK, UnaskedIsUnknown, WaiterHearsOpenedFirst,
         NewClientIsIdle
  <1>6. StreamOK(s, n)'
    <2>1. StreamOK(s, n) /\ UNCHANGED <<gor, cl>>
      BY DEF SlotInv, clientVars
    <2>2. bridge[s][n] = "none"
      BY <1>1, <1>3, <2>1 DEF StreamOK, TablesOK, StreamId
    <2>3. /\ gor[s][n] = "none"
          /\ NoFrameOf(toServer[s], AnswerKinds, n) /\ NoFrameOf(toAgent[s], {"open", "data"}, n)
      BY <2>1, <2>2 DEF StreamOK, UnaskedIsUnknown
    <2>4. NoFrameOf(toAgent[s], {"data"}, n) /\ OpenedBeforeClose(toServer[s], n)
      BY <2>3 DEF NoFrameOf, OpenedBeforeClose, IsFrame, AnswerKinds
    <2>5. TablesOK(s, n)'
      BY <1>2, <1>4 DEF TablesOK
    <2> QED
      BY <1>2, <1>4, <2>1, <2>3, <2>4, <2>5
         DEF StreamOK, UnaskedIsUnknown, WaiterHearsOpenedFirst, NewClientIsIdle
  <1> QED
    BY <1>5, <1>6 DEF SlotInv

----------------------------------------------------------------------------
(* An agent's step on one stream it was asked to open: it may take a frame *)
(* and may send one, and it closes only what it announced or what nobody   *)
(* waits for.                                                              *)
LEMMA AgentActsOnStream ==
    ASSUME TypeOK, SlotInv, UNCHANGED serverVars, UNCHANGED <<wire, cl>>,
           NEW s \in Session, NEW i \in StreamId, NEW f \in AgentFrame, f.id = i, f.t # "hello",
           bridge[s][i] \notin {"none", "asked"}, cl[s] # "new",
           toServer' \in {toServer, Sent(toServer, s, f)},
           toAgent' = toAgent \/ (toAgent[s] # <<>> /\ toAgent' = Dropped(toAgent, s)),
           \A r \in Session : \A j \in StreamId : r # s \/ j # i => gor'[r][j] = gor[r][j],
           gor'[s][i] \in {"pumping", "sending"} =>
              \/ gor[s][i] \in {"pumping", "sending"}
              \/ f.t = "opened" /\ toServer' = Sent(toServer, s, f),
           f.t = "close" => i \notin pending[s] \/ gor[s][i] \in {"pumping", "sending"}
    PROVE  SlotInv'
  <1> SUFFICES ASSUME NEW r \in Session, NEW j \in StreamId PROVE StreamOK(r, j)'
    BY DEF SlotInv
  <1>1. StreamOK(r, j) /\ UNCHANGED <<conn, seq, slots, pending, bridge>>
    BY DEF SlotInv, serverVars
  <1>2. TablesOK(r, j)'
    BY <1>1 DEF StreamOK, TablesOK
  <1>3. NewClientIsIdle(r, j)'
    BY <1>1 DEF StreamOK, NewClientIsIdle
  <1> DEFINE after == Append(toServer[s], f)
  <1>4. /\ toServer[s] \in Seq(AgentFrame) /\ toAgent[s] \in Seq(ServerFrame)
        /\ \/ toServer'[r] = toServer[r]
           \/ r = s /\ toServer'[r] = after
        /\ r = s /\ wire[s] = "up" /\ toServer' = Sent(toServer, s, f) =>
              toServer'[r] = after
    <2>1. /\ Sent(toServer, s, f) = toServer
             \/ Sent(toServer, s, f) = [toServer EXCEPT ![s] = Append(toServer[s], f)]
          /\ wire[s] = "up" => Sent(toServer, s, f) = [toServer EXCEPT ![s] = Append(toServer[s], f)]
      BY DEF Sent
    <2>2. toServer \in [Session -> Seq(AgentFrame)] /\ toAgent \in [Session -> Seq(ServerFrame)]
      BY DEF TypeOK, WireTypeOK
    <2> QED
      BY <2>1, <2>2
  <1>5. \/ toAgent'[r] = toAgent[r]
        \/ r = s /\ toAgent[s] # <<>> /\ toAgent'[r] = Tail(toAgent[s])
    <2>1. toAgent \in [Session -> Seq(ServerFrame)]
      BY DEF TypeOK, WireTypeOK
    <2> QED
      BY <2>1 DEF Dropped
  <1>6. \A kinds : NoFrameOf(toAgent[r], kinds, j) => NoFrameOf(toAgent'[r], kinds, j)
    BY <1>4, <1>5, AfterRead
  <1>9. /\ \A kinds : NoFrameOf(toServer[s], kinds, j) /\ (f.t \in kinds => f.id # j) =>
                          NoFrameOf(after, kinds, j)
        /\ (Announced(toServer[s], j) \/ IsFrame(f, "opened", j)) => Announced(after, j)
        /\ OpenedBeforeClose(toServer[s], j) /\ (IsFrame(f, "close", j) => Announced(toServer[s], j))
              => OpenedBeforeClose(after, j)
    BY <1>4, AfterSend
  <1> HIDE DEF after
  <1>7. UnaskedIsUnknown(r, j)'
    <2>1. CASE r # s \/ j # i
      <3>1. f.t \in AnswerKinds /\ r = s => f.id # j
        BY <2>1
      <3>2. NoFrameOf(toServer[r], AnswerKinds, j) => NoFrameOf(toServer'[r], AnswerKinds, j)
        BY <1>4, <1>9, <3>1
      <3> QED
        BY <1>1, <1>6, <2>1, <3>2 DEF StreamOK, UnaskedIsUnknown
    <2>2. CASE r = s /\ j = i
      BY <1>1, <2>2 DEF UnaskedIsUnknown
    <2> QED
      BY <2>1, <2>2
  <1>8. WaiterHearsOpenedFirst(r, j)'
    <2> SUFFICES ASSUME j \in pending[r]
                 PROVE  /\ NoFrameOf(toAgent'[r], {"data"}, j)
                        /\ OpenedBeforeClose(toServer'[r], j)
                        /\ gor'[r][j] \in {"pumping", "sending"} /\ wire[r] = "up" =>
                              Announced(toServer'[r], j)
      BY <1>1 DEF WaiterHearsOpenedFirst
    <2>1. /\ NoFrameOf(toAgent[r], {"data"}, j)
          /\ OpenedBeforeClose(toServer[r], j)
          /\ gor[r][j] \in {"pumping", "sending"} /\ wire[r] = "up" => Announced(toServer[r], j)
      BY <1>1 DEF StreamOK, WaiterHearsOpenedFirst
    <2>2. NoFrameOf(toAgent'[r], {"data"}, j)
      BY <1>6, <2>1
    <2>3. OpenedBeforeClose(toServer'[r], j)
      <3>1. CASE toServer'[r] = toServer[r]
        BY <2>1, <3>1
      <3>2. CASE toServer'[r] # toServer[r]
        <4>1. r = s /\ toServer'[r] = after /\ wire[s] = "up"
          BY <1>4, <3>2 DEF Sent
        <4>2. IsFrame(f, "close", j) => Announced(toServer[s], j)
          BY <2>1, <4>1 DEF IsFrame
        <4> QED
          BY <1>9, <2>1, <4>1, <4>2
      <3> QED
        BY <3>1, <3>2
    <2>4. ASSUME gor'[r][j] \in {"pumping", "sending"}, wire[r] = "up"
          PROVE  Announced(toServer'[r], j)
      <3>1. CASE gor[r][j] \in {"pumping", "sending"}
        BY <1>4, <1>9, <2>1, <2>4, <3>1
      <3>2. CASE gor[r][j] \notin {"pumping", "sending"}
        <4>1. r = s /\ j = i /\ f.t = "opened" /\ toServer'[r] = after
          BY <1>4, <2>4, <3>2
        <4> QED
          BY <1>9, <4>1 DEF IsFrame
      <3> QED
        BY <3>1, <3>2
    <2> QED
      BY <2>2, <2>3, <2>4
  <1> QED
    BY <1>2, <1>3, <1>7, <1>8 DEF StreamOK

(* The agent's own goroutines work only on streams it was asked to open.   *)
LEMMA GoroutineKeepsSlots ==
    ASSUME TypeOK, SlotInv, UNCHANGED serverVars, NEW s \in Session, NEW i \in StreamId,
           ChunkInHand, StreamGoroutine(s, i)
    PROVE  SlotInv'
  <1>1. UNCHANGED <<wire, cl>> /\ UNCHANGED toAgent /\ gor[s][i] # "none"
    BY DEF StreamGoroutine, DialFails, DialSucceeds, SendOpened, PumpReads, PumpSends,
       DatabaseCloses, PumpStops
  <1>2. bridge[s][i] \notin {"none", "asked"} /\ cl[s] # "new"
    BY <1>1 DEF SlotInv, StreamOK, UnaskedIsUnknown, NewClientIsIdle
  <1>3. gor \in [Session -> [StreamId -> {"none", "dialing", "registered", "pumping", "sending", "done"}]]
    BY DEF TypeOK, ClientTypeOK
  <1>4. ASSUME NEW g, gor' = [gor EXCEPT ![s][i] = g]
        PROVE  /\ \A r \in Session : \A j \in StreamId : r # s \/ j # i => gor'[r][j] = gor[r][j]
               /\ gor'[s][i] = g
    BY <1>3, <1>4
  <1>5. /\ OpenErr(i) \in AgentFrame /\ OpenErr(i).id = i /\ OpenErr(i).t = "openerr"
        /\ Opened(i) \in AgentFrame /\ Opened(i).id = i /\ Opened(i).t = "opened"
        /\ Close(i) \in AgentFrame /\ Close(i).id = i /\ Close(i).t = "close"
    BY FramesAreTyped DEF OpenErr, Opened, Close
  <1>6. CASE DialFails(s, i) \/ DialSucceeds(s, i)
    <2>1. /\ toServer' \in {toServer, Sent(toServer, s, OpenErr(i))}
          /\ gor' = [gor EXCEPT ![s][i] = "done"] \/ gor' = [gor EXCEPT ![s][i] = "registered"]
      BY <1>6 DEF DialFails, DialSucceeds
    <2>2. /\ \A r \in Session : \A j \in StreamId : r # s \/ j # i => gor'[r][j] = gor[r][j]
          /\ gor'[s][i] \notin {"pumping", "sending"}
      BY <1>4, <2>1
    <2> QED
      BY <1>1, <1>2, <1>5, <2>1, <2>2, AgentActsOnStream
  <1>7. CASE SendOpened(s, i)
    <2>1. toServer' = Sent(toServer, s, Opened(i)) /\ gor' = [gor EXCEPT ![s][i] = "pumping"]
      BY <1>7 DEF SendOpened
    <2>2. \A r \in Session : \A j \in StreamId : r # s \/ j # i => gor'[r][j] = gor[r][j]
      BY <1>4, <2>1
    <2> QED
      BY <1>1, <1>2, <1>5, <2>1, <2>2, AgentActsOnStream
  <1>8. CASE PumpReads(s, i) \/ PumpStops(s, i)
    <2>1. /\ toServer' = toServer /\ gor[s][i] = "pumping"
          /\ gor' = [gor EXCEPT ![s][i] = "sending"] \/ gor' = [gor EXCEPT ![s][i] = "done"]
      BY <1>8 DEF PumpReads, PumpStops
    <2>2. \A r \in Session : \A j \in StreamId : r # s \/ j # i => gor'[r][j] = gor[r][j]
      BY <1>4, <2>1
    <2> QED
      BY <1>1, <1>2, <1>5, <2>1, <2>2, AgentActsOnStream
  <1>9. CASE PumpSends(s, i)
    <2>1. /\ gor[s][i] = "sending" /\ gor' = [gor EXCEPT ![s][i] = "pumping"]
          /\ toServer' = Sent(toServer, s, Data(i, dbSent[s][i]))
      BY <1>9 DEF PumpSends
    <2>2. dbSent[s][i] \in Chunk
      BY <2>1, WireAssumption DEF ChunkInHand, TypeOK, ClientTypeOK, Chunk
    <2>3. PICK f \in AgentFrame : f = Data(i, dbSent[s][i]) /\ f.id = i /\ f.t = "data"
      BY <2>2, FramesAreTyped DEF Data
    <2>4. \A r \in Session : \A j \in StreamId : r # s \/ j # i => gor'[r][j] = gor[r][j]
      BY <1>4, <2>1
    <2> QED
      BY <1>1, <1>2, <2>1, <2>3, <2>4, AgentActsOnStream
  <1>10. CASE DatabaseCloses(s, i)
    <2>1. /\ gor[s][i] = "pumping" /\ gor' = [gor EXCEPT ![s][i] = "done"]
          /\ toServer' \in {toServer, Sent(toServer, s, Close(i))}
      BY <1>10 DEF DatabaseCloses, DropAndNotify
    <2>2. \A r \in Session : \A j \in StreamId : r # s \/ j # i => gor'[r][j] = gor[r][j]
      BY <1>4, <2>1
    <2> QED
      BY <1>1, <1>2, <1>5, <2>1, <2>2, AgentActsOnStream
  <1> QED
    BY <1>6, <1>7, <1>8, <1>9, <1>10 DEF StreamGoroutine

(* The read loop takes a frame; only an open or data makes it answer.      *)
LEMMA ReadLoopKeepsSlots ==
    ASSUME TypeOK, SlotInv, UNCHANGED serverVars, NEW s \in Session, ClientReads(s)
    PROVE  SlotInv'
  <1> DEFINE h == Head(toAgent[s])
  <1>1. /\ cl[s] = "running" /\ toAgent[s] # <<>> /\ toAgent' = Dropped(toAgent, s)
        /\ UNCHANGED <<wire, cl>>
    BY DEF ClientReads, HandleReady, HandleOpen, HandleServerClose, HandleData, Reads, NextIs
  <1>2. toAgent[s] \in Seq(ServerFrame) /\ h \in ServerFrame
    BY <1>1, TakenFromAgent DEF TypeOK, WireTypeOK
  <1>3. CASE HandleOpen(s) \/ HandleData(s)
    <2>1. PICK i \in StreamId : i = h.id /\ h.t \in {"open", "data"}
      BY <1>2, <1>3, FrameFields DEF HandleOpen, HandleData, Reads, NextIs
    <2>2. StreamOK(s, i)
      BY DEF SlotInv
    <2>3. bridge[s][i] \notin {"none", "asked"}
      <3>1. NoFrameOf(toAgent[s], {"open", "data"}, i) => (h.t \in {"open", "data"} => h.id # i)
        BY <1>1, <1>2, AfterRead
      <3> QED
        BY <2>1, <2>2, <3>1 DEF StreamOK, UnaskedIsUnknown
    <2>4. h.t = "data" => i \notin pending[s]
      <3>1. NoFrameOf(toAgent[s], {"data"}, i) => (h.t \in {"data"} => h.id # i)
        BY <1>1, <1>2, AfterRead
      <3> QED
        BY <2>1, <2>2, <3>1 DEF StreamOK, WaiterHearsOpenedFirst
    <2>5. /\ OpenErr(i) \in AgentFrame /\ OpenErr(i).id = i /\ OpenErr(i).t = "openerr"
          /\ Close(i) \in AgentFrame /\ Close(i).id = i /\ Close(i).t = "close"
      BY FramesAreTyped DEF OpenErr, Close
    <2>6. CASE HandleOpen(s)
      <3>1. /\ toServer' \in {toServer, Sent(toServer, s, OpenErr(i))}
            /\ gor' = gor \/ gor' = [gor EXCEPT ![s][i] = "dialing"]
        BY <2>1, <2>6 DEF HandleOpen
      <3>2. /\ \A r \in Session : \A j \in StreamId : r # s \/ j # i => gor'[r][j] = gor[r][j]
            /\ gor'[s][i] \in {"pumping", "sending"} => gor[s][i] \in {"pumping", "sending"}
        <4>1. gor \in [Session -> [StreamId -> {"none", "dialing", "registered", "pumping", "sending", "done"}]]
          BY DEF TypeOK, ClientTypeOK
        <4> QED
          BY <3>1, <4>1
      <3> QED
        BY <1>1, <2>3, <2>5, <3>1, <3>2, AgentActsOnStream
    <2>7. CASE HandleData(s)
      <3>1. toServer' \in {toServer, Sent(toServer, s, Close(i))} /\ gor' = gor /\ h.t = "data"
        BY <2>1, <2>7 DEF HandleData, DropAndNotify, Reads, NextIs
      <3> QED
        BY <1>1, <2>3, <2>4, <2>5, <3>1, AgentActsOnStream
    <2> QED
      BY <1>3, <2>6, <2>7
  <1>4. CASE HandleReady(s) \/ HandleServerClose(s)
    <2>1. UNCHANGED <<gor, toServer>>
      BY <1>4 DEF HandleReady, HandleServerClose
    <2> SUFFICES ASSUME NEW r \in Session, NEW j \in StreamId PROVE StreamOK(r, j)'
      BY DEF SlotInv
    <2>2. StreamOK(r, j) /\ UNCHANGED <<conn, seq, slots, pending, bridge>>
      BY DEF SlotInv, serverVars
    <2>3. \/ toAgent'[r] = toAgent[r]
          \/ r = s /\ toAgent'[r] = Tail(toAgent[s])
      <3>1. toAgent \in [Session -> Seq(ServerFrame)]
        BY DEF TypeOK, WireTypeOK
      <3> QED
        BY <1>1, <3>1 DEF Dropped
    <2>4. \A kinds : NoFrameOf(toAgent[r], kinds, j) => NoFrameOf(toAgent'[r], kinds, j)
      BY <1>1, <1>2, <2>3, AfterRead
    <2> QED
      BY <1>1, <2>1, <2>2, <2>4
         DEF StreamOK, TablesOK, UnaskedIsUnknown, WaiterHearsOpenedFirst, NewClientIsIdle
  <1> QED
    BY <1>3, <1>4 DEF ClientReads

LEMMA ClientComesAndGoes ==
    ASSUME TypeOK, SlotInv, UNCHANGED serverVars, NEW s \in Session, ClientDial(s) \/ ClientEnds(s)
    PROVE  SlotInv'
  <1> SUFFICES ASSUME NEW r \in Session, NEW j \in StreamId PROVE StreamOK(r, j)'
    BY DEF SlotInv
  <1>1. StreamOK(r, j) /\ UNCHANGED <<conn, seq, slots, pending, bridge>>
    BY DEF SlotInv, serverVars
  <1>2. WireTypeOK /\ ClientTypeOK
    BY DEF TypeOK
  <1>3. CASE ClientDial(s)
    <2>1. /\ gor' = gor /\ toAgent' = toAgent /\ cl[s] = "new"
          /\ r # s => wire'[r] = wire[r] /\ toServer'[r] = toServer[r] /\ cl'[r] = cl[r]
          /\ r = s => toServer'[r] = <<Hello>> /\ cl'[r] = "running"
      BY <1>2, <1>3 DEF ClientDial, WireTypeOK, ClientTypeOK
    <2>2. NoFrameOf(<<Hello>>, AnswerKinds, j) /\ OpenedBeforeClose(<<Hello>>, j)
      BY DEF NoFrameOf, OpenedBeforeClose, IsFrame, Hello, AnswerKinds
    <2> HIDE DEF Hello
    <2> QED
      BY <1>1, <2>1, <2>2
         DEF StreamOK, TablesOK, UnaskedIsUnknown, WaiterHearsOpenedFirst, NewClientIsIdle
  <1>4. CASE ClientEnds(s)
    <2>1. /\ gor' = gor /\ toServer' = toServer
          /\ wire'[r] = wire[r] \/ wire'[r] # "up"
          /\ toAgent'[r] = toAgent[r] \/ toAgent'[r] = <<>>
          /\ cl'[r] = "new" => cl[r] = "new"
      BY <1>2, <1>4 DEF ClientEnds, WireDown, WireTypeOK, ClientTypeOK
    <2> QED
      BY <1>1, <2>1, EmptyChannel
         DEF StreamOK, TablesOK, UnaskedIsUnknown, WaiterHearsOpenedFirst, NewClientIsIdle
  <1> QED
    BY <1>3, <1>4

LEMMA SlotStep == TypeInv /\ SlotInv /\ [Next]_vars => SlotInv'
  <1> SUFFICES ASSUME TypeInv, SlotInv, [Next]_vars PROVE SlotInv'
    OBVIOUS
  <1> USE DEF TypeInv
  <1>1. CASE ServerNext /\ UNCHANGED clientVars
    <2>1. PICK s \in Session : ServerStep(s)
      BY <1>1 DEF ServerNext, ServerStep, SessionTask, BridgeTask
    <2> QED
      BY <1>1, <2>1, SessionTaskKeepsSlots, HearingKeepsSlots, OpenStreamKeepsSlots,
         OpeningKeepsSlots, CopyingKeepsSlots DEF ServerStep, BridgeTask
  <1>2. CASE ClientNext /\ UNCHANGED serverVars
    <2>1. PICK s \in Session : ClientStep(s)
      BY <1>2 DEF ClientNext, ClientStep
    <2> QED
      BY <1>2, <2>1, GoroutineKeepsSlots, ReadLoopKeepsSlots, ClientComesAndGoes DEF ClientStep
  <1>3. CASE UNCHANGED vars
    BY <1>3 DEF vars, wireVars, serverVars, clientVars, SlotInv, StreamOK, TablesOK,
       UnaskedIsUnknown, WaiterHearsOpenedFirst, NewClientIsIdle
  <1> QED
    BY <1>1, <1>2, <1>3 DEF Next

(* However sessions are replaced and answers, time-outs, closes and        *)
(* hang-ups race: a torn connection holds no stream, each slot of the      *)
(* others belongs to a bridge that gives it back, and a bridge that waits  *)
(* for its answer is still on both tables.                                 *)
THEOREM SlotsHaveOwners == Spec => []SlotsAreHeld
  <1>1. Init => TypeInv /\ SlotInv
    BY InitTypeInv, InitSlots
  <1>2. TypeInv /\ SlotInv /\ [Next]_vars => (TypeInv /\ SlotInv)'
    BY TypeStep, SlotStep
  <1>3. TypeInv /\ SlotInv => SlotsAreHeld
    <2> SUFFICES ASSUME TypeInv, SlotInv, NEW s \in Session
                 PROVE  /\ conn[s] # "live" => slots[s] = {}
                        /\ \A i \in slots[s] :
                              bridge[s][i] \in {"asked", "opening", "acked", "late", "open"}
                        /\ \A i \in StreamId :
                              bridge[s][i] = "opening" => i \in pending[s] \intersect slots[s]
      BY DEF SlotsAreHeld
    <2>1. slots[s] \subseteq StreamId
      BY DEF TypeInv, TypeOK, ServerTypeOK
    <2>2. \A i \in StreamId : TablesOK(s, i)
      BY DEF SlotInv, StreamOK
    <2> QED
      BY <2>1, <2>2 DEF TablesOK
  <1> QED
    BY <1>1, <1>2, <1>3, PTL DEF Spec

----------------------------------------------------------------------------
(* The bytes.  The chunks of a stream that holds its slot are numbered     *)
(* from its inbox on through the wire, without a gap, up to the last one   *)
(* its pump has sent, unless the wire is down and the rest is lost.        *)
Numbered(q, i, first, last) ==
    /\ \A k \in DOMAIN q : IsData(q[k], i) => q[k].n >= first /\ q[k].n <= last
    /\ \A j, k \in DOMAIN q : j < k /\ IsData(q[j], i) /\ IsData(q[k], i) => q[j].n < q[k].n
    /\ \A k \in DOMAIN q : IsData(q[k], i) /\ q[k].n # first =>
          \E j \in DOMAIN q : IsData(q[j], i) /\ q[j].n + 1 = q[k].n

UpTo(q, i, first, last) ==
    last + 1 = first \/ \E k \in DOMAIN q : IsData(q[k], i) /\ q[k].n = last

LastSent(s, i) == IF gor[s][i] = "sending" THEN dbSent[s][i] - 1 ELSE dbSent[s][i]
NextTaken(s, i) == Len(got[s][i]) + Len(inbox[s][i]) + 1

InboxOK(s, i) ==
    /\ \A k \in 1..Len(inbox[s][i]) : inbox[s][i][k] = Len(got[s][i]) + k
    /\ NextTaken(s, i) <= dbSent[s][i] + 1
    /\ i > seq[s] => got[s][i] = <<>> /\ inbox[s][i] = <<>>
    /\ gor[s][i] = "none" => dbSent[s][i] = 0

WireOK(s, i) ==
    i \in slots[s] =>
        /\ Numbered(toServer[s], i, NextTaken(s, i), LastSent(s, i))
        /\ wire[s] = "up" => UpTo(toServer[s], i, NextTaken(s, i), LastSent(s, i))

DataInv == \A s \in Session : \A i \in StreamId : InboxOK(s, i) /\ WireOK(s, i)

(* An open is sent once, so a stream's goroutine starts once.              *)
OpenInv ==
    \A s \in Session : \A i \in StreamId :
        /\ OpenOnce(toAgent[s], i)
        /\ gor[s][i] # "none" => NoFrameOf(toAgent[s], {"open"}, i)

LEMMA DataFrames == \A f \in AgentFrame : \A i : IsData(f, i) => f.n \in Nat
  BY FrameFields, WireAssumption DEF IsData, IsFrame, Chunk

(* A frame is read: one of other streams, or the first chunk of this one.  *)
LEMMA NumbersAfterRead ==
    ASSUME NEW q \in Seq(AgentFrame), q # <<>>, NEW i, NEW first \in Nat, NEW last \in Nat,
           Numbered(q, i, first, last)
    PROVE  /\ ~IsData(Head(q), i) =>
                /\ Numbered(Tail(q), i, first, last)
                /\ UpTo(q, i, first, last) => UpTo(Tail(q), i, first, last)
           /\ IsData(Head(q), i) =>
                /\ Head(q).n = first /\ first <= last
                /\ Numbered(Tail(q), i, first + 1, last)
                /\ UpTo(q, i, first, last) => UpTo(Tail(q), i, first + 1, last)
  <1>1. /\ Len(q) \in Nat \ {0} /\ DOMAIN q = 1..Len(q) /\ Head(q) = q[1] /\ q[1] \in AgentFrame
        /\ DOMAIN Tail(q) = 1..(Len(q) - 1)
        /\ \A k \in 1..(Len(q) - 1) : Tail(q)[k] = q[k + 1]
    OBVIOUS
  <1> DEFINE t == Tail(q)
  <1>2. /\ DOMAIN t = 1..(Len(q) - 1)
        /\ \A k \in 1..(Len(q) - 1) : k + 1 \in 1..Len(q) /\ t[k] = q[k + 1]
        /\ \A k \in 1..Len(q) : k = 1 \/ (k - 1 \in 1..(Len(q) - 1) /\ t[k - 1] = q[k])
        /\ \A k \in 1..Len(q) : IsData(q[k], i) => q[k].n \in Nat
    BY <1>1, DataFrames
  <1> HIDE DEF t, IsData
  <1>3. ASSUME ~IsData(q[1], i)
        PROVE  /\ Numbered(t, i, first, last)
               /\ UpTo(q, i, first, last) => UpTo(t, i, first, last)
    <2>1. \A k \in DOMAIN t : IsData(t[k], i) => t[k].n >= first /\ t[k].n <= last
      BY <1>1, <1>2 DEF Numbered
    <2>2. \A j, k \in DOMAIN t : j < k /\ IsData(t[j], i) /\ IsData(t[k], i) => t[j].n < t[k].n
      <3> SUFFICES ASSUME NEW j \in DOMAIN t, NEW k \in DOMAIN t, j < k, IsData(t[j], i), IsData(t[k], i)
                   PROVE  t[j].n < t[k].n
        OBVIOUS
      <3>1. j + 1 < k + 1 /\ j + 1 \in DOMAIN q /\ k + 1 \in DOMAIN q
        BY <1>1, <1>2
      <3> QED
        BY <1>2, <3>1 DEF Numbered
    <2>3. \A k \in DOMAIN t : IsData(t[k], i) /\ t[k].n # first =>
             \E j \in DOMAIN t : IsData(t[j], i) /\ t[j].n + 1 = t[k].n
      <3> SUFFICES ASSUME NEW k \in DOMAIN t, IsData(t[k], i), t[k].n # first
                   PROVE  \E j \in DOMAIN t : IsData(t[j], i) /\ t[j].n + 1 = t[k].n
        OBVIOUS
      <3>1. PICK j \in DOMAIN q : IsData(q[j], i) /\ q[j].n + 1 = q[k + 1].n
        BY <1>1, <1>2 DEF Numbered
      <3>2. j - 1 \in DOMAIN t /\ t[j - 1] = q[j]
        BY <1>1, <1>2, <1>3, <3>1
      <3>3. IsData(t[j - 1], i) /\ t[j - 1].n + 1 = t[k].n
        BY <1>2, <3>1, <3>2
      <3> QED
        BY <3>2, <3>3
    <2>4. UpTo(q, i, first, last) => UpTo(t, i, first, last)
      BY <1>1, <1>2, <1>3 DEF UpTo
    <2> QED
      BY <2>1, <2>2, <2>3, <2>4 DEF Numbered
  <1>4. ASSUME IsData(q[1], i)
        PROVE  /\ q[1].n = first /\ first <= last
               /\ Numbered(t, i, first + 1, last)
               /\ UpTo(q, i, first, last) => UpTo(t, i, first + 1, last)
    <2>1. \A k \in 1..(Len(q) - 1) : IsData(t[k], i) => q[1].n < t[k].n
      <3> SUFFICES ASSUME NEW k \in 1..(Len(q) - 1), IsData(t[k], i) PROVE q[1].n < t[k].n
        OBVIOUS
      <3>1. 1 < k + 1 /\ 1 \in DOMAIN q /\ k + 1 \in DOMAIN q
        BY <1>1, <1>2
      <3> QED
        BY <1>2, <1>4, <3>1 DEF Numbered
    <2>2. q[1].n = first /\ first <= last
      <3>1. q[1].n >= first /\ q[1].n <= last /\ q[1].n \in Nat
        BY <1>1, <1>2, <1>4 DEF Numbered
      <3>2. ASSUME q[1].n # first PROVE FALSE
        <4>1. PICK j \in 1..Len(q) : IsData(q[j], i) /\ q[j].n + 1 = q[1].n
          BY <1>1, <1>4, <3>2 DEF Numbered
        <4>2. q[j].n = q[1].n \/ q[1].n < q[j].n
          BY <1>2, <2>1, <4>1
        <4>3. q[j].n \in Nat
          BY <1>2, <4>1
        <4> QED
          BY <3>1, <4>1, <4>2, <4>3
      <3> QED
        BY <3>1, <3>2
    <2>3. \A k \in DOMAIN t : IsData(t[k], i) => t[k].n >= first + 1 /\ t[k].n <= last
      <3> SUFFICES ASSUME NEW k \in DOMAIN t, IsData(t[k], i)
                   PROVE  t[k].n >= first + 1 /\ t[k].n <= last
        OBVIOUS
      <3>1. t[k].n \in Nat /\ t[k].n <= last /\ first < t[k].n
        BY <1>1, <1>2, <2>1, <2>2 DEF Numbered
      <3> QED
        BY <3>1
    <2>4. \A j, k \in DOMAIN t : j < k /\ IsData(t[j], i) /\ IsData(t[k], i) => t[j].n < t[k].n
      <3> SUFFICES ASSUME NEW j \in DOMAIN t, NEW k \in DOMAIN t, j < k, IsData(t[j], i), IsData(t[k], i)
                   PROVE  t[j].n < t[k].n
        OBVIOUS
      <3>1. j + 1 < k + 1 /\ j + 1 \in DOMAIN q /\ k + 1 \in DOMAIN q
        BY <1>1, <1>2
      <3> QED
        BY <1>2, <3>1 DEF Numbered
    <2>5. \A k \in DOMAIN t : IsData(t[k], i) /\ t[k].n # first + 1 =>
             \E j \in DOMAIN t : IsData(t[j], i) /\ t[j].n + 1 = t[k].n
      <3> SUFFICES ASSUME NEW k \in DOMAIN t, IsData(t[k], i), t[k].n # first + 1
                   PROVE  \E j \in DOMAIN t : IsData(t[j], i) /\ t[j].n + 1 = t[k].n
        OBVIOUS
      <3>1. t[k].n # first
        BY <2>1, <2>2, <1>2
      <3>2. PICK j \in DOMAIN q : IsData(q[j], i) /\ q[j].n + 1 = q[k + 1].n
        BY <1>1, <1>2, <3>1 DEF Numbered
      <3>3. j # 1
        BY <1>2, <2>2, <3>2
      <3>4. j - 1 \in DOMAIN t /\ t[j - 1] = q[j]
        BY <1>1, <1>2, <3>2, <3>3
      <3>5. IsData(t[j - 1], i) /\ t[j - 1].n + 1 = t[k].n
        BY <1>2, <3>2, <3>4
      <3> QED
        BY <3>4, <3>5
    <2>6. UpTo(q, i, first, last) => UpTo(t, i, first + 1, last)
      <3>1. ASSUME UpTo(q, i, first, last), last # first
            PROVE  \E k \in DOMAIN t : IsData(t[k], i) /\ t[k].n = last
        <4>1. PICK k \in 1..Len(q) : IsData(q[k], i) /\ q[k].n = last
          BY <1>1, <2>2, <3>1 DEF UpTo
        <4>2. k # 1
          BY <2>2, <3>1, <4>1
        <4> QED
          BY <1>2, <4>1, <4>2
      <3> QED
        BY <3>1 DEF UpTo
    <2> QED
      BY <2>2, <2>3, <2>4, <2>5, <2>6 DEF Numbered
  <1> QED
    BY <1>1, <1>3, <1>4 DEF t

(* A frame is sent: one of other streams, or the next chunk of this one.   *)
LEMMA NumbersAfterSend ==
    ASSUME NEW q \in Seq(AgentFrame), NEW f \in AgentFrame, NEW i, NEW first \in Nat \ {0},
           NEW last \in Nat, Numbered(q, i, first, last)
    PROVE  /\ ~IsData(f, i) =>
                /\ Numbered(Append(q, f), i, first, last)
                /\ UpTo(q, i, first, last) => UpTo(Append(q, f), i, first, last)
           /\ IsData(f, i) /\ f.n = last + 1 /\ UpTo(q, i, first, last) =>
                Numbered(Append(q, f), i, first, last + 1) /\ UpTo(Append(q, f), i, first, last + 1)
  <1> DEFINE a == Append(q, f)
  <1>1. /\ Len(q) \in Nat /\ DOMAIN q = 1..Len(q)
        /\ DOMAIN a = 1..(Len(q) + 1) /\ a[Len(q) + 1] = f
        /\ \A k \in 1..Len(q) : a[k] = q[k] /\ k \in 1..(Len(q) + 1)
        /\ Len(q) + 1 \in 1..(Len(q) + 1)
        /\ \A k \in 1..(Len(q) + 1) : k \in 1..Len(q) \/ k = Len(q) + 1
        /\ \A k \in 1..Len(q) : IsData(q[k], i) => q[k].n \in Nat
    BY DataFrames
  <1> HIDE DEF a, IsData
  <1>2. ASSUME ~IsData(f, i)
        PROVE  /\ Numbered(a, i, first, last)
               /\ UpTo(q, i, first, last) => UpTo(a, i, first, last)
    <2>1. \A k \in DOMAIN a : IsData(a[k], i) => k \in DOMAIN q /\ a[k] = q[k]
      BY <1>1, <1>2
    <2> QED
      BY <1>1, <2>1 DEF Numbered, UpTo
  <1>3. ASSUME IsData(f, i), f.n = last + 1, UpTo(q, i, first, last)
        PROVE  Numbered(a, i, first, last + 1) /\ UpTo(a, i, first, last + 1)
    <2>1. \A k \in 1..Len(q) : IsData(q[k], i) => q[k].n >= first /\ q[k].n <= last /\ q[k].n < last + 1
      BY <1>1 DEF Numbered
    <2>2. first <= last + 1
      <3>1. CASE last + 1 = first
        BY <3>1
      <3>2. CASE \E k \in DOMAIN q : IsData(q[k], i) /\ q[k].n = last
        BY <1>1, <2>1, <3>2
      <3> QED
        BY <1>3, <3>1, <3>2 DEF UpTo
    <2>3. \A k \in DOMAIN a : IsData(a[k], i) => a[k].n >= first /\ a[k].n <= last + 1
      BY <1>1, <1>3, <2>1, <2>2
    <2>4. \A j, k \in DOMAIN a : j < k /\ IsData(a[j], i) /\ IsData(a[k], i) => a[j].n < a[k].n
      <3> SUFFICES ASSUME NEW j \in DOMAIN a, NEW k \in DOMAIN a, j < k, IsData(a[j], i), IsData(a[k], i)
                   PROVE  a[j].n < a[k].n
        OBVIOUS
      <3>1. j \in 1..Len(q)
        BY <1>1
      <3>2. CASE k \in 1..Len(q)
        BY <1>1, <3>1, <3>2 DEF Numbered
      <3>3. CASE k = Len(q) + 1
        BY <1>1, <1>3, <2>1, <3>1, <3>3
      <3> QED
        BY <1>1, <3>2, <3>3
    <2>5. \A k \in DOMAIN a : IsData(a[k], i) /\ a[k].n # first =>
             \E j \in DOMAIN a : IsData(a[j], i) /\ a[j].n + 1 = a[k].n
      <3> SUFFICES ASSUME NEW k \in DOMAIN a, IsData(a[k], i), a[k].n # first
                   PROVE  \E j \in DOMAIN a : IsData(a[j], i) /\ a[j].n + 1 = a[k].n
        OBVIOUS
      <3>1. CASE k \in 1..Len(q)
        BY <1>1, <3>1 DEF Numbered
      <3>2. CASE k = Len(q) + 1
        BY <1>1, <1>3, <3>2 DEF UpTo
      <3> QED
        BY <1>1, <3>1, <3>2
    <2>6. UpTo(a, i, first, last + 1)
      BY <1>1, <1>3 DEF UpTo
    <2> QED
      BY <2>3, <2>4, <2>5, <2>6 DEF Numbered
  <1> QED
    BY <1>2, <1>3 DEF a

(* Nothing on the wire, or more sent into the void.                        *)
LEMMA NumbersOtherwise ==
    ASSUME NEW q \in Seq(AgentFrame), NEW i, NEW first \in Nat, NEW last \in Nat
    PROVE  /\ Numbered(<<>>, i, first, last)
           /\ Numbered(q, i, first, last) => Numbered(q, i, first, last + 1)
           /\ NoFrameOf(q, {"data"}, i) => Numbered(q, i, first, last)
  <1>1. \A k \in DOMAIN q : q[k] \in AgentFrame
    OBVIOUS
  <1>2. \A k \in DOMAIN q : IsData(q[k], i) => q[k].n \in Nat
    BY <1>1, DataFrames
  <1>3. Numbered(<<>>, i, first, last)
    BY DEF Numbered
  <1>4. Numbered(q, i, first, last) => Numbered(q, i, first, last + 1)
    BY <1>2 DEF Numbered
  <1>5. NoFrameOf(q, {"data"}, i) => Numbered(q, i, first, last)
    BY DEF NoFrameOf, Numbered, IsData, IsFrame
  <1> QED
    BY <1>3, <1>4, <1>5

(* What a server step puts on the wire: an open only for a bridge that has *)
(* taken its slot and not asked yet.                                       *)
LEMMA ServerSends ==
    ASSUME TypeOK, NEW s \in Session, ServerStep(s)
    PROVE  \/ toAgent' = toAgent
           \/ \E f \in ServerFrame :
                 /\ toAgent' = Sent(toAgent, s, f)
                 /\ \A i \in StreamId : IsFrame(f, "open", i) => bridge[s][i] = "asked"
  <1>1. CASE SessionTask(s)
    <2>1. CASE FinishRegister(s)
      BY <2>1, FramesAreTyped DEF FinishRegister, IsFrame, Ready
    <2>2. CASE ~FinishRegister(s)
      BY <1>1, <2>2 DEF SessionTask, Accept, AuthOk, AuthRejects, SocketCloses, Evict, wireVars
    <2> QED
      BY <2>1, <2>2
  <1>2. CASE Hearing(s) \/ OpenStream(s)
    BY <1>2 DEF Hearing, OnHello, OnOpened, OnOpenErr, OnClose, OnData, OpenStream, wireVars
  <1>3. ASSUME NEW i \in StreamId, BridgeTask(s, i)
        PROVE  \/ toAgent' = toAgent
               \/ \E f \in ServerFrame :
                     /\ toAgent' = Sent(toAgent, s, f)
                     /\ \A j \in StreamId : IsFrame(f, "open", j) => bridge[s][j] = "asked"
    <2>1. /\ Close(i) \in ServerFrame /\ Open(i) \in ServerFrame
          /\ \A j : ~IsFrame(Close(i), "open", j) /\ (IsFrame(Open(i), "open", j) => j = i)
      BY FramesAreTyped DEF IsFrame, Close, Open
    <2>2. CASE CloseNow(s, i)
      BY <2>1, <2>2 DEF CloseNow, NoticeOf
    <2>3. CASE SendOpen(s, i)
      BY <2>1, <2>3 DEF SendOpen
    <2>4. CASE OpenTimesOut(s, i) \/ Resume(s, i) \/ StreamEof(s, i) \/ DriverCloses(s, i)
      BY <2>4 DEF OpenTimesOut, Resume, StreamEof, DriverCloses, wireVars
    <2>5. CASE GiveUp(s, i)
      BY <2>1, <2>5 DEF GiveUp, NoticeOf
    <2>6. CASE CopyChunk(s, i) \/ DriverEof(s, i)
      BY <2>2, <2>6 DEF CopyChunk, DriverEof
    <2>7. CASE DriverWrites(s, i)
      <3>1. CASE toAgent' = Sent(toAgent, s, Data(i, written[s][i] + 1))
        <4>1. written[s][i] + 1 \in Chunk
          BY <2>7, WireAssumption DEF DriverWrites, TypeOK, ServerTypeOK, Chunk
        <4>2. PICK f \in ServerFrame : f = Data(i, written[s][i] + 1)
          BY <4>1, FramesAreTyped
        <4>3. \A j : ~IsFrame(f, "open", j)
          BY <4>2 DEF IsFrame, Data
        <4> QED
          BY <3>1, <4>2, <4>3
      <3> QED
        BY <2>2, <2>7, <3>1 DEF DriverWrites
    <2> QED
      BY <1>3, <2>3, <2>4, <2>5, <2>6, <2>7 DEF BridgeTask, Opening, Copying
  <1> QED
    BY <1>1, <1>2, <1>3 DEF ServerStep

LEMMA OpenStep == TypeInv /\ SlotInv /\ OpenInv /\ [Next]_vars => OpenInv'
  <1> SUFFICES ASSUME TypeInv, SlotInv, OpenInv, [Next]_vars, NEW r \in Session, NEW i \in StreamId
               PROVE  OpenOnce(toAgent[r], i)' /\ (gor'[r][i] # "none" => NoFrameOf(toAgent[r], {"open"}, i)')
    BY DEF OpenInv
  <1>1. /\ OpenOnce(toAgent[r], i)
        /\ gor[r][i] # "none" => NoFrameOf(toAgent[r], {"open"}, i)
    BY DEF OpenInv
  <1>2. /\ toAgent \in [Session -> Seq(ServerFrame)]
        /\ gor \in [Session -> [StreamId -> {"none", "dialing", "registered", "pumping", "sending", "done"}]]
    BY DEF TypeInv, TypeOK, WireTypeOK, ClientTypeOK
  <1>3. CASE gor' = gor /\ toAgent' = toAgent
    BY <1>1, <1>3
  <1>4. ASSUME NEW s \in Session, ServerStep(s), UNCHANGED clientVars
        PROVE  OpenOnce(toAgent[r], i)' /\ (gor'[r][i] # "none" => NoFrameOf(toAgent[r], {"open"}, i)')
    <2>1. gor' = gor
      BY <1>4 DEF clientVars
    <2>2. CASE toAgent' = toAgent
      BY <1>3, <2>1, <2>2
    <2>3. CASE toAgent' # toAgent
      <3>1. PICK f \in ServerFrame :
               /\ toAgent' = Sent(toAgent, s, f)
               /\ \A j \in StreamId : IsFrame(f, "open", j) => bridge[s][j] = "asked"
        BY <1>4, <2>3, ServerSends DEF TypeInv
      <3>2. toAgent'[r] = toAgent[r] \/ (r = s /\ toAgent'[r] = Append(toAgent[r], f))
        BY <1>2, <3>1 DEF Sent
      <3>3. r = s /\ IsFrame(f, "open", i) => gor[r][i] = "none" /\ NoFrameOf(toAgent[r], {"open"}, i)
        BY <3>1 DEF SlotInv, StreamOK, UnaskedIsUnknown, NoFrameOf
      <3> DEFINE a == Append(toAgent[r], f)
      <3>4. /\ NoFrameOf(toAgent[r], {"open"}, i) => OpenOnce(a, i)
            /\ OpenOnce(toAgent[r], i) /\ ~IsFrame(f, "open", i) => OpenOnce(a, i)
            /\ NoFrameOf(toAgent[r], {"open"}, i) /\ ~IsFrame(f, "open", i) => NoFrameOf(a, {"open"}, i)
        BY <1>2, OpensOnWire
      <3>5. toAgent'[r] = toAgent[r] \/ (r = s /\ toAgent'[r] = a)
        BY <3>2
      <3> HIDE DEF a
      <3> QED
        BY <1>1, <2>1, <3>3, <3>4, <3>5
    <2> QED
      BY <2>2, <2>3
  <1>5. ASSUME NEW s \in Session, ClientStep(s)
        PROVE  OpenOnce(toAgent[r], i)' /\ (gor'[r][i] # "none" => NoFrameOf(toAgent[r], {"open"}, i)')
    <2>1. CASE ClientDial(s)
      BY <1>3, <2>1 DEF ClientDial
    <2>2. CASE ClientEnds(s)
      <3>1. gor' = gor /\ (toAgent'[r] = toAgent[r] \/ toAgent'[r] = <<>>)
        BY <1>2, <2>2 DEF ClientEnds
      <3>2. OpenOnce(<<>>, i) /\ NoFrameOf(<<>>, {"open"}, i)
        BY DEF OpenOnce, NoFrameOf
      <3> QED
        BY <1>1, <3>1, <3>2
    <2>3. CASE ClientReads(s)
      <3>1. /\ toAgent[s] # <<>> /\ toAgent' = Dropped(toAgent, s)
            /\ \/ gor' = gor
               \/ /\ Head(toAgent[s]).t = "open"
                  /\ gor' = [gor EXCEPT ![s][Head(toAgent[s]).id] = "dialing"]
        BY <2>3 DEF ClientReads, HandleReady, HandleOpen, HandleServerClose, HandleData, Reads, NextIs
      <3>2. toAgent'[r] = toAgent[r] \/ (r = s /\ toAgent[r] # <<>> /\ toAgent'[r] = Tail(toAgent[r]))
        BY <1>2, <3>1 DEF Dropped
      <3>3. r = s => toAgent[r] # <<>> /\ toAgent'[r] = Tail(toAgent[r])
        BY <1>2, <3>1 DEF Dropped
      <3>4. gor'[r][i] = gor[r][i] \/ (r = s /\ IsFrame(Head(toAgent[r]), "open", i))
        BY <1>2, <3>1 DEF IsFrame
      <3>5. NoFrameOf(toAgent[r], {"open"}, i) => NoFrameOf(toAgent'[r], {"open"}, i)
        <4>1. ASSUME toAgent[r] # <<>>, NoFrameOf(toAgent[r], {"open"}, i)
              PROVE  NoFrameOf(Tail(toAgent[r]), {"open"}, i)
          BY <1>2, <4>1, AfterRead
        <4> QED
          BY <3>2, <4>1
      <3>6. OpenOnce(toAgent'[r], i)
        BY <1>1, <1>2, <3>2, OpensOnWire
      <3>7. r = s /\ IsFrame(Head(toAgent[r]), "open", i) => NoFrameOf(toAgent'[r], {"open"}, i)
        BY <1>1, <1>2, <3>3, OpensOnWire
      <3> QED
        BY <1>1, <3>4, <3>5, <3>6, <3>7
    <2>4. ASSUME NEW j \in StreamId, StreamGoroutine(s, j)
          PROVE  OpenOnce(toAgent[r], i)' /\ (gor'[r][i] # "none" => NoFrameOf(toAgent[r], {"open"}, i)')
      <3>1. /\ toAgent' = toAgent /\ gor[s][j] # "none"
            /\ \E g : gor' = [gor EXCEPT ![s][j] = g]
        BY <2>4 DEF StreamGoroutine, DialFails, DialSucceeds, SendOpened, PumpReads, PumpSends,
           DatabaseCloses, PumpStops
      <3>2. gor'[r][i] # "none" => gor[r][i] # "none"
        BY <1>2, <3>1
      <3> QED
        BY <1>1, <3>1, <3>2
    <2> QED
      BY <1>5, <2>1, <2>2, <2>3, <2>4 DEF ClientStep
  <1>6. CASE ServerNext /\ UNCHANGED clientVars
    <2>1. PICK s \in Session : ServerStep(s)
      BY <1>6 DEF ServerNext, ServerStep, SessionTask, BridgeTask
    <2> QED
      BY <1>4, <1>6, <2>1
  <1>7. CASE ClientNext /\ UNCHANGED serverVars
    <2>1. PICK s \in Session : ClientStep(s)
      BY <1>7 DEF ClientNext, ClientStep
    <2> QED
      BY <1>5, <2>1
  <1>8. CASE UNCHANGED vars
    BY <1>3, <1>8 DEF vars, wireVars, clientVars
  <1> QED
    BY <1>6, <1>7, <1>8 DEF Next

(* The types of what the numbering speaks of.                              *)
LEMMA NumberTypes ==
    ASSUME TypeInv, NEW s \in Session, NEW i \in StreamId
    PROVE  /\ NextTaken(s, i) \in Nat \ {0} /\ LastSent(s, i) \in Nat /\ dbSent[s][i] \in Nat
           /\ LastSent(s, i) <= dbSent[s][i]
           /\ got[s][i] \in Seq(Chunk) /\ inbox[s][i] \in Seq(Chunk)
           /\ toServer[s] \in Seq(AgentFrame)
  <1>1. got[s][i] \in Seq(Chunk) /\ inbox[s][i] \in Seq(Chunk)
    BY DEF TypeInv, TypeOK, ServerTypeOK
  <1>2. Len(got[s][i]) \in Nat /\ Len(inbox[s][i]) \in Nat
    BY <1>1
  <1>3. dbSent[s][i] \in 0..MaxChunks /\ (gor[s][i] = "sending" => dbSent[s][i] # 0)
    BY DEF TypeInv, TypeOK, ClientTypeOK, ChunkInHand
  <1>4. toServer[s] \in Seq(AgentFrame)
    BY DEF TypeInv, TypeOK, WireTypeOK
  <1>5. NextTaken(s, i) \in Nat \ {0}
    <2> DEFINE a == Len(got[s][i])
               b == Len(inbox[s][i])
    <2>1. a \in Nat /\ b \in Nat /\ NextTaken(s, i) = a + b + 1
      BY <1>2 DEF NextTaken
    <2> HIDE DEF a, b
    <2> QED
      BY <2>1
  <1>6. dbSent[s][i] \in Nat /\ (gor[s][i] = "sending" => dbSent[s][i] - 1 \in Nat)
    BY <1>3, WireAssumption
  <1>7. LastSent(s, i) \in Nat /\ LastSent(s, i) <= dbSent[s][i]
    BY <1>6 DEF LastSent
  <1> QED
    BY <1>1, <1>4, <1>5, <1>6, <1>7

(* Server steps that hand no chunk on.                                     *)
LEMMA QuietServer ==
    ASSUME TypeInv, DataInv, UNCHANGED clientVars, UNCHANGED <<got, inbox, seq>>,
           \A s \in Session : slots'[s] \subseteq slots[s],
           \/ UNCHANGED <<wire, toServer>>
           \/ \E s \in Session : WireDown(s) /\ toServer' = [toServer EXCEPT ![s] = <<>>]
           \/ \E s \in Session :
                 /\ wire' = wire /\ toServer[s] # <<>> /\ toServer' = Dropped(toServer, s)
                 /\ \A i \in slots[s] : ~IsData(Head(toServer[s]), i)
    PROVE  DataInv'
  <1> SUFFICES ASSUME NEW r \in Session, NEW i \in StreamId PROVE InboxOK(r, i)' /\ WireOK(r, i)'
    BY DEF DataInv
  <1>1. /\ InboxOK(r, i) /\ WireOK(r, i) /\ UNCHANGED <<gor, dbSent>>
        /\ i \in slots'[r] => i \in slots[r]
    BY DEF DataInv, clientVars
  <1>2. InboxOK(r, i)'
    BY <1>1 DEF InboxOK, NextTaken
  <1>3. NextTaken(r, i)' = NextTaken(r, i) /\ LastSent(r, i)' = LastSent(r, i)
    BY <1>1 DEF NextTaken, LastSent
  <1>4. /\ wire \in [Session -> {"idle", "up", "down"}] /\ toServer \in [Session -> Seq(AgentFrame)]
    BY DEF TypeInv, TypeOK, WireTypeOK
  <1>5. \/ wire'[r] = wire[r] /\ toServer'[r] = toServer[r]
        \/ wire'[r] # "up" /\ toServer'[r] = <<>>
        \/ /\ wire'[r] = wire[r] /\ toServer[r] # <<>> /\ toServer'[r] = Tail(toServer[r])
           /\ i \in slots[r] => ~IsData(Head(toServer[r]), i)
    BY <1>4 DEF WireDown, Dropped
  <1>6. WireOK(r, i)'
    <2> SUFFICES ASSUME i \in slots[r]
                 PROVE  /\ Numbered(toServer'[r], i, NextTaken(r, i), LastSent(r, i))
                        /\ wire'[r] = "up" => UpTo(toServer'[r], i, NextTaken(r, i), LastSent(r, i))
      BY <1>1, <1>3 DEF WireOK
    <2>1. /\ Numbered(toServer[r], i, NextTaken(r, i), LastSent(r, i))
          /\ wire[r] = "up" => UpTo(toServer[r], i, NextTaken(r, i), LastSent(r, i))
      BY <1>1 DEF WireOK
    <2>2. /\ NextTaken(r, i) \in Nat \ {0} /\ LastSent(r, i) \in Nat
          /\ toServer[r] \in Seq(AgentFrame)
      BY NumberTypes
    <2>3. CASE wire'[r] = wire[r] /\ toServer'[r] = toServer[r]
      BY <2>1, <2>3
    <2>4. CASE wire'[r] # "up" /\ toServer'[r] = <<>>
      BY <2>2, <2>4, NumbersOtherwise
    <2>5. CASE /\ wire'[r] = wire[r] /\ toServer[r] # <<>> /\ toServer'[r] = Tail(toServer[r])
               /\ ~IsData(Head(toServer[r]), i)
      <3> DEFINE t == Tail(toServer[r])
      <3>1. /\ Numbered(t, i, NextTaken(r, i), LastSent(r, i))
            /\ wire[r] = "up" => UpTo(t, i, NextTaken(r, i), LastSent(r, i))
        BY <2>1, <2>2, <2>5, NumbersAfterRead
      <3> HIDE DEF t
      <3>2. toServer'[r] = t /\ wire'[r] = wire[r]
        BY <2>5 DEF t
      <3> QED
        BY <3>1, <3>2
    <2> QED
      BY <1>5, <2>3, <2>4, <2>5
  <1> QED
    BY <1>2, <1>6

(* Client steps that send no chunk.                                        *)
LEMMA QuietClient ==
    ASSUME TypeInv, DataInv, UNCHANGED serverVars, dbSent' = dbSent,
           \A s \in Session : \A i \in StreamId :
              /\ gor'[s][i] = "sending" <=> gor[s][i] = "sending"
              /\ gor'[s][i] = "none" => gor[s][i] = "none",
           \A s \in Session : wire'[s] = "up" => wire[s] = "up",
           \/ toServer' = toServer
           \/ \E s \in Session : \E f \in AgentFrame :
                 f.t # "data" /\ toServer' = Sent(toServer, s, f)
    PROVE  DataInv'
  <1> SUFFICES ASSUME NEW r \in Session, NEW i \in StreamId PROVE InboxOK(r, i)' /\ WireOK(r, i)'
    BY DEF DataInv
  <1>1. InboxOK(r, i) /\ WireOK(r, i) /\ UNCHANGED <<got, inbox, seq, slots>>
    BY DEF DataInv, serverVars
  <1>2. InboxOK(r, i)'
    BY <1>1 DEF InboxOK, NextTaken
  <1>3. NextTaken(r, i)' = NextTaken(r, i) /\ LastSent(r, i)' = LastSent(r, i)
    BY <1>1 DEF NextTaken, LastSent
  <1>4. WireOK(r, i)'
    <2> SUFFICES ASSUME i \in slots[r]
                 PROVE  /\ Numbered(toServer'[r], i, NextTaken(r, i), LastSent(r, i))
                        /\ wire'[r] = "up" => UpTo(toServer'[r], i, NextTaken(r, i), LastSent(r, i))
      BY <1>1, <1>3 DEF WireOK
    <2>1. /\ Numbered(toServer[r], i, NextTaken(r, i), LastSent(r, i))
          /\ wire[r] = "up" => UpTo(toServer[r], i, NextTaken(r, i), LastSent(r, i))
      BY <1>1 DEF WireOK
    <2>2. /\ NextTaken(r, i) \in Nat \ {0} /\ LastSent(r, i) \in Nat
          /\ toServer[r] \in Seq(AgentFrame)
      BY NumberTypes
    <2>3. CASE toServer'[r] = toServer[r]
      BY <2>1, <2>3
    <2>4. CASE toServer'[r] # toServer[r]
      <3>1. PICK f \in AgentFrame : f.t # "data" /\ toServer'[r] = Append(toServer[r], f)
        <4>1. PICK s \in Session, f \in AgentFrame : f.t # "data" /\ toServer' = Sent(toServer, s, f)
          BY <2>4
        <4>2. toServer \in [Session -> Seq(AgentFrame)]
          BY DEF TypeInv, TypeOK, WireTypeOK
        <4>3. toServer'[r] = Append(toServer[r], f)
          BY <2>4, <4>1, <4>2 DEF Sent
        <4> QED
          BY <4>1, <4>3
      <3> DEFINE a == Append(toServer[r], f)
      <3>2. ~IsData(f, i)
        BY <3>1 DEF IsData, IsFrame
      <3>3. /\ Numbered(a, i, NextTaken(r, i), LastSent(r, i))
            /\ wire[r] = "up" => UpTo(a, i, NextTaken(r, i), LastSent(r, i))
        BY <2>1, <2>2, <3>2, NumbersAfterSend
      <3>4. toServer'[r] = a
        BY <3>1
      <3> HIDE DEF a
      <3> QED
        BY <3>3, <3>4
    <2> QED
      BY <2>3, <2>4
  <1> QED
    BY <1>2, <1>4

(* What adding to a sequence and taking from it change.                    *)
LEMMA AppendFacts ==
    ASSUME NEW S, NEW q \in Seq(S), NEW x \in S
    PROVE  /\ Len(Append(q, x)) = Len(q) + 1
           /\ \A k \in 1..Len(q) : Append(q, x)[k] = q[k]
           /\ Append(q, x)[Len(q) + 1] = x
  OBVIOUS

(* The session task reads: a chunk goes to the inbox of a stream that      *)
(* holds its slot; nothing else concerns the chunks.                       *)
LEMMA HearingKeepsBytes ==
    ASSUME TypeInv, SlotInv, DataInv, UNCHANGED clientVars, NEW s \in Session, Hearing(s)
    PROVE  DataInv'
  <1> DEFINE f == Head(toServer[s])
  <1>1. /\ toServer[s] # <<>> /\ toServer' = Dropped(toServer, s) /\ wire' = wire
        /\ UNCHANGED <<got, seq>>
    BY DEF Hearing, OnHello, OnOpened, OnOpenErr, OnClose, OnData, Hears, NextIs, streamVars
  <1>2. toServer \in [Session -> Seq(AgentFrame)] /\ f \in AgentFrame
    BY <1>1, TakenFromServer DEF TypeInv, TypeOK, WireTypeOK
  <1>3. slots \in [Session -> SUBSET StreamId] /\ inbox \in [Session -> [StreamId -> Seq(Chunk)]]
    BY DEF TypeInv, TypeOK, ServerTypeOK
  <1>4. \A r \in Session : slots'[r] \subseteq slots[r]
    <2>1. slots' = slots \/ \E i : slots' = [slots EXCEPT ![s] = @ \ {i}]
      BY DEF Hearing, OnHello, OnOpened, OnOpenErr, OnClose, OnData, streamVars
    <2> QED
      BY <1>3, <2>1
  <1>5. ASSUME inbox' = inbox, \A i \in slots[s] : ~IsData(f, i) PROVE DataInv'
    BY <1>1, <1>4, <1>5, QuietServer
  <1>6. CASE ~OnData(s)
    <2>1. inbox' = inbox /\ f.t # "data"
      BY <1>6 DEF Hearing, OnHello, OnOpened, OnOpenErr, OnClose, Hears, NextIs, streamVars
    <2> QED
      BY <1>5, <2>1 DEF IsData, IsFrame
  <1>7. CASE OnData(s)
    <2>1. PICK i \in StreamId : i = f.id /\ f.n \in Chunk /\ f.t = "data"
      BY <1>2, <1>7, FrameFields DEF OnData, Hears, NextIs
    <2>2. CASE i \notin slots[s]
      <3>1. inbox' = inbox
        BY <1>7, <2>1, <2>2 DEF OnData, TakesData
      <3>2. \A j \in slots[s] : ~IsData(f, j)
        BY <2>1, <2>2 DEF IsData, IsFrame
      <3> QED
        BY <1>5, <3>1, <3>2
    <2>3. CASE i \in slots[s]
      <3>1. /\ inbox' = [inbox EXCEPT ![s][i] = Append(@, f.n)]
            /\ UNCHANGED <<slots, got, seq, gor, dbSent>>
        BY <1>7, <2>1, <2>3 DEF OnData, TakesData, clientVars
      <3> SUFFICES ASSUME NEW r \in Session, NEW j \in StreamId
                   PROVE  InboxOK(r, j)' /\ WireOK(r, j)'
        BY DEF DataInv
      <3>2. InboxOK(r, j) /\ WireOK(r, j)
        BY DEF DataInv
      <3>3. /\ NextTaken(r, j) \in Nat \ {0} /\ LastSent(r, j) \in Nat /\ dbSent[r][j] \in Nat
            /\ LastSent(r, j) <= dbSent[r][j] /\ toServer[r] \in Seq(AgentFrame)
            /\ inbox[r][j] \in Seq(Chunk) /\ got[r][j] \in Seq(Chunk)
        BY NumberTypes
      <3>4. /\ r # s => toServer'[r] = toServer[r]
            /\ r = s => toServer'[r] = Tail(toServer[r])
            /\ r # s \/ j # i => inbox'[r][j] = inbox[r][j]
            /\ inbox'[s][i] = Append(inbox[s][i], f.n)
        BY <1>1, <1>2, <1>3, <3>1 DEF Dropped
      <3>5. LastSent(r, j)' = LastSent(r, j)
        BY <3>1 DEF LastSent
      <3> DEFINE t == Tail(toServer[s])
      <3>6. CASE r # s
        <4>1. NextTaken(r, j)' = NextTaken(r, j)
          BY <3>1, <3>4, <3>6 DEF NextTaken
        <4> QED
          BY <1>1, <3>1, <3>2, <3>4, <3>5, <3>6, <4>1 DEF InboxOK, WireOK
      <3>7. CASE r = s /\ j # i
        <4>1. NextTaken(r, j)' = NextTaken(r, j)
          BY <3>1, <3>4, <3>7 DEF NextTaken
        <4>2. ~IsData(f, j)
          BY <2>1, <3>7 DEF IsData, IsFrame
        <4>3. Numbered(toServer[s], j, NextTaken(s, j), LastSent(s, j)) =>
                /\ Numbered(t, j, NextTaken(s, j), LastSent(s, j))
                /\ UpTo(toServer[s], j, NextTaken(s, j), LastSent(s, j)) =>
                      UpTo(t, j, NextTaken(s, j), LastSent(s, j))
          BY <1>1, <3>3, <3>7, <4>2, NumbersAfterRead
        <4>4. toServer'[r] = t
          BY <3>4, <3>7
        <4>5. InboxOK(r, j)'
          BY <3>1, <3>2, <3>4, <3>7, <4>1 DEF InboxOK
        <4> HIDE DEF t, f
        <4> QED
          BY <1>1, <3>1, <3>2, <3>5, <3>7, <4>1, <4>3, <4>4, <4>5 DEF WireOK
      <3>8. CASE r = s /\ j = i
        <4>1. /\ Numbered(toServer[s], i, NextTaken(s, i), LastSent(s, i))
              /\ wire[s] = "up" => UpTo(toServer[s], i, NextTaken(s, i), LastSent(s, i))
          BY <2>3, <3>2, <3>8 DEF WireOK
        <4>2. IsData(f, i)
          BY <2>1 DEF IsData, IsFrame
        <4>3. /\ f.n = NextTaken(s, i) /\ NextTaken(s, i) <= LastSent(s, i)
              /\ Numbered(t, i, NextTaken(s, i) + 1, LastSent(s, i))
              /\ UpTo(toServer[s], i, NextTaken(s, i), LastSent(s, i)) =>
                    UpTo(t, i, NextTaken(s, i) + 1, LastSent(s, i))
          BY <1>1, <3>3, <3>8, <4>1, <4>2, NumbersAfterRead
        <4>4. toServer'[s] = t
          BY <3>4, <3>8
        <4>5. /\ Len(inbox'[s][i]) = Len(inbox[s][i]) + 1
              /\ \A k \in 1..Len(inbox[s][i]) : inbox'[s][i][k] = inbox[s][i][k]
              /\ inbox'[s][i][Len(inbox[s][i]) + 1] = f.n
          <5> DEFINE q == inbox[s][i]
                     n == f.n
          <5>1. q \in Seq(Chunk) /\ n \in Chunk /\ inbox'[s][i] = Append(q, n)
            BY <2>1, <3>3, <3>4, <3>8
          <5> HIDE DEF q, n
          <5>2. /\ Len(Append(q, n)) = Len(q) + 1
                /\ \A k \in 1..Len(q) : Append(q, n)[k] = q[k]
                /\ Append(q, n)[Len(q) + 1] = n
            BY <5>1, AppendFacts
          <5>3. /\ Len(inbox'[s][i]) = Len(q) + 1
                /\ \A k \in 1..Len(q) : inbox'[s][i][k] = q[k]
                /\ inbox'[s][i][Len(q) + 1] = n
            BY <5>1, <5>2
          <5> QED
            BY <5>3 DEF q, n
        <4>6. NextTaken(s, i)' = NextTaken(s, i) + 1
          <5> DEFINE a == Len(got[s][i])
                     b == Len(inbox[s][i])
                     c == Len(inbox'[s][i])
          <5>1. a \in Nat /\ b \in Nat
            BY <3>3, <3>8
          <5>2. c = b + 1
            BY <4>5
          <5>3. got' = got
            BY <1>1
          <5>4. NextTaken(s, i)' = a + c + 1 /\ NextTaken(s, i) = a + b + 1
            BY <5>3 DEF NextTaken
          <5> HIDE DEF a, b, c
          <5> QED
            BY <5>1, <5>2, <5>4
        <4>7. ~(i > seq[s])
          BY <2>3 DEF SlotInv, StreamOK, TablesOK
        <4>8. \A k \in 1..(Len(inbox[s][i]) + 1) : inbox'[s][i][k] = Len(got[s][i]) + k
          <5>1. Len(inbox[s][i]) \in Nat /\ Len(got[s][i]) \in Nat
            BY <3>3, <3>8
          <5> HIDE DEF f
          <5> SUFFICES ASSUME NEW k \in 1..(Len(inbox[s][i]) + 1)
                       PROVE  inbox'[s][i][k] = Len(got[s][i]) + k
            OBVIOUS
          <5>2. CASE k \in 1..Len(inbox[s][i])
            BY <3>2, <3>8, <4>5, <5>2 DEF InboxOK
          <5>3. CASE k = Len(inbox[s][i]) + 1
            <6> DEFINE a == Len(got[s][i])
                       b == Len(inbox[s][i])
            <6>1. /\ a \in Nat /\ b \in Nat /\ k = b + 1
                  /\ inbox'[s][i][k] = a + b + 1
              BY <4>3, <4>5, <5>1, <5>3 DEF NextTaken
            <6>2. a + b + 1 = a + k
              <7> HIDE DEF a, b
              <7> QED
                BY <6>1
            <6> QED
              BY <6>1, <6>2
          <5> QED
            BY <5>1, <5>2, <5>3
        <4>9. InboxOK(s, i)'
          <5>1. NextTaken(s, i) + 1 <= dbSent[s][i] + 1
            BY <3>3, <3>8, <4>3
          <5> HIDE DEF f
          <5> QED
            BY <3>1, <3>2, <3>8, <4>5, <4>6, <4>7, <4>8, <5>1 DEF InboxOK
        <4> HIDE DEF t, f
        <4>10. WireOK(s, i)'
          BY <1>1, <3>5, <3>8, <4>1, <4>3, <4>4, <4>6 DEF WireOK
        <4> QED
          BY <3>8, <4>9, <4>10
      <3> QED
        BY <3>6, <3>7, <3>8
    <2> QED
      BY <2>2, <2>3
  <1> QED
    BY <1>6, <1>7

(* A new stream: nothing has been taken of it and nothing sent.            *)
LEMMA OpenStreamKeepsBytes ==
    ASSUME TypeInv, SlotInv, DataInv, UNCHANGED clientVars, NEW s \in Session, OpenStream(s)
    PROVE  DataInv'
  <1>1. PICK n \in StreamId : n = seq[s] + 1
    <2>1. seq[s] \in 0..MaxOpens /\ seq[s] < MaxOpens /\ MaxOpens \in Nat
      BY WireAssumption DEF OpenStream, TypeInv, TypeOK, ServerTypeOK
    <2>2. seq[s] + 1 \in 1..MaxOpens
      BY <2>1
    <2> QED
      BY <2>2 DEF StreamId
  <1>2. /\ UNCHANGED <<wire, toServer, got, inbox, gor, dbSent>>
        /\ seq' = [seq EXCEPT ![s] = n]
        /\ slots' = [slots EXCEPT ![s] = @ \cup {n}]
    BY <1>1 DEF OpenStream, NextId, wireVars, clientVars
  <1>3. /\ seq \in [Session -> 0..MaxOpens] /\ MaxOpens \in Nat
        /\ slots \in [Session -> SUBSET StreamId]
    BY WireAssumption DEF TypeInv, TypeOK, ServerTypeOK
  <1> SUFFICES ASSUME NEW r \in Session, NEW i \in StreamId PROVE InboxOK(r, i)' /\ WireOK(r, i)'
    BY DEF DataInv
  <1>4. InboxOK(r, i) /\ WireOK(r, i)
    BY DEF DataInv
  <1>5. i > seq'[r] => i > seq[r]
    BY <1>1, <1>2, <1>3 DEF StreamId
  <1>6. NextTaken(r, i)' = NextTaken(r, i) /\ LastSent(r, i)' = LastSent(r, i)
    BY <1>2 DEF NextTaken, LastSent
  <1>7. InboxOK(r, i)'
    BY <1>2, <1>4, <1>5, <1>6 DEF InboxOK
  <1>8. CASE i \in slots[r] \/ r # s \/ i # n
    <2>1. i \in slots'[r] => i \in slots[r]
      BY <1>2, <1>3, <1>8
    <2> QED
      BY <1>2, <1>4, <1>6, <1>7, <2>1 DEF WireOK
  <1>9. CASE i \notin slots[r] /\ r = s /\ i = n
    <2>1. bridge[s][n] = "none"
      BY <1>1, <1>3 DEF SlotInv, StreamOK, TablesOK, StreamId
    <2>2. gor[s][n] = "none" /\ NoFrameOf(toServer[s], AnswerKinds, n)
      BY <2>1 DEF SlotInv, StreamOK, UnaskedIsUnknown
    <2>3. got[s][n] = <<>> /\ inbox[s][n] = <<>> /\ dbSent[s][n] = 0
      BY <1>1, <1>3, <1>4, <1>9, <2>2 DEF InboxOK, StreamId
    <2>4. NextTaken(s, n) = 1 /\ LastSent(s, n) = 0
      <3>1. NextTaken(s, n) = 0 + 0 + 1
        BY <2>3 DEF NextTaken
      <3> QED
        BY <2>2, <2>3, <3>1 DEF LastSent
    <2>5. NoFrameOf(toServer[s], {"data"}, n)
      BY <2>2 DEF NoFrameOf, AnswerKinds
    <2>6. Numbered(toServer[s], n, 1, 0) /\ UpTo(toServer[s], n, 1, 0)
      <3>1. toServer[s] \in Seq(AgentFrame)
        BY NumberTypes
      <3> QED
        BY <2>5, <3>1, NumbersOtherwise DEF UpTo
    <2> QED
      BY <1>2, <1>6, <1>7, <1>9, <2>4, <2>6 DEF WireOK
  <1> QED
    BY <1>8, <1>9

LEMMA TakeFacts ==
    ASSUME NEW S, NEW q \in Seq(S), q # <<>>
    PROVE  /\ Len(q) \in Nat \ {0} /\ Head(q) = q[1] /\ Head(q) \in S
           /\ Len(Tail(q)) = Len(q) - 1
           /\ \A k \in 1..(Len(q) - 1) : Tail(q)[k] = q[k + 1]
  OBVIOUS

(* The bridge hands the driver the next chunk.                             *)
LEMMA DeliveryKeepsBytes ==
    ASSUME TypeInv, DataInv, UNCHANGED clientVars, NEW s \in Session, NEW i \in StreamId,
           UNCHANGED <<wire, toServer, slots, seq>>, inbox[s][i] # <<>>,
           inbox' = [inbox EXCEPT ![s][i] = Tail(@)],
           got' = [got EXCEPT ![s][i] = Append(@, Head(inbox[s][i]))], i <= seq[s]
    PROVE  DataInv'
  <1> SUFFICES ASSUME NEW r \in Session, NEW j \in StreamId PROVE InboxOK(r, j)' /\ WireOK(r, j)'
    BY DEF DataInv
  <1>1. InboxOK(r, j) /\ WireOK(r, j) /\ UNCHANGED <<gor, dbSent>>
    BY DEF DataInv, clientVars
  <1>2. /\ inbox \in [Session -> [StreamId -> Seq(Chunk)]]
        /\ got \in [Session -> [StreamId -> Seq(Chunk)]]
    BY DEF TypeInv, TypeOK, ServerTypeOK
  <1>3. LastSent(r, j)' = LastSent(r, j)
    BY <1>1 DEF LastSent
  <1>4. CASE r # s \/ j # i
    <2>1. inbox'[r][j] = inbox[r][j] /\ got'[r][j] = got[r][j]
      BY <1>2, <1>4
    <2>2. NextTaken(r, j)' = NextTaken(r, j)
      BY <2>1 DEF NextTaken
    <2> QED
      BY <1>1, <1>3, <2>1, <2>2 DEF InboxOK, WireOK
  <1>5. CASE r = s /\ j = i
    <2> DEFINE q == inbox[s][i]
               g == got[s][i]
    <2>1. /\ q \in Seq(Chunk) /\ g \in Seq(Chunk) /\ q # <<>>
          /\ inbox'[s][i] = Tail(q) /\ got'[s][i] = Append(g, Head(q))
      BY <1>2
    <2> DEFINE a == Len(g)
               b == Len(q)
    <2>2. /\ a \in Nat /\ b \in Nat \ {0} /\ Len(got'[s][i]) = a + 1 /\ Len(inbox'[s][i]) = b - 1
          /\ \A k \in 1..(b - 1) : inbox'[s][i][k] = q[k + 1]
      <3> HIDE DEF q, g
      <3>1. Len(g) \in Nat
        BY <2>1
      <3>2. Len(Append(g, Head(q))) = Len(g) + 1
        BY <2>1, TakeFacts, AppendFacts
      <3>3. /\ Len(q) \in Nat \ {0} /\ Len(Tail(q)) = Len(q) - 1
            /\ \A k \in 1..(Len(q) - 1) : Tail(q)[k] = q[k + 1]
        BY <2>1, TakeFacts
      <3> QED
        BY <2>1, <3>1, <3>2, <3>3
    <2>3. \A k \in 1..b : q[k] = a + k
      BY <1>1, <1>5 DEF InboxOK
    <2>4. \A k \in 1..(b - 1) : inbox'[s][i][k] = (a + 1) + k
      <3> HIDE DEF q, g, a, b
      <3> SUFFICES ASSUME NEW k \in 1..(b - 1) PROVE inbox'[s][i][k] = (a + 1) + k
        OBVIOUS
      <3>1. k + 1 \in 1..b /\ a + (k + 1) = (a + 1) + k
        <4>1. a \in Nat /\ b \in Nat
          BY <2>2
        <4> QED
          BY <4>1
      <3>2. inbox'[s][i][k] = q[k + 1]
        BY <2>2
      <3> QED
        BY <2>3, <3>1, <3>2
    <2>5. NextTaken(s, i)' = NextTaken(s, i)
      <3>1. NextTaken(s, i)' = (a + 1) + (b - 1) + 1 /\ NextTaken(s, i) = a + b + 1
        BY <2>2 DEF NextTaken
      <3>2. a \in Nat /\ b \in Nat
        BY <2>2
      <3> HIDE DEF a, b
      <3> QED
        BY <3>1, <3>2
    <2>6. InboxOK(s, i)'
      <3>1. ~(i > seq[s])
        BY DEF TypeInv, TypeOK, ServerTypeOK, StreamId
      <3> HIDE DEF q, g, a, b
      <3> QED
        BY <1>1, <1>5, <2>2, <2>4, <2>5, <3>1 DEF InboxOK
    <2> QED
      BY <1>1, <1>3, <1>5, <2>5, <2>6 DEF WireOK
  <1> QED
    BY <1>4, <1>5

(* Every step of the server.                                               *)
LEMMA ServerKeepsBytes ==
    ASSUME TypeInv, SlotInv, DataInv, UNCHANGED clientVars, NEW s \in Session, ServerStep(s)
    PROVE  DataInv'
  <1>1. slots \in [Session -> SUBSET StreamId]
    BY DEF TypeInv, TypeOK, ServerTypeOK
  <1>2. CASE SessionTask(s)
    <2>1. UNCHANGED <<got, inbox, seq>>
      BY <1>2 DEF SessionTask, Accept, AuthOk, AuthRejects, FinishRegister, SocketCloses, Evict,
         streamVars
    <2>2. \A r \in Session : slots'[r] \subseteq slots[r]
      BY <1>1, <1>2 DEF SessionTask, Accept, AuthOk, AuthRejects, FinishRegister, SocketCloses,
         Evict, TornDown, streamVars
    <2>3. \/ UNCHANGED <<wire, toServer>>
          \/ \E r \in Session : WireDown(r) /\ toServer' = [toServer EXCEPT ![r] = <<>>]
      BY <1>2 DEF SessionTask, Accept, AuthOk, AuthRejects, FinishRegister, SocketCloses, Evict,
         wireVars
    <2> QED
      BY <2>1, <2>2, <2>3, QuietServer
  <1>3. CASE Hearing(s)
    BY <1>3, HearingKeepsBytes
  <1>4. CASE OpenStream(s)
    BY <1>4, OpenStreamKeepsBytes
  <1>5. ASSUME NEW i \in StreamId, BridgeTask(s, i) PROVE DataInv'
    <2>1. UNCHANGED <<wire, toServer, seq>>
      BY <1>5 DEF BridgeTask, Opening, Copying, SendOpen, OpenTimesOut, GiveUp, Resume, CopyChunk,
         DriverEof, StreamEof, DriverCloses, DriverWrites, wireVars
    <2>2. CASE got' = got
      <3>1. inbox' = inbox
        <4>1. CASE CopyChunk(s, i)
          <5>1. ASSUME got' = [got EXCEPT ![s][i] = Append(@, Head(inbox[s][i]))],
                       inbox[s][i] # <<>> PROVE FALSE
            <6>1. got[s][i] \in Seq(Chunk)
              BY DEF TypeInv, TypeOK, ServerTypeOK
            <6> DEFINE x == Head(inbox[s][i])
                       g == got[s][i]
            <6>2. g = Append(g, x)
              BY <2>2, <5>1 DEF TypeInv, TypeOK, ServerTypeOK
            <6>3. x \in Chunk
              BY <5>1, TakeFacts DEF TypeInv, TypeOK, ServerTypeOK
            <6> HIDE DEF x, g
            <6>4. g \in Seq(Chunk)
              BY <6>1 DEF g
            <6>5. Len(Append(g, x)) = Len(g) + 1 /\ Len(g) \in Nat
              BY <6>3, <6>4, AppendFacts
            <6> QED
              BY <6>2, <6>5
          <5> QED
            BY <4>1, <5>1 DEF CopyChunk
        <4> QED
          BY <1>5, <4>1 DEF BridgeTask, Opening, Copying, SendOpen, OpenTimesOut, GiveUp, Resume,
             DriverEof, StreamEof, DriverCloses, DriverWrites
      <3>2. slots' = slots \/ slots' = [slots EXCEPT ![s] = @ \ {i}]
        BY <1>5 DEF BridgeTask, Opening, Copying, SendOpen, OpenTimesOut, GiveUp, Resume, CopyChunk,
           DriverEof, StreamEof, DriverCloses, DriverWrites, Forgotten, CloseNow
      <3>3. \A r \in Session : slots'[r] \subseteq slots[r]
        BY <1>1, <3>2
      <3> QED
        BY <2>1, <2>2, <3>1, <3>3, QuietServer
    <2>3. CASE got' # got
      <3>1. /\ bridge[s][i] \in {"open", "halfclosed"} /\ inbox[s][i] # <<>> /\ slots' = slots
            /\ inbox' = [inbox EXCEPT ![s][i] = Tail(@)]
            /\ got' = [got EXCEPT ![s][i] = Append(@, Head(inbox[s][i]))]
        BY <1>5, <2>3 DEF BridgeTask, Opening, Copying, SendOpen, OpenTimesOut, GiveUp, Resume,
           CopyChunk, DriverEof, StreamEof, DriverCloses, DriverWrites
      <3>2. i <= seq[s]
        <4>1. ~(i > seq[s])
          BY <3>1 DEF SlotInv, StreamOK, TablesOK
        <4>2. seq[s] \in 0..MaxOpens /\ i \in 1..MaxOpens /\ MaxOpens \in Nat
          BY WireAssumption DEF TypeInv, TypeOK, ServerTypeOK, StreamId
        <4> QED
          BY <4>1, <4>2
      <3> QED
        BY <2>1, <3>1, <3>2, DeliveryKeepsBytes
    <2> QED
      BY <2>2, <2>3
  <1> QED
    BY <1>2, <1>3, <1>4, <1>5 DEF ServerStep

(* The pump takes a chunk in hand, then sends it as the next one.          *)
LEMMA PumpKeepsBytes ==
    ASSUME TypeInv, DataInv, UNCHANGED serverVars, NEW s \in Session, NEW i \in StreamId,
           PumpReads(s, i) \/ PumpSends(s, i)
    PROVE  DataInv'
  <1> SUFFICES ASSUME NEW r \in Session, NEW j \in StreamId PROVE InboxOK(r, j)' /\ WireOK(r, j)'
    BY DEF DataInv
  <1>1. InboxOK(r, j) /\ WireOK(r, j) /\ UNCHANGED <<got, inbox, seq, slots, wire>>
    BY DEF DataInv, serverVars, PumpReads, PumpSends
  <1>2. NextTaken(r, j)' = NextTaken(r, j)
    BY <1>1 DEF NextTaken
  <1>3. /\ gor \in [Session -> [StreamId -> {"none", "dialing", "registered", "pumping", "sending", "done"}]]
        /\ dbSent \in [Session -> [StreamId -> 0..MaxChunks]]
        /\ toServer \in [Session -> Seq(AgentFrame)]
    BY DEF TypeInv, TypeOK, ClientTypeOK, WireTypeOK
  <1>4. /\ NextTaken(r, j) \in Nat \ {0} /\ LastSent(r, j) \in Nat /\ dbSent[r][j] \in Nat
        /\ toServer[r] \in Seq(AgentFrame)
    BY NumberTypes
  <1>5. CASE r # s \/ j # i
    <2>1. gor'[r][j] = gor[r][j] /\ dbSent'[r][j] = dbSent[r][j]
      BY <1>3, <1>5 DEF PumpReads, PumpSends
    <2>2. InboxOK(r, j)' /\ LastSent(r, j)' = LastSent(r, j)
      BY <1>1, <1>2, <2>1 DEF InboxOK, LastSent
    <2>3. CASE toServer'[r] = toServer[r]
      BY <1>1, <1>2, <2>2, <2>3 DEF WireOK
    <2>4. CASE toServer'[r] # toServer[r]
      <3>1. PICK f \in AgentFrame : /\ toServer'[r] = Append(toServer[r], f)
                                    /\ ~IsData(f, j)
        <4>1. toServer' = Sent(toServer, s, Data(i, dbSent[s][i])) /\ gor[s][i] = "sending"
          BY <2>4 DEF PumpReads, PumpSends
        <4>2. dbSent[s][i] \in Chunk
          BY <1>3, <4>1, WireAssumption DEF TypeInv, ChunkInHand, Chunk
        <4>3. PICK f \in AgentFrame : f = Data(i, dbSent[s][i])
          BY <4>2, FramesAreTyped
        <4>4. r = s /\ toServer'[r] = Append(toServer[r], f)
          BY <1>3, <2>4, <4>1, <4>3 DEF Sent
        <4>5. ~IsData(f, j)
          BY <1>5, <4>3, <4>4 DEF IsData, IsFrame, Data
        <4> QED
          BY <4>4, <4>5
      <3> DEFINE a == Append(toServer[r], f)
      <3>2. Numbered(toServer[r], j, NextTaken(r, j), LastSent(r, j)) =>
              /\ Numbered(a, j, NextTaken(r, j), LastSent(r, j))
              /\ UpTo(toServer[r], j, NextTaken(r, j), LastSent(r, j)) =>
                    UpTo(a, j, NextTaken(r, j), LastSent(r, j))
        BY <1>4, <3>1, NumbersAfterSend
      <3>3. toServer'[r] = a
        BY <3>1
      <3> HIDE DEF a
      <3> QED
        BY <1>1, <1>2, <2>2, <3>2, <3>3 DEF WireOK
    <2> QED
      BY <2>3, <2>4
  <1>6. CASE r = s /\ j = i /\ PumpReads(s, i)
    <2>1. /\ gor[s][i] = "pumping" /\ gor'[s][i] = "sending" /\ toServer' = toServer
          /\ dbSent'[s][i] = dbSent[s][i] + 1
      BY <1>3, <1>6 DEF PumpReads
    <2>2. (dbSent[s][i] + 1) - 1 = dbSent[s][i]
      BY <1>4, <1>6
    <2>3. LastSent(s, i)' = LastSent(s, i)
      <3>1. LastSent(s, i)' = dbSent'[s][i] - 1
        BY <2>1 DEF LastSent
      <3>2. LastSent(s, i) = dbSent[s][i]
        BY <2>1 DEF LastSent
      <3> QED
        BY <2>1, <2>2, <3>1, <3>2
    <2>4. NextTaken(s, i) <= dbSent[s][i] + 1 => NextTaken(s, i) <= (dbSent[s][i] + 1) + 1
      BY <1>4, <1>6
    <2>5. InboxOK(s, i)'
      BY <1>1, <1>2, <1>6, <2>1, <2>4 DEF InboxOK
    <2> QED
      BY <1>1, <1>2, <1>6, <2>1, <2>3, <2>5 DEF WireOK
  <1>7. CASE r = s /\ j = i /\ PumpSends(s, i)
    <2>1. /\ gor[s][i] = "sending" /\ gor'[s][i] = "pumping" /\ dbSent' = dbSent
          /\ toServer' = Sent(toServer, s, Data(i, dbSent[s][i]))
      BY <1>3, <1>7 DEF PumpSends
    <2>2. LastSent(s, i)' = LastSent(s, i) + 1 /\ LastSent(s, i)' = dbSent[s][i]
      <3>1. dbSent[s][i] - 1 + 1 = dbSent[s][i]
        BY <1>4, <1>7
      <3> QED
        BY <2>1, <3>1 DEF LastSent
    <2>3. InboxOK(s, i)'
      BY <1>1, <1>2, <1>7, <2>1 DEF InboxOK
    <2>4. ASSUME i \in slots[s]
          PROVE  /\ Numbered(toServer'[s], i, NextTaken(s, i), LastSent(s, i) + 1)
                 /\ wire[s] = "up" => UpTo(toServer'[s], i, NextTaken(s, i), LastSent(s, i) + 1)
      <3>1. /\ Numbered(toServer[s], i, NextTaken(s, i), LastSent(s, i))
            /\ wire[s] = "up" => UpTo(toServer[s], i, NextTaken(s, i), LastSent(s, i))
        BY <1>1, <1>7, <2>4 DEF WireOK
      <3>2. CASE wire[s] # "up"
        <4>1. toServer'[s] = toServer[s]
          BY <2>1, <3>2 DEF Sent
        <4> QED
          BY <1>4, <1>7, <3>1, <3>2, <4>1, NumbersOtherwise
      <3>3. CASE wire[s] = "up"
        <4>1. dbSent[s][i] \in Chunk
          BY <1>3, <2>1, WireAssumption DEF TypeInv, ChunkInHand, Chunk
        <4>2. PICK f \in AgentFrame : f = Data(i, dbSent[s][i])
          BY <4>1, FramesAreTyped
        <4> DEFINE a == Append(toServer[s], f)
        <4>3. toServer'[s] = a
          BY <1>3, <2>1, <3>3, <4>2 DEF Sent
        <4>4. IsData(f, i) /\ f.n = LastSent(s, i) + 1
          BY <2>2, <4>2 DEF IsData, IsFrame, Data
        <4>5. /\ Numbered(a, i, NextTaken(s, i), LastSent(s, i) + 1)
              /\ UpTo(a, i, NextTaken(s, i), LastSent(s, i) + 1)
          BY <1>4, <1>7, <3>1, <3>3, <4>4, NumbersAfterSend
        <4> HIDE DEF a
        <4> QED
          BY <4>3, <4>5
      <3> QED
        BY <3>2, <3>3
    <2> QED
      BY <1>1, <1>2, <1>7, <2>2, <2>3, <2>4 DEF WireOK
  <1> QED
    BY <1>5, <1>6, <1>7

(* A dial is the first thing a session sees.                               *)
LEMMA DialKeepsBytes ==
    ASSUME TypeInv, SlotInv, DataInv, UNCHANGED serverVars, NEW s \in Session, ClientDial(s)
    PROVE  DataInv'
  <1> SUFFICES ASSUME NEW r \in Session, NEW i \in StreamId PROVE InboxOK(r, i)' /\ WireOK(r, i)'
    BY DEF DataInv
  <1>1. InboxOK(r, i) /\ WireOK(r, i) /\ UNCHANGED <<got, inbox, seq, slots, gor, dbSent>>
    BY DEF DataInv, serverVars, ClientDial
  <1>2. /\ wire \in [Session -> {"idle", "up", "down"}] /\ toServer \in [Session -> Seq(AgentFrame)]
    BY DEF TypeInv, TypeOK, WireTypeOK
  <1>3. InboxOK(r, i)' /\ NextTaken(r, i)' = NextTaken(r, i) /\ LastSent(r, i)' = LastSent(r, i)
    BY <1>1 DEF InboxOK, NextTaken, LastSent
  <1>4. CASE r # s
    <2>1. wire'[r] = wire[r] /\ toServer'[r] = toServer[r]
      BY <1>2, <1>4 DEF ClientDial
    <2> QED
      BY <1>1, <1>3, <2>1 DEF WireOK
  <1>5. CASE r = s
    <2>1. toServer'[s] = <<Hello>> /\ cl[s] = "new"
      BY <1>2 DEF ClientDial
    <2>2. gor[s][i] = "none"
      BY <2>1 DEF SlotInv, StreamOK, NewClientIsIdle
    <2>3. dbSent[s][i] = 0 /\ LastSent(s, i) = 0
      BY <1>1, <1>5, <2>2 DEF InboxOK, LastSent
    <2>4. NextTaken(s, i) = 1
      <3>1. NextTaken(s, i) \in Nat \ {0} /\ NextTaken(s, i) <= 0 + 1
        BY <1>1, <1>5, <2>3, NumberTypes DEF InboxOK
      <3> QED
        BY <3>1
    <2>5. Numbered(<<Hello>>, i, 1, 0) /\ UpTo(<<Hello>>, i, 1, 0)
      <3>1. \A k \in DOMAIN <<Hello>> : ~IsData(<<Hello>>[k], i)
        BY DEF Hello, IsData, IsFrame
      <3> DEFINE q == <<Hello>>
      <3> HIDE DEF q
      <3>2. Numbered(q, i, 1, 0) /\ UpTo(q, i, 1, 0)
        BY <3>1 DEF Numbered, UpTo, q
      <3> QED
        BY <3>2 DEF q
    <2> QED
      BY <1>1, <1>3, <1>5, <2>1, <2>3, <2>4, <2>5 DEF WireOK
  <1> QED
    BY <1>4, <1>5

(* Every step of the agent.                                                *)
LEMMA ClientKeepsBytes ==
    ASSUME TypeInv, SlotInv, OpenInv, DataInv, UNCHANGED serverVars,
           NEW s \in Session, ClientStep(s)
    PROVE  DataInv'
  <1>1. /\ wire \in [Session -> {"idle", "up", "down"}]
        /\ gor \in [Session -> [StreamId -> {"none", "dialing", "registered", "pumping", "sending", "done"}]]
    BY DEF TypeInv, TypeOK, WireTypeOK, ClientTypeOK
  <1>2. \A i \in StreamId : \A kind \in {OpenErr(i), Opened(i), Close(i)} :
           kind \in AgentFrame /\ kind.t # "data"
    <2>1. \A i \in StreamId : OpenErr(i) \in AgentFrame /\ Opened(i) \in AgentFrame /\ Close(i) \in AgentFrame
      BY FramesAreTyped
    <2>2. \A i : OpenErr(i).t = "openerr" /\ Opened(i).t = "opened" /\ Close(i).t = "close"
      BY DEF OpenErr, Opened, Close
    <2> QED
      BY <2>1, <2>2
  <1>3. CASE ClientDial(s)
    BY <1>3, DialKeepsBytes
  <1>4. CASE ClientEnds(s)
    <2>1. \A r \in Session : wire'[r] = "up" => wire[r] = "up"
      BY <1>1, <1>4 DEF ClientEnds, WireDown
    <2> QED
      BY <1>4, <2>1, QuietClient DEF ClientEnds
  <1>5. CASE ClientReads(s)
    <2>1. UNCHANGED <<wire, dbSent>>
      BY <1>5 DEF ClientReads, HandleReady, HandleOpen, HandleServerClose, HandleData
    <2>2. \A r \in Session : \A i \in StreamId :
              /\ gor'[r][i] = "sending" <=> gor[r][i] = "sending"
              /\ gor'[r][i] = "none" => gor[r][i] = "none"
      <3>1. CASE gor' = gor
        BY <3>1
      <3>2. CASE gor' # gor
        <4>1. /\ toAgent[s] # <<>> /\ Head(toAgent[s]).t = "open"
              /\ gor' = [gor EXCEPT ![s][Head(toAgent[s]).id] = "dialing"]
          BY <1>5, <3>2
             DEF ClientReads, HandleReady, HandleOpen, HandleServerClose, HandleData, Reads, NextIs
        <4>2. PICK i \in StreamId : i = Head(toAgent[s]).id
          BY <4>1, TakenFromAgent, FrameFields DEF TypeInv, TypeOK
        <4>3. toAgent[s] \in Seq(ServerFrame)
          BY DEF TypeInv, TypeOK, WireTypeOK
        <4>4. Head(toAgent[s]) = toAgent[s][1] /\ 1 \in DOMAIN toAgent[s]
          BY <4>1, <4>3
        <4>5. gor[s][i] = "none"
          BY <4>1, <4>2, <4>4 DEF OpenInv, NoFrameOf
        <4>6. gor' = [gor EXCEPT ![s][i] = "dialing"]
          BY <4>1, <4>2
        <4> QED
          BY <1>1, <4>5, <4>6
      <3> QED
        BY <3>1, <3>2
    <2>3. \/ toServer' = toServer
          \/ \E f \in AgentFrame : f.t # "data" /\ toServer' = Sent(toServer, s, f)
      <3>1. ASSUME HandleOpen(s) \/ HandleData(s) PROVE Head(toAgent[s]).id \in StreamId
        <4>1. toAgent[s] # <<>> /\ Head(toAgent[s]).t \in {"open", "data"}
          BY <3>1 DEF HandleOpen, HandleData, Reads, NextIs
        <4> QED
          BY <4>1, TakenFromAgent, FrameFields DEF TypeInv, TypeOK
      <3>2. CASE HandleReady(s) \/ HandleServerClose(s)
        BY <3>2 DEF HandleReady, HandleServerClose
      <3>3. CASE HandleOpen(s)
        BY <1>2, <3>1, <3>3 DEF HandleOpen
      <3>4. CASE HandleData(s)
        BY <1>2, <3>1, <3>4 DEF HandleData, DropAndNotify
      <3> QED
        BY <1>5, <3>2, <3>3, <3>4 DEF ClientReads
    <2> QED
      BY <2>1, <2>2, <2>3, QuietClient
  <1>6. ASSUME NEW i \in StreamId, StreamGoroutine(s, i) PROVE DataInv'
    <2>1. CASE PumpReads(s, i) \/ PumpSends(s, i)
      BY <2>1, PumpKeepsBytes
    <2>2. CASE \/ DialFails(s, i) \/ DialSucceeds(s, i) \/ SendOpened(s, i)
               \/ DatabaseCloses(s, i) \/ PumpStops(s, i)
      <3>1. UNCHANGED <<wire, dbSent>>
        BY <2>2 DEF DialFails, DialSucceeds, SendOpened, DatabaseCloses, PumpStops
      <3>2. /\ gor[s][i] \notin {"none", "sending"}
            /\ \E g \in {"registered", "pumping", "done"} : gor' = [gor EXCEPT ![s][i] = g]
        BY <2>2 DEF DialFails, DialSucceeds, SendOpened, DatabaseCloses, PumpStops
      <3>3. \A r \in Session : \A j \in StreamId :
                /\ gor'[r][j] = "sending" <=> gor[r][j] = "sending"
                /\ gor'[r][j] = "none" => gor[r][j] = "none"
        BY <1>1, <3>2
      <3>4. \/ toServer' = toServer
            \/ \E f \in AgentFrame : f.t # "data" /\ toServer' = Sent(toServer, s, f)
        BY <1>2, <2>2 DEF DialFails, DialSucceeds, SendOpened, DatabaseCloses, PumpStops,
           DropAndNotify
      <3> QED
        BY <3>1, <3>3, <3>4, QuietClient
    <2> QED
      BY <1>6, <2>1, <2>2 DEF StreamGoroutine
  <1> QED
    BY <1>3, <1>4, <1>5, <1>6 DEF ClientStep

BytesInv == TypeInv /\ SlotInv /\ OpenInv /\ DataInv

LEMMA InitBytes == Init => BytesInv
  <1> SUFFICES ASSUME Init PROVE OpenInv /\ DataInv
    BY InitTypeInv, InitSlots DEF BytesInv
  <1>1. OpenInv
    BY DEF Init, WireInit, ClientInit, OpenInv, OpenOnce, NoFrameOf
  <1>2. \A s \in Session : \A i \in StreamId : InboxOK(s, i) /\ WireOK(s, i)
    <2> SUFFICES ASSUME NEW s \in Session, NEW i \in StreamId PROVE InboxOK(s, i) /\ WireOK(s, i)
      OBVIOUS
    <2>1. /\ got[s][i] = <<>> /\ inbox[s][i] = <<>> /\ dbSent[s][i] = 0 /\ slots[s] = {}
      BY DEF Init, ServerInit, ClientInit
    <2>2. NextTaken(s, i) = 0 + 0 + 1
      BY <2>1 DEF NextTaken
    <2> QED
      BY <2>1, <2>2 DEF InboxOK, WireOK
  <1> QED
    BY <1>1, <1>2 DEF DataInv

LEMMA BytesStep == BytesInv /\ [Next]_vars => BytesInv'
  <1> SUFFICES ASSUME BytesInv, [Next]_vars PROVE DataInv'
    BY TypeStep, SlotStep, OpenStep DEF BytesInv
  <1> USE DEF BytesInv
  <1>1. CASE ServerNext /\ UNCHANGED clientVars
    <2>1. PICK s \in Session : ServerStep(s)
      BY <1>1 DEF ServerNext, ServerStep, SessionTask, BridgeTask
    <2> QED
      BY <1>1, <2>1, ServerKeepsBytes
  <1>2. CASE ClientNext /\ UNCHANGED serverVars
    <2>1. PICK s \in Session : ClientStep(s)
      BY <1>2 DEF ClientNext, ClientStep
    <2> QED
      BY <1>2, <2>1, ClientKeepsBytes
  <1>3. CASE UNCHANGED vars
    BY <1>3, QuietServer DEF vars, wireVars, serverVars
  <1> QED
    BY <1>1, <1>2, <1>3 DEF Next

----------------------------------------------------------------------------
(* The refinement.  What a step changes of the abstract variables.         *)
Connections == Session \X StreamId

LEMMA PhaseValues ==
    /\ PhaseOf("none") = "idle"
    /\ \A b \in {"asked", "opening", "acked", "refused", "late"} : PhaseOf(b) = "asked"
    /\ \A b \in {"open", "halfclosed"} : PhaseOf(b) = "connected"
    /\ \A b \in {"ended", "done"} : PhaseOf(b) = "ended"
  BY DEF PhaseOf

LEMMA OneConnection ==
    ASSUME NEW s \in Session, NEW i \in StreamId
    PROVE  <<s, i>> \in Connections /\ <<s, i>>[1] = s /\ <<s, i>>[2] = i
  BY DEF Connections

LEMMA OtherConnection ==
    ASSUME NEW s \in Session, NEW i \in StreamId, NEW c \in Connections, c # <<s, i>>
    PROVE  c[1] \in Session /\ c[2] \in StreamId /\ (c[1] # s \/ c[2] # i)
  BY DEF Connections

LEMMA NothingSeen ==
    ASSUME \A s \in Session : \A i \in StreamId :
              /\ PhaseOf(bridge'[s][i]) = PhaseOf(bridge[s][i])
              /\ dbSent'[s][i] = dbSent[s][i] /\ got'[s][i] = got[s][i]
    PROVE  UNCHANGED Streams!vars
  <1>1. \A c \in Connections : c[1] \in Session /\ c[2] \in StreamId
    BY DEF Connections
  <1> QED
    BY <1>1 DEF Streams!vars, Connections

(* Changing one connection of one abstract variable.                       *)
LEMMA OneEntry ==
    ASSUME NEW F, NEW G, NEW S, NEW x \in S, F = [c \in S |-> F[c]], G = [c \in S |-> G[c]],
           \A c \in S : c # x => G[c] = F[c]
    PROVE  G = [F EXCEPT ![x] = G[x]]
  OBVIOUS

LEMMA OnePhaseMoves ==
    ASSUME NEW s \in Session, NEW i \in StreamId, UNCHANGED <<dbSent, got>>,
           \A r \in Session : \A j \in StreamId :
              r # s \/ j # i => bridge'[r][j] = bridge[r][j]
    PROVE  Streams!Moves(<<s, i>>, PhaseOf(bridge[s][i]), PhaseOf(bridge'[s][i]))
  <1> DEFINE x == <<s, i>>
             F == [c \in Connections |-> PhaseOf(bridge[c[1]][c[2]])]
             G == [c \in Connections |-> PhaseOf(bridge'[c[1]][c[2]])]
  <1>1. /\ x \in Connections /\ F = [c \in Connections |-> F[c]] /\ G = [c \in Connections |-> G[c]]
        /\ F[x] = PhaseOf(bridge[s][i]) /\ G[x] = PhaseOf(bridge'[s][i])
    BY OneConnection
  <1>2. \A c \in Connections : c # x => G[c] = F[c]
    <2> SUFFICES ASSUME NEW c \in Connections, c # x PROVE G[c] = F[c]
      OBVIOUS
    <2>1. c[1] \in Session /\ c[2] \in StreamId /\ (c[1] # s \/ c[2] # i)
      BY OtherConnection
    <2>2. bridge'[c[1]][c[2]] = bridge[c[1]][c[2]]
      BY <2>1
    <2>3. F[c] = PhaseOf(bridge[c[1]][c[2]]) /\ G[c] = PhaseOf(bridge'[c[1]][c[2]])
      OBVIOUS
    <2> QED
      BY <2>2, <2>3
  <1>3. G = [F EXCEPT ![x] = G[x]]
    <2> HIDE DEF F, G, x
    <2> QED
      BY <1>1, <1>2, OneEntry
  <1>4. G = [F EXCEPT ![x] = PhaseOf(bridge'[s][i])] /\ F[x] = PhaseOf(bridge[s][i])
    BY <1>1, <1>3
  <1> QED
    BY <1>4 DEF Streams!Moves, Connections

(* The database's next chunk, and the driver's.                            *)
LEMMA ChunkIsSent ==
    ASSUME BytesInv, NEW s \in Session, NEW i \in StreamId, PumpReads(s, i), UNCHANGED serverVars
    PROVE  Streams!DatabaseSends(<<s, i>>)
  <1> DEFINE x == <<s, i>>
             F == [c \in Connections |-> dbSent[c[1]][c[2]]]
             G == [c \in Connections |-> dbSent'[c[1]][c[2]]]
  <1>1. /\ dbSent \in [Session -> [StreamId -> 0..MaxChunks]]
        /\ dbSent' = [dbSent EXCEPT ![s][i] = @ + 1]
        /\ dbSent[s][i] < MaxChunks /\ gor[s][i] = "pumping"
        /\ bridge \in [Session -> [StreamId -> BridgeState]]
        /\ bridge' = bridge /\ got' = got
    BY DEF BytesInv, TypeInv, TypeOK, ClientTypeOK, ServerTypeOK, PumpReads, serverVars
  <1>2. /\ \A r \in Session : \A j \in StreamId :
              r # s \/ j # i => dbSent'[r][j] = dbSent[r][j]
        /\ dbSent'[s][i] = dbSent[s][i] + 1
    BY <1>1
  <1>3. F[x] = dbSent[s][i] /\ G = [F EXCEPT ![x] = dbSent'[s][i]]
    <2>1. /\ x \in Connections /\ F = [c \in Connections |-> F[c]] /\ G = [c \in Connections |-> G[c]]
          /\ F[x] = dbSent[s][i] /\ G[x] = dbSent'[s][i]
      BY OneConnection
    <2>2. \A c \in Connections : c # x => G[c] = F[c]
      <3> SUFFICES ASSUME NEW c \in Connections, c # x PROVE G[c] = F[c]
        OBVIOUS
      <3>1. c[1] \in Session /\ c[2] \in StreamId /\ (c[1] # s \/ c[2] # i)
        BY OtherConnection
      <3> QED
        BY <1>2, <3>1
    <2>3. G = [F EXCEPT ![x] = G[x]]
      <3> HIDE DEF F, G, x
      <3> QED
        BY <2>1, <2>2, OneEntry
    <2> QED
      BY <2>1, <2>3
  <1>4. PhaseOf(bridge[s][i]) # "idle"
    <2>1. bridge[s][i] \in BridgeState \ {"none"}
      BY <1>1 DEF BytesInv, SlotInv, StreamOK, UnaskedIsUnknown
    <2> QED
      BY <2>1, PhaseValues DEF BridgeState
  <1>5. [c \in Connections |-> PhaseOf(bridge[c[1]][c[2]])][x] = PhaseOf(bridge[s][i])
    BY OneConnection
  <1>6. /\ [c \in Connections |-> PhaseOf(bridge[c[1]][c[2]])][x] # "idle"
        /\ F[x] < MaxChunks /\ G = [F EXCEPT ![x] = F[x] + 1]
    BY <1>1, <1>2, <1>3, <1>4, <1>5
  <1> QED
    BY <1>1, <1>6 DEF Streams!DatabaseSends, Connections

LEMMA ChunkIsDelivered ==
    ASSUME BytesInv, NEW s \in Session, NEW i \in StreamId,
           bridge[s][i] \in {"open", "halfclosed"}, inbox[s][i] # <<>>,
           got' = [got EXCEPT ![s][i] = Append(@, Head(inbox[s][i]))],
           UNCHANGED <<bridge, dbSent>>
    PROVE  Streams!Deliver(<<s, i>>)
  <1> DEFINE x == <<s, i>>
             F == [c \in Connections |-> got[c[1]][c[2]]]
             G == [c \in Connections |-> got'[c[1]][c[2]]]
             a == Len(got[s][i])
             b == Len(inbox[s][i])
  <1>1. /\ got \in [Session -> [StreamId -> Seq(Chunk)]]
        /\ inbox[s][i] \in Seq(Chunk) /\ got[s][i] \in Seq(Chunk) /\ dbSent[s][i] \in Nat
    BY NumberTypes DEF BytesInv, TypeInv, TypeOK, ServerTypeOK
  <1>2. InboxOK(s, i)
    BY DEF BytesInv, DataInv
  <1>3. a \in Nat /\ b \in Nat \ {0} /\ Head(inbox[s][i]) = inbox[s][i][1]
    BY <1>1, TakeFacts
  <1>4. Head(inbox[s][i]) = a + 1
    <2>1. 1 \in 1..b
      BY <1>3
    <2> QED
      BY <1>2, <1>3, <2>1 DEF InboxOK
  <1>5. a < dbSent[s][i]
    <2>1. a + b + 1 <= dbSent[s][i] + 1
      BY <1>2 DEF InboxOK, NextTaken
    <2>2. a \in Nat /\ b \in Nat \ {0} /\ dbSent[s][i] \in Nat
      BY <1>1, <1>3
    <2> HIDE DEF a, b
    <2> QED
      BY <2>1, <2>2
  <1>6. /\ \A r \in Session : \A j \in StreamId : r # s \/ j # i => got'[r][j] = got[r][j]
        /\ got'[s][i] = Append(got[s][i], a + 1)
    BY <1>1, <1>4
  <1>7. F[x] = got[s][i] /\ G = [F EXCEPT ![x] = got'[s][i]]
    <2>1. /\ x \in Connections /\ F = [c \in Connections |-> F[c]] /\ G = [c \in Connections |-> G[c]]
          /\ F[x] = got[s][i] /\ G[x] = got'[s][i]
      BY OneConnection
    <2>2. \A c \in Connections : c # x => G[c] = F[c]
      <3> SUFFICES ASSUME NEW c \in Connections, c # x PROVE G[c] = F[c]
        OBVIOUS
      <3>1. c[1] \in Session /\ c[2] \in StreamId /\ (c[1] # s \/ c[2] # i)
        BY OtherConnection
      <3> QED
        BY <1>6, <3>1
    <2>3. G = [F EXCEPT ![x] = G[x]]
      <3> HIDE DEF F, G, x
      <3> QED
        BY <2>1, <2>2, OneEntry
    <2> QED
      BY <2>1, <2>3
  <1>8. /\ [c \in Connections |-> PhaseOf(bridge[c[1]][c[2]])][x] = "connected"
        /\ [c \in Connections |-> dbSent[c[1]][c[2]]][x] = dbSent[s][i]
    BY OneConnection, PhaseValues
  <1>9. G = [F EXCEPT ![x] = Append(F[x], Len(F[x]) + 1)] /\ Len(F[x]) = a
    BY <1>6, <1>7
  <1>10. Len(F[x]) < [c \in Connections |-> dbSent[c[1]][c[2]]][x]
    BY <1>5, <1>8, <1>9
  <1> QED
    BY <1>8, <1>9, <1>10 DEF Streams!Deliver, Connections

(* What a bridge's move is to its driver.                                  *)
LEMMA BridgeMoves ==
    ASSUME NEW s \in Session, NEW i \in StreamId, UNCHANGED <<dbSent, got>>,
           \A r \in Session : \A j \in StreamId :
              r # s \/ j # i => bridge'[r][j] = bridge[r][j],
           \/ PhaseOf(bridge'[s][i]) = PhaseOf(bridge[s][i])
           \/ PhaseOf(bridge[s][i]) = "idle" /\ PhaseOf(bridge'[s][i]) = "asked"
           \/ PhaseOf(bridge[s][i]) = "asked" /\ PhaseOf(bridge'[s][i]) \in {"connected", "ended"}
           \/ PhaseOf(bridge[s][i]) = "connected" /\ PhaseOf(bridge'[s][i]) = "ended"
    PROVE  [Streams!Next]_(Streams!vars)
  <1> DEFINE p == PhaseOf(bridge[s][i])
             q == PhaseOf(bridge'[s][i])
  <1>1. Streams!Moves(<<s, i>>, p, q)
    BY OnePhaseMoves
  <1>2. <<s, i>> \in Session \X StreamId
    OBVIOUS
  <1>3. CASE q = p
    <2>1. \A r \in Session : \A j \in StreamId : PhaseOf(bridge'[r][j]) = PhaseOf(bridge[r][j])
      BY <1>3
    <2> QED
      BY <2>1, NothingSeen
  <1>4. CASE p = "idle" /\ q = "asked"
    BY <1>1, <1>2, <1>4 DEF Streams!Next, Streams!Ask
  <1>5. CASE p = "asked" /\ q = "connected"
    BY <1>1, <1>2, <1>5 DEF Streams!Next, Streams!Accepted
  <1>6. CASE p = "asked" /\ q = "ended"
    BY <1>1, <1>2, <1>6 DEF Streams!Next, Streams!Refused
  <1>7. CASE p = "connected" /\ q = "ended"
    BY <1>1, <1>2, <1>7 DEF Streams!Next, Streams!Finish
  <1> QED
    BY <1>3, <1>4, <1>5, <1>6, <1>7

(* The bridge task: asked, then connected, then over; it alone delivers.   *)
LEMMA BridgeTaskIsStreams ==
    ASSUME BytesInv, UNCHANGED clientVars, NEW s \in Session, NEW i \in StreamId, BridgeTask(s, i)
    PROVE  [Streams!Next]_(Streams!vars)
  <1>1. /\ bridge \in [Session -> [StreamId -> BridgeState]] /\ dbSent' = dbSent
        /\ UNCHANGED dbSent
    BY DEF BytesInv, TypeInv, TypeOK, ServerTypeOK, clientVars
  <1>2. ASSUME got' = got, NEW b, bridge' = [bridge EXCEPT ![s][i] = b] \/ bridge' = bridge,
               bridge' # bridge =>
                  \/ bridge[s][i] = "asked" /\ b \in {"opening", "refused", "done"}
                  \/ bridge[s][i] = "opening" /\ b = "late"
                  \/ bridge[s][i] = "late" /\ b = "done"
                  \/ bridge[s][i] = "acked" /\ b = "open"
                  \/ bridge[s][i] = "refused" /\ b = "done"
                  \/ bridge[s][i] = "open" /\ b \in {"halfclosed", "ended", "done"}
                  \/ bridge[s][i] = "halfclosed" /\ b = "done"
                  \/ bridge[s][i] = "ended" /\ b = "done"
        PROVE  [Streams!Next]_(Streams!vars)
    <2>1. CASE bridge' = bridge
      BY <1>1, <1>2, <2>1, NothingSeen
    <2>2. CASE bridge' # bridge
      <3>1. /\ bridge'[s][i] = b
            /\ \A r \in Session : \A j \in StreamId :
                  r # s \/ j # i => bridge'[r][j] = bridge[r][j]
        BY <1>1, <1>2, <2>2
      <3>2. \/ PhaseOf(b) = PhaseOf(bridge[s][i])
            \/ PhaseOf(bridge[s][i]) = "asked" /\ PhaseOf(b) \in {"connected", "ended"}
            \/ PhaseOf(bridge[s][i]) = "connected" /\ PhaseOf(b) = "ended"
        BY <1>2, <2>2, PhaseValues
      <3> QED
        BY <1>1, <1>2, <3>1, <3>2, BridgeMoves
    <2> QED
      BY <2>1, <2>2
  <1>3. CASE SendOpen(s, i)
    BY <1>2, <1>3 DEF SendOpen, Over
  <1>4. CASE OpenTimesOut(s, i)
    BY <1>2, <1>4 DEF OpenTimesOut
  <1>5. CASE GiveUp(s, i)
    BY <1>2, <1>5 DEF GiveUp, Over
  <1>6. CASE Resume(s, i)
    BY <1>2, <1>6 DEF Resume, Over
  <1>7. CASE DriverEof(s, i)
    BY <1>2, <1>7 DEF DriverEof, Over
  <1>8. CASE StreamEof(s, i)
    BY <1>2, <1>8 DEF StreamEof, Over
  <1>9. CASE DriverCloses(s, i)
    BY <1>2, <1>9 DEF DriverCloses
  <1>10. CASE DriverWrites(s, i)
    BY <1>2, <1>10 DEF DriverWrites, CopiesFromDriver, Over
  <1>11. CASE CopyChunk(s, i)
    <2>1. CASE got' = got
      <3>1. bridge' = bridge \/ bridge' = [bridge EXCEPT ![s][i] = "done"]
        BY <1>11 DEF CopyChunk, Over
      <3> QED
        BY <1>2, <1>11, <2>1, <3>1 DEF CopyChunk
    <2>2. CASE got' # got
      <3>1. /\ got' = [got EXCEPT ![s][i] = Append(@, Head(inbox[s][i]))]
            /\ bridge' = bridge /\ inbox[s][i] # <<>> /\ bridge[s][i] \in {"open", "halfclosed"}
        BY <1>11, <2>2 DEF CopyChunk
      <3>2. Streams!Deliver(<<s, i>>)
        BY <1>1, <3>1, ChunkIsDelivered
      <3>3. <<s, i>> \in Session \X StreamId
        OBVIOUS
      <3> QED
        BY <3>2, <3>3 DEF Streams!Next
    <2> QED
      BY <2>1, <2>2
  <1> QED
    BY <1>3, <1>4, <1>5, <1>6, <1>7, <1>8, <1>9, <1>10, <1>11 DEF BridgeTask, Opening, Copying

(* Each step of the tunnel is a step of ByteStreams, or a stutter.         *)
LEMMA StepIsStreams ==
    ASSUME BytesInv, [Next]_vars
    PROVE  [Streams!Next]_(Streams!vars)
  <1>1. bridge \in [Session -> [StreamId -> BridgeState]]
    BY DEF BytesInv, TypeInv, TypeOK, ServerTypeOK
  <1>2. ASSUME NEW s \in Session, ServerStep(s), UNCHANGED clientVars
        PROVE  [Streams!Next]_(Streams!vars)
    <2>1. UNCHANGED dbSent
      BY <1>2 DEF clientVars
    <2>2. CASE SessionTask(s) \/ Hearing(s)
      <3>1. got' = got
        BY <2>2 DEF SessionTask, Hearing, Accept, AuthOk, AuthRejects, FinishRegister, SocketCloses,
           Evict, OnHello, OnOpened, OnOpenErr, OnClose, OnData, streamVars
      <3>2. \A r \in Session : \A j \in StreamId :
               \/ bridge'[r][j] = bridge[r][j]
               \/ bridge[r][j] = "opening" /\ bridge'[r][j] \in {"acked", "refused"}
        <4>1. CASE bridge' = bridge
          BY <4>1
        <4>2. ASSUME NEW S, TornDown(S)
              PROVE  \A r \in Session : \A j \in StreamId :
                        \/ bridge'[r][j] = bridge[r][j]
                        \/ bridge[r][j] = "opening" /\ bridge'[r][j] \in {"acked", "refused"}
          BY <4>2 DEF TornDown
        <4>3. ASSUME NEW j, NEW b \in {"acked", "refused"},
                     bridge' = [bridge EXCEPT ![s][j] = IF @ = "opening" THEN b ELSE @]
              PROVE  \A r \in Session : \A k \in StreamId :
                        \/ bridge'[r][k] = bridge[r][k]
                        \/ bridge[r][k] = "opening" /\ bridge'[r][k] \in {"acked", "refused"}
          BY <1>1, <4>3
        <4>4. CASE FinishRegister(s) \/ Evict(s)
          BY <4>2, <4>4 DEF FinishRegister, Evict
        <4>5. CASE OnOpened(s)
          BY <4>1, <4>3, <4>5 DEF OnOpened
        <4>6. CASE OnOpenErr(s)
          BY <4>1, <4>3, <4>6 DEF OnOpenErr
        <4> QED
          BY <2>2, <4>1, <4>4, <4>5, <4>6 DEF SessionTask, Hearing, Accept, AuthOk, AuthRejects,
             SocketCloses, OnHello, OnClose, OnData, streamVars
      <3>3. \A r \in Session : \A j \in StreamId : PhaseOf(bridge'[r][j]) = PhaseOf(bridge[r][j])
        BY <3>2, PhaseValues
      <3> QED
        BY <2>1, <3>1, <3>3, NothingSeen
    <2>3. CASE OpenStream(s)
      <3>1. PICK n \in StreamId : n = seq[s] + 1
        <4>1. seq[s] \in 0..MaxOpens /\ seq[s] < MaxOpens /\ MaxOpens \in Nat
          BY <2>3, WireAssumption DEF OpenStream, BytesInv, TypeInv, TypeOK, ServerTypeOK
        <4>2. seq[s] + 1 \in 1..MaxOpens
          BY <4>1
        <4> QED
          BY <4>2 DEF StreamId
      <3>2. bridge[s][n] = "none"
        <4>1. seq[s] \in Nat
          BY WireAssumption DEF BytesInv, TypeInv, TypeOK, ServerTypeOK
        <4>2. n > seq[s]
          BY <3>1, <4>1
        <4> QED
          BY <4>2 DEF BytesInv, SlotInv, StreamOK, TablesOK
      <3>3. bridge' = [bridge EXCEPT ![s][n] = "asked"] /\ got' = got
        BY <2>3, <3>1 DEF OpenStream, NextId
      <3>4. /\ bridge'[s][n] = "asked"
            /\ \A r \in Session : \A j \in StreamId :
                  r # s \/ j # n => bridge'[r][j] = bridge[r][j]
        BY <1>1, <3>3
      <3>5. PhaseOf(bridge[s][n]) = "idle" /\ PhaseOf(bridge'[s][n]) = "asked"
        BY <3>2, <3>4, PhaseValues
      <3> QED
        BY <2>1, <3>3, <3>4, <3>5, BridgeMoves
    <2> QED
      BY <1>2, <2>2, <2>3, BridgeTaskIsStreams DEF ServerStep
  <1>3. ASSUME NEW s \in Session, ClientStep(s), UNCHANGED serverVars
        PROVE  [Streams!Next]_(Streams!vars)
    <2>1. CASE dbSent' = dbSent
      BY <1>3, <2>1, NothingSeen DEF serverVars
    <2>2. CASE dbSent' # dbSent
      <3>1. PICK i \in StreamId : PumpReads(s, i)
        BY <1>3, <2>2 DEF ClientStep, ClientReads, StreamGoroutine, ClientDial, ClientEnds,
           HandleReady, HandleOpen, HandleServerClose, HandleData, DialFails, DialSucceeds,
           SendOpened, PumpSends, DatabaseCloses, PumpStops
      <3>2. Streams!DatabaseSends(<<s, i>>)
        BY <1>3, <3>1, ChunkIsSent
      <3>3. <<s, i>> \in Session \X StreamId
        OBVIOUS
      <3> QED
        BY <3>2, <3>3 DEF Streams!Next
    <2> QED
      BY <2>1, <2>2
  <1>4. CASE ServerNext /\ UNCHANGED clientVars
    <2>1. PICK s \in Session : ServerStep(s)
      BY <1>4 DEF ServerNext, ServerStep, SessionTask, BridgeTask
    <2> QED
      BY <1>2, <1>4, <2>1
  <1>5. CASE ClientNext /\ UNCHANGED serverVars
    <2>1. PICK s \in Session : ClientStep(s)
      BY <1>5 DEF ClientNext, ClientStep
    <2> QED
      BY <1>3, <1>5, <2>1
  <1>6. CASE UNCHANGED vars
    BY <1>6, NothingSeen DEF vars, serverVars, clientVars
  <1> QED
    BY <1>4, <1>5, <1>6 DEF Next

(* However sessions are replaced, cut and torn down, and whatever races    *)
(* between answers, time-outs, closes, hang-ups and chunks in flight: each *)
(* connection a driver makes through the v2 tunnel is answered once, what  *)
(* it is handed is what the database sent, in order and without a gap, and *)
(* nothing is handed to it after the connection's end.                     *)
THEOREM BytesArriveInOrder == Spec => ImplementsByteStreams
  <1>1. Init => Streams!Init
    BY PhaseValues DEF Init, ServerInit, ClientInit, Streams!Init
  <1>2. BytesInv /\ [Next]_vars => [Streams!Next]_(Streams!vars)
    BY StepIsStreams
  <1> QED
    BY <1>1, <1>2, InitBytes, BytesStep, PTL DEF Spec, ImplementsByteStreams, Streams!Spec

----------------------------------------------------------------------------
(* The cap of both ends.  Each tests it in the very step that adds.        *)
SlotsCapped == \A s \in Session : Cardinality(slots[s]) <= MaxStreams

LEMMA OnlyOpeningTakes ==
    ASSUME TypeOK, NEW s \in Session, ServerStep(s), ~OpenStream(s), NEW r \in Session
    PROVE  slots'[r] \subseteq slots[r]
  <1>1. slots \in [Session -> SUBSET StreamId]
    BY DEF TypeOK, ServerTypeOK
  <1>2. ASSUME NEW S, TornDown(S) PROVE slots'[r] \subseteq slots[r]
    BY <1>2 DEF TornDown
  <1>3. ASSUME NEW i, slots' = slots \/ slots' = [slots EXCEPT ![s] = slots[s] \ {i}]
        PROVE  slots'[r] \subseteq slots[r]
    BY <1>1, <1>3
  <1>4. CASE SessionTask(s)
    BY <1>2, <1>4 DEF SessionTask, Accept, AuthOk, AuthRejects, FinishRegister, SocketCloses, Evict,
       streamVars
  <1>5. CASE Hearing(s)
    <2>1. \E i : slots' = slots \/ slots' = [slots EXCEPT ![s] = slots[s] \ {i}]
      BY <1>5 DEF Hearing, OnHello, OnOpened, OnOpenErr, OnClose, OnData, streamVars
    <2> QED
      BY <1>3, <2>1
  <1>6. ASSUME NEW i \in StreamId, BridgeTask(s, i) PROVE slots'[r] \subseteq slots[r]
    <2>1. slots' = slots \/ slots' = [slots EXCEPT ![s] = slots[s] \ {i}]
      BY <1>6 DEF BridgeTask, Opening, Copying, SendOpen, OpenTimesOut, GiveUp, Resume, CopyChunk,
         DriverEof, StreamEof, DriverCloses, DriverWrites, CloseNow, Forgotten
    <2> QED
      BY <1>3, <2>1
  <1> QED
    BY <1>4, <1>5, <1>6 DEF ServerStep

LEMMA SlotsCappedStep ==
    ASSUME TypeOK, TypeOK', SlotsCapped, NEW s \in Session, ServerStep(s)
    PROVE  SlotsCapped'
  <1> SUFFICES ASSUME NEW r \in Session PROVE Cardinality(slots'[r]) <= MaxStreams
    BY DEF SlotsCapped
  <1>0. /\ slots \in [Session -> SUBSET StreamId] /\ slots' \in [Session -> SUBSET StreamId]
    BY DEF TypeOK, ServerTypeOK
  <1>1. slots[r] \subseteq StreamId /\ slots'[r] \subseteq StreamId /\ 1 \in StreamId
    BY <1>0, WireAssumption DEF StreamId
  <1>2. CASE ~OpenStream(s)
    <2>1. slots'[r] \subseteq slots[r]
      BY <1>2, OnlyOpeningTakes
    <2> QED
      BY <1>1, <2>1, CapIsKept DEF SlotsCapped
  <1>3. CASE OpenStream(s)
    <2> DEFINE i == NextId(s)
    <2>1. i \in StreamId /\ slots' = [slots EXCEPT ![s] = @ \cup {i}]
      BY <1>3, WireAssumption DEF OpenStream, NextId, StreamId, TypeOK, ServerTypeOK
    <2> HIDE DEF i
    <2>2. CASE r = s
      <3>1. slots'[r] = slots[r] \cup {i} /\ Cardinality(slots[r]) < MaxStreams
        BY <1>0, <1>3, <2>1, <2>2 DEF OpenStream, HasRoom
      <3> QED
        BY <1>1, <2>1, <3>1, CapIsKept DEF SlotsCapped
    <2>3. CASE r # s
      BY <1>0, <2>1, <2>3 DEF SlotsCapped
    <2> QED
      BY <2>2, <2>3
  <1> QED
    BY <1>2, <1>3

(* open_stream and handleOpen: neither table ever holds more streams than  *)
(* its cap, although the slot is taken under one lock and given back       *)
(* under others, by the bridge, the session and the registry.              *)
THEOREM CapsHold == Spec => []SlotsBounded
  <1> DEFINE Caps == SlotsCapped /\ ConnsBounded
  <1>1. Init => Caps
    BY NoConns DEF Init, ServerInit, ClientInit, SlotsCapped, ConnsBounded
  <1>2. TypeInv /\ TypeInv' /\ Caps /\ [Next]_vars => Caps'
    <2> SUFFICES ASSUME TypeInv, TypeInv', Caps, [Next]_vars PROVE Caps'
      OBVIOUS
    <2>1. CASE ServerNext /\ UNCHANGED clientVars
      <3>1. PICK s \in Session : ServerStep(s)
        BY <2>1 DEF ServerNext, ServerStep, SessionTask, BridgeTask
      <3>2. ConnsBounded'
        BY <2>1 DEF clientVars, ConnsBounded
      <3> QED
        BY <3>1, <3>2, SlotsCappedStep DEF TypeInv
    <2>2. CASE ClientNext /\ UNCHANGED serverVars
      <3>1. PICK s \in Session : ClientStep(s)
        BY <2>2 DEF ClientNext, ClientStep
      <3>2. SlotsCapped'
        BY <2>2 DEF serverVars, SlotsCapped
      <3> QED
        BY <3>1, <3>2, ConnsBoundedStep DEF TypeInv, TypeOK
    <2>3. CASE UNCHANGED vars
      BY <2>3 DEF vars, serverVars, clientVars, SlotsCapped, ConnsBounded
    <2> QED
      BY <2>1, <2>2, <2>3 DEF Next
  <1>3. Caps => SlotsBounded
    BY DEF SlotsCapped, ConnsBounded, SlotsBounded
  <1>4. Init => TypeInv
    BY InitTypeInv
  <1>5. TypeInv /\ [Next]_vars => TypeInv'
    BY TypeStep
  <1> QED
    BY <1>1, <1>2, <1>3, <1>4, <1>5, PTL DEF Spec

----------------------------------------------------------------------------
(* From the driver to the database.  Before the agent has answered, no     *)
(* bridge is open, so nothing was written.                                 *)
Answered == {"acked", "open", "halfclosed", "ended"}

AskedOK(s, i) ==
    /\ AnswerOK(s, i)
    /\ ~Begun(s, i) => bridge[s][i] \notin Answered /\ written[s][i] = 0
WritingInv ==
    \A s \in Session : \A i \in StreamId :
        AskedOK(s, i) /\ WritingOK(s, i, written[s][i], StreamId)

LEMMA InitWriting == Init => WritingInv
  <1> SUFFICES ASSUME Init, NEW s \in Session, NEW i \in StreamId
               PROVE  AskedOK(s, i) /\ WritingOK(s, i, written[s][i], StreamId)
    BY DEF WritingInv
  <1>1. /\ written[s][i] = 0 /\ dbGot[s][i] = <<>> /\ i \notin conns[s] /\ bridge[s][i] = "none"
        /\ toServer[s] = <<>> /\ toAgent[s] = <<>>
    BY DEF Init, WireInit, ServerInit, ClientInit
  <1>2. Len(dbGot[s][i]) = 0
    BY <1>1
  <1> QED
    BY <1>1, <1>2 DEF WritingOK, AskedOK, AnswerOK, Answered, NoFrameOf

(* What a server step does to the frames and the bridge of one stream:     *)
(* unless its driver writes, no chunk is sent, and only an answer opens it.*)
ServerQuiet(r, j) ==
    /\ wire'[r] = "up" => wire[r] = "up"
    /\ written'[r][j] = written[r][j]
    /\ \/ toServer'[r] = toServer[r] \/ toServer'[r] = <<>>
       \/ toServer[r] # <<>> /\ toServer'[r] = Tail(toServer[r])
    /\ \/ toAgent'[r] = toAgent[r]
       \/ \E f \in ServerFrame : toAgent'[r] = Append(toAgent[r], f) /\ ~IsData(f, j)
    /\ bridge'[r][j] \in Answered =>
          \/ bridge[r][j] \in Answered
          \/ toServer[r] # <<>> /\ IsFrame(Head(toServer[r]), "opened", j)

LEMMA ServerStepsAreQuiet ==
    ASSUME TypeOK, NEW s \in Session, ServerStep(s), NEW r \in Session, NEW j \in StreamId
    PROVE  \/ ServerQuiet(r, j)
           \/ /\ r = s /\ bridge[s][j] \in Answered /\ UNCHANGED <<wire, toServer, bridge>>
              /\ written[s][j] < MaxChunks /\ written' = [written EXCEPT ![s][j] = @ + 1]
              /\ toAgent' = Sent(toAgent, s, Data(j, written[s][j] + 1))
  <1>1. /\ WireTypeOK /\ DOMAIN written = Session /\ (\A k \in Session : DOMAIN written[k] = StreamId)
        /\ DOMAIN bridge = Session /\ (\A k \in Session : DOMAIN bridge[k] = StreamId)
        /\ written[s] \in [StreamId -> 0..MaxChunks]
    BY DEF TypeOK, ServerTypeOK
  <1>2. ASSUME NEW S, TornDown(S) PROVE bridge'[r][j] \in {bridge[r][j], "refused"}
    BY <1>2 DEF TornDown
  <1>3. /\ toServer' = [toServer EXCEPT ![s] = <<>>] => toServer'[r] \in {toServer[r], <<>>}
        /\ WireDown(s) => (wire'[r] = "up" => wire[r] = "up")
    BY <1>1 DEF WireDown, WireTypeOK
  <1>4. ASSUME NEW f \in ServerFrame, f.t # "data", toAgent' = toAgent \/ toAgent' = Sent(toAgent, s, f)
        PROVE  \/ toAgent'[r] = toAgent[r]
               \/ toAgent'[r] = Append(toAgent[r], f) /\ ~IsData(f, j)
    <2>1. toAgent' = Sent(toAgent, s, f) =>
             toAgent'[r] = IF r = s /\ wire[s] = "up" THEN Append(toAgent[s], f) ELSE toAgent[r]
      BY <1>1, ChannelEnds
    <2> QED
      BY <1>4, <2>1 DEF IsData, IsFrame
  <1>5. CASE SessionTask(s)
    <2>1. written' = written
      BY <1>5 DEF SessionTask, Accept, AuthOk, AuthRejects, FinishRegister, SocketCloses, Evict, streamVars
    <2>2. /\ wire' = wire \/ WireDown(s)
          /\ toServer' = toServer \/ toServer' = [toServer EXCEPT ![s] = <<>>]
      BY <1>5 DEF SessionTask, Accept, AuthOk, AuthRejects, FinishRegister, SocketCloses, Evict, wireVars
    <2>3. bridge' = bridge \/ \E S : TornDown(S)
      BY <1>5 DEF SessionTask, Accept, AuthOk, AuthRejects, FinishRegister, SocketCloses, Evict, streamVars
    <2>4. toAgent' = toAgent \/ toAgent' = Sent(toAgent, s, Ready)
      BY <1>5 DEF SessionTask, Accept, AuthOk, AuthRejects, FinishRegister, SocketCloses, Evict, wireVars
    <2>5. Ready \in ServerFrame /\ Ready.t # "data"
      BY FramesAreTyped DEF Ready
    <2>6. bridge'[r][j] \in Answered => bridge[r][j] \in Answered
      BY <1>2, <2>3 DEF Answered
    <2> QED
      BY <1>3, <1>4, <2>1, <2>2, <2>4, <2>5, <2>6 DEF ServerQuiet
  <1>6. CASE Hearing(s)
    <2> DEFINE h == Head(toServer[s])
    <2>1. toServer[s] # <<>> /\ toServer' = Dropped(toServer, s) /\ UNCHANGED <<wire, toAgent, written>>
      BY <1>6 DEF Hearing, OnHello, OnOpened, OnOpenErr, OnClose, OnData, Hears, NextIs, streamVars
    <2>2. toServer'[r] = IF r = s THEN Tail(toServer[s]) ELSE toServer[r]
      BY <1>1, <2>1, ChannelEnds
    <2>3. \/ bridge' = bridge
          \/ h.t = "opened" /\ bridge' = [bridge EXCEPT ![s][h.id] = IF @ = "opening" THEN "acked" ELSE @]
          \/ bridge' = [bridge EXCEPT ![s][h.id] = IF @ = "opening" THEN "refused" ELSE @]
      BY <1>6 DEF Hearing, OnHello, OnOpened, OnOpenErr, OnClose, OnData, Hears, NextIs, streamVars
    <2>4. bridge'[r][j] \in Answered => bridge[r][j] \in Answered \/ (r = s /\ IsFrame(h, "opened", j))
      <3> HIDE DEF h
      <3> QED
        BY <1>1, <2>3 DEF IsFrame, Answered
    <2> QED
      BY <2>1, <2>2, <2>4 DEF ServerQuiet
  <1>7. CASE OpenStream(s)
    <2>1. UNCHANGED <<wire, toServer, toAgent, written>> /\ bridge' = [bridge EXCEPT ![s][NextId(s)] = "asked"]
      BY <1>7 DEF OpenStream, wireVars
    <2>2. bridge'[r][j] \in {bridge[r][j], "asked"}
      BY <1>1, <2>1
    <2> QED
      BY <2>1, <2>2 DEF ServerQuiet, Answered
  <1>8. ASSUME NEW i \in StreamId, BridgeTask(s, i),
               written' = written
        PROVE  ServerQuiet(r, j)
    <2>1. UNCHANGED <<wire, toServer>>
      BY <1>8 DEF BridgeTask, Opening, Copying, SendOpen, OpenTimesOut, GiveUp, Resume, CopyChunk,
         DriverEof, StreamEof, DriverCloses, DriverWrites, wireVars
    <2>2. toAgent' = toAgent \/ toAgent' = Sent(toAgent, s, Close(i)) \/ toAgent' = Sent(toAgent, s, Open(i))
      <3>1. CASE ~DriverWrites(s, i)
        BY <1>8, <3>1 DEF BridgeTask, Opening, Copying, SendOpen, OpenTimesOut, GiveUp, Resume, CopyChunk,
           DriverEof, StreamEof, DriverCloses, CloseNow, NoticeOf, wireVars
      <3>2. CASE DriverWrites(s, i)
        <4>1. ~(written' = [written EXCEPT ![s][i] = @ + 1])
          BY <1>1, <1>8
        <4> QED
          BY <3>2, <4>1 DEF DriverWrites, CloseNow, NoticeOf
      <3> QED
        BY <3>1, <3>2
    <2>3. /\ Close(i) \in ServerFrame /\ Close(i).t # "data"
          /\ Open(i) \in ServerFrame /\ Open(i).t # "data"
      BY FramesAreTyped DEF Close, Open
    <2>4. \/ bridge' = bridge
          \/ \E b : bridge' = [bridge EXCEPT ![s][i] = b] /\ (b \in Answered => bridge[s][i] \in Answered)
      <3>1. CASE Opening(s, i)
        BY <3>1 DEF Opening, SendOpen, OpenTimesOut, GiveUp, Resume, Over, Answered
      <3>2. CASE CopyChunk(s, i) \/ DriverWrites(s, i)
        <4>1. bridge' = bridge \/ bridge' = [bridge EXCEPT ![s][i] = "done"]
          BY <3>2 DEF CopyChunk, DriverWrites, Over
        <4> QED
          BY <4>1 DEF Answered
      <3>3. CASE DriverEof(s, i) \/ StreamEof(s, i)
        BY <3>3 DEF DriverEof, StreamEof, Over, Answered
      <3>4. CASE DriverCloses(s, i)
        BY <3>4 DEF DriverCloses
      <3> QED
        BY <1>8, <3>1, <3>2, <3>3, <3>4 DEF BridgeTask, Copying
    <2>5. bridge'[r][j] \in Answered => bridge[r][j] \in Answered
      BY <1>1, <2>4
    <2> HIDE DEF Close, Open
    <2> QED
      BY <1>4, <1>8, <2>1, <2>2, <2>3, <2>5 DEF ServerQuiet
  <1>9. ASSUME NEW i \in StreamId, BridgeTask(s, i), written' # written
        PROVE  /\ bridge[s][i] \in Answered /\ UNCHANGED <<wire, toServer, bridge>>
               /\ written[s][i] < MaxChunks /\ written' = [written EXCEPT ![s][i] = @ + 1]
               /\ toAgent' = Sent(toAgent, s, Data(i, written[s][i] + 1))
    BY <1>9 DEF BridgeTask, Opening, Copying, SendOpen, OpenTimesOut, GiveUp, Resume, CopyChunk,
       DriverEof, StreamEof, DriverCloses, DriverWrites, CopiesFromDriver, Answered
  <1>10. ASSUME NEW i \in StreamId, BridgeTask(s, i), written' # written, ~(r = s /\ j = i)
         PROVE  ServerQuiet(r, j)
    <2> DEFINE f == Data(i, written[s][i] + 1)
    <2>1. /\ UNCHANGED <<wire, toServer, bridge>> /\ written[s][i] < MaxChunks
          /\ written' = [written EXCEPT ![s][i] = @ + 1] /\ toAgent' = Sent(toAgent, s, f)
      BY <1>9, <1>10
    <2>2. written'[r][j] = written[r][j] /\ written[s][i] + 1 \in Chunk
      BY <1>1, <1>10, <2>1, WireAssumption DEF Chunk
    <2>3. f \in ServerFrame /\ f.id = i
      BY <2>2, FramesAreTyped DEF Data
    <2> HIDE DEF f
    <2>4. toAgent'[r] = toAgent[r] \/ (r = s /\ toAgent'[r] = Append(toAgent[r], f))
      BY <1>1, <2>1, ChannelEnds
    <2>5. r = s => ~IsData(f, j)
      BY <1>10, <2>3 DEF IsData, IsFrame
    <2> QED
      BY <2>1, <2>2, <2>3, <2>4, <2>5 DEF ServerQuiet
  <1> QED
    BY <1>5, <1>6, <1>7, <1>8, <1>9, <1>10 DEF ServerStep

LEMMA ServerKeepsAsked ==
    ASSUME TypeInv, WritingInv, UNCHANGED clientVars, NEW r \in Session, NEW j \in StreamId,
           ServerQuiet(r, j)
    PROVE  AskedOK(r, j)'
  <1> DEFINE q == toServer[r]
             p == toAgent[r]
  <1>1. /\ q \in Seq(AgentFrame) /\ p \in Seq(ServerFrame) /\ AskedOK(r, j)
        /\ UNCHANGED <<gor, conns, dbGot>> /\ (Begun(r, j)' <=> Begun(r, j))
    BY DEF TypeInv, TypeOK, WireTypeOK, WritingInv, clientVars, Begun
  <1>2. toServer'[r] = q \/ toServer'[r] = <<>> \/ (q # <<>> /\ toServer'[r] = Tail(q))
    BY DEF ServerQuiet
  <1>3. \/ toAgent'[r] = p
        \/ \E f \in ServerFrame : toAgent'[r] = Append(p, f) /\ ~IsFrame(f, "data", j)
    BY DEF ServerQuiet, IsData
  <1>4. bridge'[r][j] \in Answered =>
           bridge[r][j] \in Answered \/ (q # <<>> /\ IsFrame(Head(q), "opened", j))
    BY DEF ServerQuiet
  <1>5. written'[r][j] = written[r][j]
    BY DEF ServerQuiet
  <1>6. ~Begun(r, j) => /\ NoFrameOf(q, {"opened"}, j) /\ NoFrameOf(p, {"data"}, j)
                        /\ dbGot[r][j] = <<>> /\ bridge[r][j] \notin Answered /\ written[r][j] = 0
    BY <1>1 DEF AskedOK, AnswerOK
  <1>7. gor[r][j] \in {"none", "dialing"} => j \notin conns[r]
    BY <1>1 DEF AskedOK, AnswerOK
  <1> HIDE DEF q, p
  <1>8. NoFrameOf(q, {"opened"}, j) =>
           NoFrameOf(toServer'[r], {"opened"}, j) /\ ~(q # <<>> /\ IsFrame(Head(q), "opened", j))
    <2>1. NoFrameOf(<<>>, {"opened"}, j)
      BY DEF NoFrameOf
    <2>2. NoFrameOf(q, {"opened"}, j) /\ q # <<>> =>
             NoFrameOf(Tail(q), {"opened"}, j) /\ ~IsFrame(Head(q), "opened", j)
      BY <1>1, NoneRead DEF IsFrame
    <2> QED
      BY <1>2, <2>1, <2>2
  <1>9. NoFrameOf(p, {"data"}, j) => NoFrameOf(toAgent'[r], {"data"}, j)
    <2>1. ASSUME NEW f \in ServerFrame, ~IsFrame(f, "data", j), NoFrameOf(p, {"data"}, j)
          PROVE  NoFrameOf(Append(p, f), {"data"}, j)
      BY <1>1, <2>1, NoneSent DEF IsFrame
    <2> QED
      BY <1>3, <2>1
  <1>10. ~Begun(r, j) => /\ NoFrameOf(toServer'[r], {"opened"}, j) /\ NoFrameOf(toAgent'[r], {"data"}, j)
                         /\ dbGot'[r][j] = <<>> /\ bridge'[r][j] \notin Answered /\ written'[r][j] = 0
    BY <1>1, <1>4, <1>5, <1>6, <1>8, <1>9
  <1>11. AnswerOK(r, j)'
    BY <1>1, <1>7, <1>10 DEF AnswerOK
  <1> QED
    BY <1>1, <1>10, <1>11 DEF AskedOK

LEMMA ServerKeepsWriting ==
    ASSUME TypeInv, WritingInv, UNCHANGED clientVars, NEW s \in Session, ServerStep(s),
           NEW r \in Session, NEW j \in StreamId
    PROVE  AskedOK(r, j)' /\ WritingOK(r, j, written[r][j], StreamId)'
  <1>1. /\ TypeOK /\ WireTypeOK /\ ClientTypeOK /\ AskedOK(r, j)
        /\ WritingOK(r, j, written[r][j], StreamId)
    BY DEF TypeInv, TypeOK, WritingInv
  <1>2. written[r][j] \in Nat /\ (written[r][j] < MaxChunks => written[r][j] + 1 \in Chunk)
    <2>1. written[r][j] \in 0..MaxChunks
      BY <1>1 DEF TypeOK, ServerTypeOK
    <2> QED
      BY <2>1, WireAssumption DEF Chunk
  <1>3. PICK w \in Nat : w = written[r][j]
    BY <1>2
  <1>4. PICK held : held = StreamId
    OBVIOUS
  <1>5. WritingOK(r, j, w, held)
    BY <1>1, <1>3, <1>4
  <1>6. CASE ServerQuiet(r, j)
    <2>1. /\ wire'[r] = "up" => wire[r] = "up"
          /\ \/ toAgent'[r] = toAgent[r]
             \/ \E f \in ServerFrame : toAgent'[r] = Append(toAgent[r], f) /\ ~IsData(f, j)
          /\ written'[r][j] = w
      BY <1>3, <1>6 DEF ServerQuiet
    <2>2. WritingOK(r, j, w, held)'
      BY <1>1, <1>5, <2>1, WritingUndisturbed
    <2>3. WritingOK(r, j, written[r][j], StreamId)'
      BY <1>4, <2>1, <2>2 DEF WritingOK
    <2> QED
      BY <1>6, <2>3, ServerKeepsAsked
  <1>7. CASE /\ r = s /\ bridge[s][j] \in Answered /\ UNCHANGED <<wire, toServer, bridge>>
             /\ written[s][j] < MaxChunks /\ written' = [written EXCEPT ![s][j] = @ + 1]
             /\ toAgent' = Sent(toAgent, s, Data(j, written[s][j] + 1))
    <2> DEFINE f == Data(j, w + 1)
    <2>1. /\ f \in ServerFrame /\ IsData(f, j) /\ f.n = w + 1 /\ toAgent' = Sent(toAgent, s, f)
          /\ wire' = wire
      <3>1. w + 1 \in Chunk
        BY <1>2, <1>3, <1>7
      <3> QED
        BY <1>3, <1>7, <3>1, FramesAreTyped DEF Data, IsData, IsFrame
    <2>2. written'[r][j] = w + 1
      BY <1>1, <1>3, <1>7 DEF TypeOK, ServerTypeOK
    <2> HIDE DEF f
    <2>3. toAgent'[r] = IF j \in held /\ wire[r] = "up" THEN Append(toAgent[r], f) ELSE toAgent[r]
      BY <1>1, <1>4, <1>7, <2>1, ChannelEnds
    <2>4. WritingOK(r, j, w + 1, held)'
      BY <1>1, <1>5, <2>1, <2>3, WritingGoesOn
    <2>5. WritingOK(r, j, written[r][j], StreamId)'
      BY <1>4, <2>2, <2>4 DEF WritingOK
    <2>6. Begun(r, j)
      BY <1>1, <1>7 DEF AskedOK
    <2>7. Begun(r, j)' /\ (gor'[r][j] \in {"none", "dialing"} => j \notin conns'[r])
      BY <1>1, <2>6 DEF clientVars, Begun, AskedOK, AnswerOK
    <2> QED
      BY <2>5, <2>7 DEF AskedOK, AnswerOK
  <1> QED
    BY <1>1, <1>6, <1>7, ServerStepsAreQuiet

LEMMA WritingStep == TypeInv /\ SlotInv /\ OpenInv /\ WritingInv /\ [Next]_vars => WritingInv'
  <1> SUFFICES ASSUME TypeInv, SlotInv, OpenInv, WritingInv, [Next]_vars,
                      NEW r \in Session, NEW j \in StreamId
               PROVE  AskedOK(r, j)' /\ WritingOK(r, j, written[r][j], StreamId)'
    BY DEF WritingInv
  <1>1. /\ WireTypeOK /\ ClientTypeOK /\ ChunkInHand /\ AskedOK(r, j)
        /\ WritingOK(r, j, written[r][j], StreamId) /\ written[r][j] \in Nat
    <2>1. TypeOK /\ ChunkInHand /\ written[r][j] \in 0..MaxChunks
      BY DEF TypeInv, TypeOK, ServerTypeOK
    <2> QED
      BY <2>1 DEF TypeOK, WritingInv
  <1>2. CASE ServerNext /\ UNCHANGED clientVars
    <2>1. PICK s \in Session : ServerStep(s)
      BY <1>2 DEF ServerNext, ServerStep, SessionTask, BridgeTask
    <2> QED
      BY <1>2, <2>1, ServerKeepsWriting
  <1>3. CASE ClientNext /\ UNCHANGED serverVars
    <2>1. PICK s \in Session : ClientStep(s)
      BY <1>3 DEF ClientNext, ClientStep
    <2>2. UNCHANGED <<written, bridge>>
      BY <1>3 DEF serverVars
    <2>3. gor[r][j] # "none" => NoFrameOf(toAgent[r], {"open"}, j)
      BY DEF OpenInv
    <2>4. AnswerOK(r, j)' /\ (Begun(r, j) => Begun(r, j)')
      BY <1>1, <2>1, <2>3, AgentKeepsAnswer DEF AskedOK
    <2>5. AskedOK(r, j)'
      BY <1>1, <2>2, <2>4 DEF AskedOK
    <2>6. cl[r] = "new" => j \notin conns[r]
      BY <1>1 DEF SlotInv, StreamOK, NewClientIsIdle, AskedOK, AnswerOK
    <2>7. gor[r][j] = "dialing" =>
             NoFrameOf(toAgent[r], {"data"}, j) /\ dbGot[r][j] = <<>> /\ written[r][j] = 0
      BY <1>1 DEF AskedOK, AnswerOK, Begun
    <2>8. PICK w \in Nat : w = written[r][j]
      BY <1>1
    <2>9. PICK held : held = StreamId
      OBVIOUS
    <2>10. WritingOK(r, j, w, held)'
      BY <1>1, <2>1, <2>6, <2>7, <2>8, <2>9, AgentKeepsWriting
    <2>11. WritingOK(r, j, written[r][j], StreamId)'
      BY <2>2, <2>8, <2>9, <2>10 DEF WritingOK
    <2> QED
      BY <2>5, <2>11
  <1>4. CASE UNCHANGED vars
    <2>1. UNCHANGED <<wire, toServer, toAgent, bridge, written, gor, conns, dbGot>>
      BY <1>4 DEF vars, wireVars, serverVars, clientVars
    <2> QED
      BY <1>1, <2>1 DEF WritingOK, AskedOK, AnswerOK, Begun
  <1> QED
    BY <1>2, <1>3, <1>4 DEF Next

(* poll_write and handleBinary: whatever happens to a stream, the database *)
(* is given the first of the chunks its driver wrote, in order; for as     *)
(* long as the agent has the connection and the wire is up, the rest is on *)
(* its way, even after the server has ended the stream.                    *)
THEOREM DriverBytesArrive == Spec => []DriverBytesIntact
  <1>1. Init => BytesInv /\ WritingInv
    BY InitBytes, InitWriting
  <1>2. BytesInv /\ WritingInv /\ [Next]_vars => (BytesInv /\ WritingInv)'
    BY BytesStep, WritingStep DEF BytesInv
  <1>3. BytesInv /\ WritingInv => DriverBytesIntact
    <2> SUFFICES ASSUME BytesInv, WritingInv, NEW s \in Session, NEW i \in StreamId
                 PROVE  /\ Len(dbGot[s][i]) <= written[s][i]
                        /\ \A k \in DOMAIN dbGot[s][i] : dbGot[s][i][k] = k
                        /\ wire[s] = "up" /\ i \in conns[s] =>
                              ChunksInFlight(toAgent, s, i, Len(dbGot[s][i]) + 1, written[s][i])
      BY DEF DriverBytesIntact
    <2>1. WritingOK(s, i, written[s][i], StreamId) /\ dbGot[s][i] \in Seq(Chunk)
      BY DEF WritingInv, BytesInv, TypeInv, TypeOK, ClientTypeOK
    <2>2. DOMAIN dbGot[s][i] = 1..Len(dbGot[s][i])
      BY <2>1
    <2>3. ASSUME wire[s] = "up", i \in conns[s]
          PROVE  InOrder(toAgent[s], i, Len(dbGot[s][i]) + 1, written[s][i])
      BY <2>1, <2>3 DEF WritingOK
    <2> QED
      BY <2>1, <2>2, <2>3, InFlightInOrder DEF WritingOK
  <1> QED
    BY <1>1, <1>2, <1>3, PTL DEF Spec
=============================================================================
