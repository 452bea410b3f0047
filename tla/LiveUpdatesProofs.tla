-------------------------- MODULE LiveUpdatesProofs --------------------------
(***************************************************************************)
(* What LiveUpdates promises, for any number of sockets, subscriptions and *)
(* failures.                                                               *)
(***************************************************************************)
EXTENDS LiveUpdates, TLAPS

(* A request's stream is its own to start; it has a home once it holds.    *)
RequestsAndStreams ==
    \A r \in Request :
        /\ req[r].pc \in {"idle", "checking"} => stream[r].phase = "none"
        /\ req[r].pc # "idle" => req[r].client \in Client
        /\ req[r].pc = "creating" => stream[r].phase = "creating"
        /\ req[r].pc \notin {"holding", "over"} => req[r].home = None

HandlersAreAtHome == \A n \in Request : \A r \in stream[n].handlers : req[r].home = n

EntriesHold ==
    \A c \in Client :
        subs[c] # None => req[subs[c]].pc = "holding" /\ req[subs[c]].client = c

(* What a client waits for is the end of the home it had.                  *)
LeaversWereHome ==
    \A c \in Client, q \in Request, n \in Request \union {"listen"} :
        <<c, q, n>> \in leaving =>
            /\ req[q].client = c /\ req[q].home = n /\ req[q].pc \in {"holding", "over"}
            /\ n \in Request => stream[n].phase \in {"stopping", "gone"}

(* Starts that met are rivals; so is a stream that came first.             *)
RivalsMet ==
    /\ \A p, q \in Request : p # q /\ req[p].pc = "creating" /\ req[q].pc = "creating" => p \notin alone
    /\ \A q \in Request : req[q].pc = "creating" => current \notin alone

Inv ==
    /\ TypeOK
    /\ RequestsAndStreams /\ HandlersAreAtHome /\ EntriesHold /\ LeaversWereHome /\ RivalsMet
    /\ CurrentStreamIsUsed /\ OnlyRivalsAreForgotten /\ ServedUntilAFailure /\ HandlersHaveOwners

----------------------------------------------------------------------------
LEMMA PcChanges ==
    ASSUME TypeOK, NEW r \in Request, NEW p \in Pc, req' = [req EXCEPT ![r].pc = p]
    PROVE  /\ req' \in [Request -> Subscription]
           /\ \A q \in Request :
                 /\ req'[q].pc = IF q = r THEN p ELSE req[q].pc
                 /\ req'[q].client = req[q].client /\ req'[q].home = req[q].home
BY DEF TypeOK, Subscription

LEMMA PhaseChanges ==
    ASSUME TypeOK, NEW n \in Request, NEW p \in Phase, stream' = [stream EXCEPT ![n].phase = p]
    PROVE  /\ stream' \in [Request -> Stream]
           /\ \A m \in Request :
                 /\ stream'[m].phase = IF m = n THEN p ELSE stream[m].phase
                 /\ stream'[m].handlers = stream[m].handlers
BY DEF TypeOK, Stream

LEMMA HandlersChange ==
    ASSUME TypeOK, NEW n \in Request, NEW h \in SUBSET Request,
           stream' = [stream EXCEPT ![n].handlers = h]
    PROVE  /\ stream' \in [Request -> Stream]
           /\ \A m \in Request :
                 /\ stream'[m].handlers = IF m = n THEN h ELSE stream[m].handlers
                 /\ stream'[m].phase = stream[m].phase
BY DEF TypeOK, Stream

LEMMA Holds ==
    ASSUME TypeOK, NEW r \in Request, NEW home \in Request \union Own, Hold(r, home),
           req[r].client \in Client
    PROVE  /\ req' \in [Request -> Subscription]
           /\ \A q \in Request :
                 /\ req'[q].pc = IF q = r THEN "holding" ELSE req[q].pc
                 /\ req'[q].home = IF q = r THEN home ELSE req[q].home
                 /\ req'[q].client = req[q].client
           /\ subs' \in [Client -> Request \union {None}]
           /\ \A c \in Client : subs'[c] = IF c = req[r].client THEN r ELSE subs[c]
           /\ lost' \subseteq Request /\ lost \subseteq lost'
           /\ subs[req[r].client] # None => subs[req[r].client] \in lost'
<1>1. /\ req' = [req EXCEPT ![r].pc = "holding", ![r].home = home]
      /\ subs' = [subs EXCEPT ![req[r].client] = r]
      /\ lost' = lost \union ({subs[req[r].client]} \ {None})
                      \union (IF req[r].client \in here THEN {} ELSE {r})
    BY DEF Hold
<1>2. /\ req' \in [Request -> Subscription]
      /\ \A q \in Request :
            /\ req'[q].pc = IF q = r THEN "holding" ELSE req[q].pc
            /\ req'[q].home = IF q = r THEN home ELSE req[q].home
            /\ req'[q].client = req[q].client
    BY ZenonT(40), <1>1 DEF TypeOK, Subscription, Pc
<1> QED
    BY <1>1, <1>2 DEF TypeOK

LEMMA LiveOnes ==
    ASSUME Inv
    PROVE  \A q \in Live : /\ q \in Request /\ req[q].pc \in {"holding", "over"}
                           /\ req[q].client \in Client /\ req[q].home # None
<1>1. current # None => current \in Request /\ stream[current].handlers \subseteq Request
    BY DEF Inv, TypeOK, Stream
<1>2. \A q \in Live : q \in Request /\ req[q].home # None
    BY <1>1, LiveUpdatesAssumption DEF Inv, HandlersAreAtHome, Live
<1> QED
    BY <1>2 DEF Inv, RequestsAndStreams

(* Handlers keep their owners when the gateway keeps one more.             *)
LEMMA OwnersAfterHold ==
    ASSUME Inv, NEW r \in Request, req[r].pc \notin {"holding", "over"}, Live' \subseteq Live \union {r},
           \A q \in Request : req'[q].client = req[q].client,
           \A c \in Client : subs'[c] = IF c = req[r].client THEN r ELSE subs[c],
           req[r].client \in Client, lost \subseteq lost',
           subs[req[r].client] # None => subs[req[r].client] \in lost'
    PROVE  HandlersHaveOwners'
<1> SUFFICES ASSUME NEW q \in Live' PROVE q \in lost' \/ subs'[req'[q].client] = q
    BY DEF HandlersHaveOwners
<1>1. CASE q = r
    BY <1>1
<1>2. CASE q # r
    <2>1. q \in Live /\ q \in Request /\ req[q].client \in Client /\ q # None
        BY <1>2, LiveOnes, LiveUpdatesAssumption
    <2>2. q \in lost \/ subs[req[q].client] = q
        BY <2>1 DEF Inv, HandlersHaveOwners
    <2> QED
        BY <2>1, <2>2
<1> QED
    BY <1>1, <1>2

LEMMA SubscribeKeeps ==
    ASSUME Inv, NEW r \in Request, NEW c \in Client, Subscribe(r, c)
    PROVE  Inv'
<1>1. /\ req[r].pc = "idle" /\ UNCHANGED <<here, subs, current, stream, leaving, lost, alone, failed>>
      /\ req' = [req EXCEPT ![r] = [pc |-> "checking", client |-> c, home |-> None]]
    BY DEF Subscribe, history
<1>2. /\ req' \in [Request -> Subscription]
      /\ \A q \in Request : req'[q] = IF q = r THEN [pc |-> "checking", client |-> c, home |-> None]
                                    ELSE req[q]
    BY <1>1 DEF Inv, TypeOK, Subscription, Pc
<1>3. req'[r].pc = "checking" /\ req'[r].client = c /\ req'[r].home = None
    BY <1>2
<1>4. req[r].home = None
    BY <1>1 DEF Inv, RequestsAndStreams
<1>5. TypeOK'
    BY <1>1, <1>2, <1>3, <1>4 DEF Inv, TypeOK
<1>6. RequestsAndStreams'
    BY <1>1, <1>2, <1>3, <1>4 DEF Inv, TypeOK, RequestsAndStreams
<1>7. HandlersAreAtHome'
    BY <1>1, <1>2, <1>3, <1>4 DEF Inv, TypeOK, Stream, HandlersAreAtHome, RequestsAndStreams
<1>8. EntriesHold'
    BY <1>1, <1>2, <1>3, <1>4 DEF Inv, TypeOK, EntriesHold
<1>9. LeaversWereHome'
    BY <1>1, <1>2, <1>3, <1>4 DEF Inv, TypeOK, LeaversWereHome
<1>10. RivalsMet'
    BY <1>1, <1>2, <1>3, <1>4 DEF Inv, TypeOK, RivalsMet
<1>11. CurrentStreamIsUsed'
    BY <1>1, <1>2, <1>3, <1>4 DEF Inv, CurrentStreamIsUsed, Running
<1>12. OnlyRivalsAreForgotten'
    BY <1>1, <1>2, <1>3, <1>4 DEF Inv, OnlyRivalsAreForgotten, Running
<1>13. ServedUntilAFailure'
    BY <1>1, <1>2, <1>3, <1>4 DEF Inv, TypeOK, ServedUntilAFailure, Running
<1>14. HandlersHaveOwners'
    <2>1. r \notin Live
        BY <1>1, LiveOnes
    <2>2. Live' \subseteq Live
        BY <1>1, <1>2, <1>3, <2>1 DEF Live
    <2> QED
        BY <1>1, <1>2, <2>1, <2>2, LiveOnes DEF Inv, HandlersHaveOwners
<1> QED
    BY <1>5, <1>6, <1>7, <1>8, <1>9, <1>10, <1>11, <1>12, <1>13, <1>14 DEF Inv

LEMMA RejectedKeeps ==
    ASSUME Inv, NEW r \in Request, Rejected(r)
    PROVE  Inv'
<1>1. /\ req[r].pc = "checking" /\ UNCHANGED <<here, subs, current, stream, leaving, lost, alone, failed>>
      /\ req' = [req EXCEPT ![r].pc = "over"]
    BY DEF Rejected, history
<1>2. /\ req' \in [Request -> Subscription]
      /\ \A q \in Request :
            /\ req'[q].pc = IF q = r THEN "over" ELSE req[q].pc
            /\ req'[q].client = req[q].client /\ req'[q].home = req[q].home
    BY <1>1, PcChanges DEF Inv, Pc
<1>3. TypeOK'
    BY <1>1, <1>2 DEF Inv, TypeOK
<1>4. RequestsAndStreams'
    BY <1>1, <1>2 DEF Inv, TypeOK, RequestsAndStreams
<1>5. HandlersAreAtHome'
    BY <1>1, <1>2 DEF Inv, TypeOK, Stream, HandlersAreAtHome, RequestsAndStreams
<1>6. EntriesHold'
    BY <1>1, <1>2 DEF Inv, TypeOK, EntriesHold
<1>7. LeaversWereHome'
    BY <1>1, <1>2 DEF Inv, TypeOK, LeaversWereHome
<1>8. RivalsMet'
    BY <1>1, <1>2 DEF Inv, TypeOK, RivalsMet
<1>9. CurrentStreamIsUsed'
    BY <1>1, <1>2 DEF Inv, CurrentStreamIsUsed, Running
<1>10. OnlyRivalsAreForgotten'
    BY <1>1, <1>2 DEF Inv, OnlyRivalsAreForgotten, Running
<1>11. ServedUntilAFailure'
    BY <1>1, <1>2 DEF Inv, TypeOK, ServedUntilAFailure, Running
<1>12. HandlersHaveOwners'
    BY <1>1, <1>2 DEF Inv, TypeOK, HandlersHaveOwners, Live
<1> QED
    BY <1>3, <1>4, <1>5, <1>6, <1>7, <1>8, <1>9, <1>10, <1>11, <1>12 DEF Inv

LEMMA JoinKeeps ==
    ASSUME Inv, NEW r \in Request, Join(r)
    PROVE  Inv'
<1>1. /\ req[r].pc = "checking" /\ current \in Request /\ Hold(r, current)
      /\ UNCHANGED <<here, current, leaving, alone, failed>>
      /\ stream' = [stream EXCEPT ![current].handlers = @ \union {r}]
    BY DEF Join, Inv, TypeOK
<1>2. /\ stream' \in [Request -> Stream]
      /\ \A n \in Request :
            /\ stream'[n].phase = stream[n].phase
            /\ stream'[n].handlers = IF n = current THEN stream[n].handlers \union {r} ELSE stream[n].handlers
    <2> DEFINE h == stream[current].handlers \union {r}
    <2>1. h \in SUBSET Request
        BY <1>1 DEF Inv, TypeOK, Stream
    <2>2. stream' = [stream EXCEPT ![current].handlers = h]
        BY <1>1
    <2> HIDE DEF h
    <2>3. /\ stream' \in [Request -> Stream]
          /\ \A n \in Request :
                /\ stream'[n].handlers = IF n = current THEN h ELSE stream[n].handlers
                /\ stream'[n].phase = stream[n].phase
        BY <1>1, <2>1, <2>2, HandlersChange DEF Inv
    <2> QED
        BY <2>3 DEF h
<1>3. req[r].client \in Client /\ req[r].home = None /\ None \notin Request
    BY <1>1, LiveUpdatesAssumption DEF Inv, RequestsAndStreams
<1>4. /\ req' \in [Request -> Subscription]
      /\ \A q \in Request :
            /\ req'[q].pc = IF q = r THEN "holding" ELSE req[q].pc
            /\ req'[q].home = IF q = r THEN current ELSE req[q].home
            /\ req'[q].client = req[q].client
      /\ subs' \in [Client -> Request \union {None}]
      /\ \A c \in Client : subs'[c] = IF c = req[r].client THEN r ELSE subs[c]
      /\ lost' \subseteq Request /\ lost \subseteq lost'
      /\ subs[req[r].client] # None => subs[req[r].client] \in lost'
      /\ req[r].client \in Client
    BY <1>1, <1>3, Holds DEF Inv
<1>5. TypeOK'
    BY <1>1, <1>2, <1>3, <1>4 DEF Inv, TypeOK
<1>6. RequestsAndStreams'
    BY <1>1, <1>2, <1>3, <1>4 DEF Inv, TypeOK, RequestsAndStreams
<1>7. HandlersAreAtHome'
    BY <1>1, <1>2, <1>3, <1>4 DEF Inv, TypeOK, Stream, HandlersAreAtHome, RequestsAndStreams
<1>8. EntriesHold'
    BY <1>1, <1>2, <1>3, <1>4 DEF Inv, TypeOK, EntriesHold
<1>9. LeaversWereHome'
    BY <1>1, <1>2, <1>3, <1>4 DEF Inv, TypeOK, LeaversWereHome
<1>10. RivalsMet'
    BY <1>1, <1>2, <1>3, <1>4 DEF Inv, TypeOK, RivalsMet
<1>11. CurrentStreamIsUsed'
    BY <1>1, <1>2, <1>3, <1>4 DEF Inv, CurrentStreamIsUsed, Running
<1>12. OnlyRivalsAreForgotten'
    BY <1>1, <1>2, <1>3, <1>4 DEF Inv, OnlyRivalsAreForgotten, Running
<1>13. ServedUntilAFailure'
    <2> SUFFICES ASSUME NEW c \in here, NEW q \in Request, q = subs'[c], \A l \in leaving : l[2] # q,
                        req'[q].home \notin Own
                 PROVE  \/ req'[q].home \in Running' /\ q \in stream'[req'[q].home].handlers
                        \/ \E m \in failed : m = req'[q].home \/ m \notin alone
        BY <1>1, <1>4, <1>5 DEF ServedUntilAFailure, TypeOK
    <2>1. CASE q = r
        <3>1. stream[current].phase \in {"opening", "streaming"}
            BY <1>1, <1>3 DEF Inv, CurrentStreamIsUsed, Running
        <3>2. req'[q].home = current /\ q \in stream'[current].handlers
            BY <1>1, <1>2, <1>4, <2>1
        <3> QED
            BY <1>1, <1>2, <3>1, <3>2 DEF Running
    <2>2. CASE q # r
        <3>1. subs[c] = q /\ req'[q].home = req[q].home /\ q # None
            BY <1>1, <1>3, <1>4, <2>2 DEF Inv, TypeOK
        <3>2. \/ req[q].home \in Running /\ q \in stream[req[q].home].handlers
              \/ \E m \in failed : m = req[q].home \/ m \notin alone
            BY <1>1, <3>1 DEF Inv, ServedUntilAFailure
        <3> QED
            BY <1>1, <1>2, <3>1, <3>2 DEF Running
    <2> QED
        BY <2>1, <2>2
<1>14. HandlersHaveOwners'
    <2>1. Live' \subseteq Live \union {r}
        BY <1>1, <1>2, <1>4, LiveUpdatesAssumption DEF Live
    <2> QED
        BY <1>1, <1>4, <2>1, OwnersAfterHold
<1> QED
    BY <1>5, <1>6, <1>7, <1>8, <1>9, <1>10, <1>11, <1>12, <1>13, <1>14 DEF Inv

LEMMA StartStreamKeeps ==
    ASSUME Inv, NEW r \in Request, StartStream(r)
    PROVE  Inv'
<1>1. /\ req[r].pc = "checking" /\ current = None
      /\ UNCHANGED <<here, subs, current, leaving, lost, failed>>
      /\ req' = [req EXCEPT ![r].pc = "creating"] /\ stream' = [stream EXCEPT ![r].phase = "creating"]
      /\ alone' \subseteq alone
      /\ \A q \in Request : req[q].pc = "creating" => q \notin alone' /\ r \notin alone'
    BY DEF StartStream
<1>2. /\ req' \in [Request -> Subscription]
      /\ \A q \in Request :
            /\ req'[q].pc = IF q = r THEN "creating" ELSE req[q].pc
            /\ req'[q].client = req[q].client /\ req'[q].home = req[q].home
    BY <1>1, PcChanges DEF Inv, Pc
<1>3. /\ stream' \in [Request -> Stream]
      /\ \A n \in Request :
            /\ stream'[n].phase = IF n = r THEN "creating" ELSE stream[n].phase
            /\ stream'[n].handlers = stream[n].handlers
    BY <1>1, PhaseChanges DEF Inv, Phase
<1>4. stream[r].phase = "none"
    BY <1>1 DEF Inv, RequestsAndStreams
<1>5. None \notin Request
    BY LiveUpdatesAssumption
<1>6. TypeOK'
    BY <1>1, <1>2, <1>3, <1>4, <1>5 DEF Inv, TypeOK
<1>7. RequestsAndStreams'
    BY <1>1, <1>2, <1>3, <1>4, <1>5 DEF Inv, TypeOK, RequestsAndStreams
<1>8. HandlersAreAtHome'
    BY <1>1, <1>2, <1>3, <1>4, <1>5 DEF Inv, TypeOK, Stream, HandlersAreAtHome, RequestsAndStreams
<1>9. EntriesHold'
    BY <1>1, <1>2, <1>3, <1>4, <1>5 DEF Inv, TypeOK, EntriesHold
<1>10. LeaversWereHome'
    BY <1>1, <1>2, <1>3, <1>4, <1>5 DEF Inv, TypeOK, LeaversWereHome
<1>11. RivalsMet'
    BY <1>1, <1>2, <1>3, <1>4, <1>5 DEF Inv, TypeOK, RivalsMet
<1>12. CurrentStreamIsUsed'
    BY <1>1, <1>2, <1>3, <1>4, <1>5 DEF Inv, CurrentStreamIsUsed, Running
<1>13. OnlyRivalsAreForgotten'
    BY <1>1, <1>2, <1>3, <1>4, <1>5 DEF Inv, OnlyRivalsAreForgotten, Running
<1>14. ServedUntilAFailure'
    BY <1>1, <1>2, <1>3, <1>4, <1>5 DEF Inv, TypeOK, ServedUntilAFailure, Running
<1>15. HandlersHaveOwners'
    BY <1>1, <1>2, <1>3, <1>4, <1>5 DEF Inv, TypeOK, HandlersHaveOwners, Live
<1> QED
    BY <1>6, <1>7, <1>8, <1>9, <1>10, <1>11, <1>12, <1>13, <1>14, <1>15 DEF Inv

LEMMA RefusedKeeps ==
    ASSUME Inv, NEW r \in Request, Refused(r)
    PROVE  Inv'
<1>1. /\ req[r].pc \in {"checking", "creating"}
      /\ UNCHANGED <<here, subs, current, leaving, lost, alone, failed>>
      /\ req' = [req EXCEPT ![r].pc = "falling"] /\ stream' = [stream EXCEPT ![r].phase = "none"]
    BY DEF Refused, history
<1>2. /\ req' \in [Request -> Subscription]
      /\ \A q \in Request :
            /\ req'[q].pc = IF q = r THEN "falling" ELSE req[q].pc
            /\ req'[q].client = req[q].client /\ req'[q].home = req[q].home
    BY <1>1, PcChanges DEF Inv, Pc
<1>3. /\ stream' \in [Request -> Stream]
      /\ \A n \in Request :
            /\ stream'[n].phase = IF n = r THEN "none" ELSE stream[n].phase
            /\ stream'[n].handlers = stream[n].handlers
    BY <1>1, PhaseChanges DEF Inv, Phase
<1>4. stream[r].phase \in {"none", "creating"}
    BY <1>1 DEF Inv, RequestsAndStreams
<1>5. TypeOK'
    BY <1>1, <1>2, <1>3, <1>4 DEF Inv, TypeOK
<1>6. RequestsAndStreams'
    BY <1>1, <1>2, <1>3, <1>4 DEF Inv, TypeOK, RequestsAndStreams
<1>7. HandlersAreAtHome'
    BY <1>1, <1>2, <1>3, <1>4 DEF Inv, TypeOK, Stream, HandlersAreAtHome, RequestsAndStreams
<1>8. EntriesHold'
    BY <1>1, <1>2, <1>3, <1>4 DEF Inv, TypeOK, EntriesHold
<1>9. LeaversWereHome'
    BY <1>1, <1>2, <1>3, <1>4 DEF Inv, TypeOK, LeaversWereHome
<1>10. RivalsMet'
    BY <1>1, <1>2, <1>3, <1>4 DEF Inv, TypeOK, RivalsMet
<1>11. CurrentStreamIsUsed'
    BY <1>1, <1>2, <1>3, <1>4 DEF Inv, CurrentStreamIsUsed, Running
<1>12. OnlyRivalsAreForgotten'
    BY <1>1, <1>2, <1>3, <1>4 DEF Inv, OnlyRivalsAreForgotten, Running
<1>13. ServedUntilAFailure'
    BY <1>1, <1>2, <1>3, <1>4 DEF Inv, TypeOK, ServedUntilAFailure, Running
<1>14. HandlersHaveOwners'
    BY <1>1, <1>2, <1>3, <1>4 DEF Inv, TypeOK, HandlersHaveOwners, Live
<1> QED
    BY <1>5, <1>6, <1>7, <1>8, <1>9, <1>10, <1>11, <1>12, <1>13, <1>14 DEF Inv

LEMMA StartedKeeps ==
    ASSUME Inv, NEW r \in Request, Started(r)
    PROVE  Inv'
<1>1. /\ req[r].pc = "creating" /\ Hold(r, r) /\ current' = r
      /\ UNCHANGED <<here, leaving, alone, failed>>
      /\ stream' = [stream EXCEPT ![r] = [phase |-> "opening", handlers |-> {r}]]
    BY DEF Started
<1>2. /\ stream' \in [Request -> Stream]
      /\ \A n \in Request :
            /\ stream'[n].phase = IF n = r THEN "opening" ELSE stream[n].phase
            /\ stream'[n].handlers = IF n = r THEN {r} ELSE stream[n].handlers
    BY <1>1 DEF Inv, TypeOK, Stream, Phase
<1>3. /\ req[r].client \in Client /\ req[r].home = None /\ stream[r].phase = "creating"
      /\ None \notin Request
    BY <1>1, LiveUpdatesAssumption DEF Inv, RequestsAndStreams
<1>4. /\ req' \in [Request -> Subscription]
      /\ \A q \in Request :
            /\ req'[q].pc = IF q = r THEN "holding" ELSE req[q].pc
            /\ req'[q].home = IF q = r THEN r ELSE req[q].home
            /\ req'[q].client = req[q].client
      /\ subs' \in [Client -> Request \union {None}]
      /\ \A c \in Client : subs'[c] = IF c = req[r].client THEN r ELSE subs[c]
      /\ lost' \subseteq Request /\ lost \subseteq lost'
      /\ subs[req[r].client] # None => subs[req[r].client] \in lost'
      /\ req[r].client \in Client
    BY <1>1, <1>3, Holds DEF Inv
<1>5. TypeOK'
    BY <1>1, <1>2, <1>3, <1>4 DEF Inv, TypeOK
<1>6. RequestsAndStreams'
    BY <1>1, <1>2, <1>3, <1>4 DEF Inv, TypeOK, RequestsAndStreams
<1>7. HandlersAreAtHome'
    BY <1>1, <1>2, <1>3, <1>4 DEF Inv, TypeOK, Stream, HandlersAreAtHome, RequestsAndStreams
<1>8. EntriesHold'
    BY <1>1, <1>2, <1>3, <1>4 DEF Inv, TypeOK, EntriesHold
<1>9. LeaversWereHome'
    BY <1>1, <1>2, <1>3, <1>4 DEF Inv, TypeOK, LeaversWereHome
<1>10. RivalsMet'
    BY <1>1, <1>2, <1>3, <1>4 DEF Inv, TypeOK, RivalsMet
<1>11. CurrentStreamIsUsed'
    BY <1>1, <1>2, <1>3, <1>4 DEF Inv, CurrentStreamIsUsed, Running
<1>12. OnlyRivalsAreForgotten'
    <2>1. ASSUME NEW m \in Request, m # r, m \in Running', m \in alone PROVE FALSE
        <3>1. m \in Running
            BY <1>2, <2>1 DEF Running
        <3>2. m = current
            BY <2>1, <3>1 DEF Inv, OnlyRivalsAreForgotten
        <3> QED
            BY <1>1, <2>1, <3>2 DEF Inv, RivalsMet
    <2> QED
        BY <1>1, <2>1 DEF OnlyRivalsAreForgotten, Running
<1>13. ServedUntilAFailure'
    BY <1>1, <1>2, <1>3, <1>4 DEF Inv, TypeOK, ServedUntilAFailure, Running
<1>14. HandlersHaveOwners'
    <2>1. Live' \subseteq Live \union {r}
        BY <1>1, <1>2, <1>3, <1>4, LiveUpdatesAssumption DEF Live
    <2> QED
        BY <1>1, <1>4, <2>1, OwnersAfterHold
<1> QED
    BY <1>5, <1>6, <1>7, <1>8, <1>9, <1>10, <1>11, <1>12, <1>13, <1>14 DEF Inv

LEMMA FallBackKeeps ==
    ASSUME Inv, NEW r \in Request, FallBack(r)
    PROVE  Inv'
<1>1. /\ req[r].pc = "falling" /\ UNCHANGED <<here, current, stream, leaving, alone, failed>>
    BY DEF FallBack
<1>2. PICK home \in Own : Hold(r, home)
    BY DEF FallBack
<1>3. req[r].client \in Client /\ req[r].home = None
    BY <1>1 DEF Inv, RequestsAndStreams
<1>4. /\ req' \in [Request -> Subscription]
      /\ \A q \in Request :
            /\ req'[q].pc = IF q = r THEN "holding" ELSE req[q].pc
            /\ req'[q].home = IF q = r THEN home ELSE req[q].home
            /\ req'[q].client = req[q].client
      /\ subs' \in [Client -> Request \union {None}]
      /\ \A c \in Client : subs'[c] = IF c = req[r].client THEN r ELSE subs[c]
      /\ lost' \subseteq Request /\ lost \subseteq lost'
      /\ subs[req[r].client] # None => subs[req[r].client] \in lost'
      /\ req[r].client \in Client
    BY <1>2, <1>3, Holds DEF Inv
<1>5. Own \intersect Request = {} /\ None \notin Own /\ None \notin Request
    BY LiveUpdatesAssumption
<1>6. TypeOK'
    BY <1>1, <1>2, <1>3, <1>4, <1>5 DEF Inv, TypeOK
<1>7. RequestsAndStreams'
    BY <1>1, <1>2, <1>3, <1>4, <1>5 DEF Inv, TypeOK, RequestsAndStreams
<1>8. HandlersAreAtHome'
    BY <1>1, <1>2, <1>3, <1>4, <1>5 DEF Inv, TypeOK, Stream, HandlersAreAtHome, RequestsAndStreams
<1>9. EntriesHold'
    BY <1>1, <1>2, <1>3, <1>4, <1>5 DEF Inv, TypeOK, EntriesHold
<1>10. LeaversWereHome'
    BY <1>1, <1>2, <1>3, <1>4, <1>5 DEF Inv, TypeOK, LeaversWereHome
<1>11. RivalsMet'
    BY <1>1, <1>2, <1>3, <1>4, <1>5 DEF Inv, TypeOK, RivalsMet
<1>12. CurrentStreamIsUsed'
    BY <1>1, <1>2, <1>3, <1>4, <1>5 DEF Inv, CurrentStreamIsUsed, Running
<1>13. OnlyRivalsAreForgotten'
    BY <1>1, <1>2, <1>3, <1>4, <1>5 DEF Inv, OnlyRivalsAreForgotten, Running
<1>14. ServedUntilAFailure'
    BY <1>1, <1>2, <1>3, <1>4, <1>5 DEF Inv, TypeOK, ServedUntilAFailure, Running
<1>15. HandlersHaveOwners'
    <2>1. Live' \subseteq Live \union {r}
        BY <1>1, <1>4 DEF Live
    <2> QED
        BY <1>1, <1>4, <2>1, OwnersAfterHold
<1> QED
    BY <1>6, <1>7, <1>8, <1>9, <1>10, <1>11, <1>12, <1>13, <1>14, <1>15 DEF Inv

LEMMA OpenedKeeps ==
    ASSUME Inv, NEW n \in Request, Opened(n)
    PROVE  Inv'
<1>1. /\ stream[n].phase = "opening" /\ stream' = [stream EXCEPT ![n].phase = "streaming"]
      /\ UNCHANGED <<here, req, subs, current, leaving, lost, alone, failed>>
    BY DEF Opened, history
<1>2. /\ stream' \in [Request -> Stream]
      /\ \A m \in Request :
            /\ stream'[m].phase = IF m = n THEN "streaming" ELSE stream[m].phase
            /\ stream'[m].handlers = stream[m].handlers
    BY <1>1, PhaseChanges DEF Inv, Phase
<1>3. TypeOK'
    BY <1>1, <1>2 DEF Inv, TypeOK
<1>4. RequestsAndStreams'
    BY <1>1, <1>2 DEF Inv, TypeOK, RequestsAndStreams
<1>5. HandlersAreAtHome'
    BY <1>1, <1>2 DEF Inv, TypeOK, Stream, HandlersAreAtHome, RequestsAndStreams
<1>6. EntriesHold'
    BY <1>1, <1>2 DEF Inv, TypeOK, EntriesHold
<1>7. LeaversWereHome'
    BY <1>1, <1>2 DEF Inv, TypeOK, LeaversWereHome
<1>8. RivalsMet'
    BY <1>1, <1>2 DEF Inv, TypeOK, RivalsMet
<1>9. CurrentStreamIsUsed'
    BY <1>1, <1>2 DEF Inv, CurrentStreamIsUsed, Running
<1>10. OnlyRivalsAreForgotten'
    BY <1>1, <1>2 DEF Inv, OnlyRivalsAreForgotten, Running
<1>11. ServedUntilAFailure'
    BY <1>1, <1>2 DEF Inv, TypeOK, ServedUntilAFailure, Running
<1>12. HandlersHaveOwners'
    BY <1>1, <1>2 DEF Inv, TypeOK, HandlersHaveOwners, Live
<1> QED
    BY <1>3, <1>4, <1>5, <1>6, <1>7, <1>8, <1>9, <1>10, <1>11, <1>12 DEF Inv

LEMMA CleanUpKeeps ==
    ASSUME Inv, NEW n \in Request, CleanUp(n)
    PROVE  Inv'
<1>1. /\ stream[n].phase = "stopping" /\ stream' = [stream EXCEPT ![n].phase = "gone"]
      /\ UNCHANGED <<here, req, subs, current, leaving, lost, alone, failed>>
    BY DEF CleanUp, history
<1>2. /\ stream' \in [Request -> Stream]
      /\ \A m \in Request :
            /\ stream'[m].phase = IF m = n THEN "gone" ELSE stream[m].phase
            /\ stream'[m].handlers = stream[m].handlers
    BY <1>1, PhaseChanges DEF Inv, Phase
<1>3. TypeOK'
    BY <1>1, <1>2 DEF Inv, TypeOK
<1>4. RequestsAndStreams'
    BY <1>1, <1>2 DEF Inv, TypeOK, RequestsAndStreams
<1>5. HandlersAreAtHome'
    BY <1>1, <1>2 DEF Inv, TypeOK, Stream, HandlersAreAtHome, RequestsAndStreams
<1>6. EntriesHold'
    BY <1>1, <1>2 DEF Inv, TypeOK, EntriesHold
<1>7. LeaversWereHome'
    BY <1>1, <1>2 DEF Inv, TypeOK, LeaversWereHome
<1>8. RivalsMet'
    BY <1>1, <1>2 DEF Inv, TypeOK, RivalsMet
<1>9. CurrentStreamIsUsed'
    BY <1>1, <1>2 DEF Inv, CurrentStreamIsUsed, Running
<1>10. OnlyRivalsAreForgotten'
    BY <1>1, <1>2 DEF Inv, OnlyRivalsAreForgotten, Running
<1>11. ServedUntilAFailure'
    BY <1>1, <1>2 DEF Inv, TypeOK, ServedUntilAFailure, Running
<1>12. HandlersHaveOwners'
    BY <1>1, <1>2 DEF Inv, TypeOK, HandlersHaveOwners, Live
<1> QED
    BY <1>3, <1>4, <1>5, <1>6, <1>7, <1>8, <1>9, <1>10, <1>11, <1>12 DEF Inv

LEMMA Stops ==
    ASSUME TypeOK, NEW streams \in [Request -> Stream], NEW n \in Request \union {None}
    PROVE  /\ Stopping(streams, n) \in [Request -> Stream]
           /\ \A m \in Request :
                 Stopping(streams, n)[m] = IF m = n THEN Ending ELSE streams[m]
           /\ Ending.phase = "stopping" /\ Ending.handlers = {}
<1>1. Ending \in Stream /\ Ending.phase = "stopping" /\ Ending.handlers = {}
    BY DEF Ending, Stream, Phase
<1> QED
    BY <1>1, LiveUpdatesAssumption DEF Stopping

LEMMA StreamFailsKeeps ==
    ASSUME Inv, NEW n \in Request, StreamFails(n)
    PROVE  Inv'
<1>1. /\ stream[n].phase \in {"opening", "streaming"} /\ failed' = failed \union {n} /\ current' = None
      /\ stream' = Stopping([stream EXCEPT ![n].phase = "failed"], current)
      /\ UNCHANGED <<here, req, subs, leaving, lost, alone>>
    BY DEF StreamFails, Running
<1>2. /\ [stream EXCEPT ![n].phase = "failed"] \in [Request -> Stream]
      /\ \A m \in Request :
            /\ [stream EXCEPT ![n].phase = "failed"][m].phase = IF m = n THEN "failed" ELSE stream[m].phase
            /\ [stream EXCEPT ![n].phase = "failed"][m].handlers = stream[m].handlers
    BY DEF Inv, TypeOK, Stream, Phase
<1>3. /\ stream' \in [Request -> Stream]
      /\ \A m \in Request :
            /\ stream'[m].phase = IF m = current THEN "stopping"
                                  ELSE IF m = n THEN "failed" ELSE stream[m].phase
            /\ stream'[m].handlers = IF m = current THEN {} ELSE stream[m].handlers
      /\ None \notin Request
    BY ZenonT(40), <1>1, <1>2, Stops, LiveUpdatesAssumption DEF Inv, TypeOK
<1>4. current # n => n \notin alone
    BY <1>1 DEF Inv, OnlyRivalsAreForgotten, Running
<1>5. current # None => stream[current].phase \in {"opening", "streaming"}
    BY DEF Inv, CurrentStreamIsUsed, Running
<1>6. TypeOK'
    BY <1>1, <1>2, <1>3, <1>4, <1>5 DEF Inv, TypeOK
<1>7. RequestsAndStreams'
    BY ZenonT(40), <1>1, <1>3, <1>5 DEF Inv, RequestsAndStreams
<1>8. HandlersAreAtHome'
    BY <1>1, <1>2, <1>3, <1>4, <1>5 DEF Inv, TypeOK, Stream, HandlersAreAtHome, RequestsAndStreams
<1>9. EntriesHold'
    BY <1>1, <1>2, <1>3, <1>4, <1>5 DEF Inv, TypeOK, EntriesHold
<1>10. LeaversWereHome'
    <2>1. \A m \in Request :
              stream[m].phase \in {"stopping", "gone"} => stream'[m].phase \in {"stopping", "gone"}
        BY <1>1, <1>3
    <2>2. UNCHANGED <<req, leaving>>
        BY <1>1
    <2> QED
        BY <2>1, <2>2 DEF Inv, LeaversWereHome
<1>11. RivalsMet'
    BY <1>1, <1>2, <1>3, <1>4, <1>5 DEF Inv, TypeOK, RivalsMet
<1>12. CurrentStreamIsUsed'
    BY <1>1, <1>2, <1>3, <1>4, <1>5 DEF Inv, CurrentStreamIsUsed, Running
<1>13. OnlyRivalsAreForgotten'
    BY <1>1, <1>2, <1>3, <1>4, <1>5 DEF Inv, OnlyRivalsAreForgotten, Running
<1>14. ServedUntilAFailure'
    <2> SUFFICES ASSUME NEW c \in here, NEW q \in Request, q = subs[c], \A l \in leaving : l[2] # q,
                        req[q].home \notin Own
                 PROVE  \/ req[q].home \in Running' /\ q \in stream'[req[q].home].handlers
                        \/ \E m \in failed' : m = req[q].home \/ m \notin alone
        BY <1>1 DEF ServedUntilAFailure, Inv, TypeOK
    <2>1. \/ req[q].home \in Running /\ q \in stream[req[q].home].handlers
          \/ \E m \in failed : m = req[q].home \/ m \notin alone
        BY LiveUpdatesAssumption DEF Inv, ServedUntilAFailure
    <2>2. CASE req[q].home \in Running /\ q \in stream[req[q].home].handlers
        <3>1. CASE req[q].home \in {n, current}
            BY <1>1, <1>4, <3>1
        <3>2. CASE req[q].home \notin {n, current}
            BY <1>3, <2>2, <3>2 DEF Running
        <3> QED
            BY <3>1, <3>2
    <2> QED
        BY <1>1, <2>1, <2>2
<1>15. HandlersHaveOwners'
    BY <1>1, <1>2, <1>3, <1>4, <1>5 DEF Inv, TypeOK, HandlersHaveOwners, Live
<1> QED
    BY <1>6, <1>7, <1>8, <1>9, <1>10, <1>11, <1>12, <1>13, <1>14, <1>15 DEF Inv

LEMMA ForgetsKeeps ==
    ASSUME Inv, NEW c \in Client, NEW q \in Request \union {None}, Forgets(c, q),
           q # None => req[q].client = c /\ req[q].pc \in {"holding", "over"},
           UNCHANGED <<current, alone, failed>>, here' \subseteq here,
           lost \subseteq lost', lost' \subseteq Request, subs[c] \in lost' \union {None, q},
           leaving' \subseteq leaving, \A l \in leaving : l \in leaving' \/ l[2] = q,
           stream' \in [Request -> Stream],
           \A m \in Request :
              /\ stream'[m].phase = stream[m].phase
              /\ stream'[m].handlers \subseteq stream[m].handlers
              /\ stream[m].handlers \subseteq stream'[m].handlers \union {q},
           current # None => stream'[current].handlers # {} /\ q \notin stream'[current].handlers
    PROVE  Inv'
<1> USE LiveUpdatesAssumption
<1>1. /\ subs' \in [Client -> Request \union {None}]
      /\ \A d \in Client : subs'[d] = IF d = c THEN None ELSE subs[d]
    BY DEF Forgets, Inv, TypeOK
<1>2. /\ req' \in [Request -> Subscription]
      /\ \A p \in Request :
            /\ req'[p].pc = IF p = q THEN "over" ELSE req[p].pc
            /\ req'[p].client = req[p].client /\ req'[p].home = req[p].home
    <2>1. CASE q = None
        BY <2>1 DEF Forgets, Inv, TypeOK
    <2>2. CASE q # None
        BY <2>2, PcChanges DEF Forgets, Inv, Pc
    <2> QED
        BY <2>1, <2>2
<1>3. \A p \in Request : p # q => req'[p].pc = req[p].pc
    BY <1>2
<1>4. TypeOK'
    BY <1>1, <1>2 DEF Inv, TypeOK
<1>5. RequestsAndStreams'
    BY <1>2 DEF Inv, RequestsAndStreams
<1>6. HandlersAreAtHome'
    BY <1>2 DEF Inv, HandlersAreAtHome, TypeOK, Stream
<1>7. EntriesHold'
    <2> SUFFICES ASSUME NEW d \in Client, subs'[d] # None
                 PROVE  req'[subs'[d]].pc = "holding" /\ req'[subs'[d]].client = d
        BY DEF EntriesHold
    <2>1. d # c /\ subs'[d] = subs[d] /\ subs[d] \in Request
        BY <1>1 DEF Inv, TypeOK
    <2>2. req[subs[d]].pc = "holding" /\ req[subs[d]].client = d
        BY <2>1 DEF Inv, EntriesHold
    <2> QED
        BY <1>2, <2>1, <2>2
<1>8. LeaversWereHome'
    <2> SUFFICES ASSUME NEW d \in Client, NEW p \in Request, NEW n \in Request \union {"listen"},
                        <<d, p, n>> \in leaving'
                 PROVE  /\ req'[p].client = d /\ req'[p].home = n /\ req'[p].pc \in {"holding", "over"}
                        /\ n \in Request => stream'[n].phase \in {"stopping", "gone"}
        BY DEF LeaversWereHome
    <2>1. /\ req[p].client = d /\ req[p].home = n /\ req[p].pc \in {"holding", "over"}
          /\ n \in Request => stream[n].phase \in {"stopping", "gone"}
        BY DEF Inv, LeaversWereHome
    <2> QED
        BY <1>2, <2>1
<1>9. RivalsMet'
    BY <1>2 DEF Inv, RivalsMet
<1>10. Running' = Running
    BY DEF Running
<1>11. CurrentStreamIsUsed'
    BY <1>10 DEF Inv, CurrentStreamIsUsed
<1>12. OnlyRivalsAreForgotten'
    BY <1>10 DEF Inv, OnlyRivalsAreForgotten
<1>13. ServedUntilAFailure'
    <2> SUFFICES ASSUME NEW d \in here', NEW p \in Request, p = subs'[d],
                        \A l \in leaving' : l[2] # p, req'[p].home \notin Own
                 PROVE  \/ req'[p].home \in Running' /\ p \in stream'[req'[p].home].handlers
                        \/ \E m \in failed' : m = req'[p].home \/ m \notin alone'
        BY <1>4 DEF ServedUntilAFailure, TypeOK
    <2>1. d \in here /\ d \in Client /\ d # c /\ subs[d] = p /\ p # None
        BY <1>1 DEF Inv, TypeOK
    <2>2. req[p].client = d
        BY <2>1 DEF Inv, EntriesHold
    <2>3. p # q
        BY <2>1, <2>2
    <2>4. \A l \in leaving : l[2] # p
        BY <2>3
    <2>5. \/ req[p].home \in Running /\ p \in stream[req[p].home].handlers
          \/ \E m \in failed : m = req[p].home \/ m \notin alone
        BY <1>2, <2>1, <2>4 DEF Inv, ServedUntilAFailure
    <2> QED
        BY <1>2, <1>10, <2>3, <2>5 DEF Running
<1>14. HandlersHaveOwners'
    <2> SUFFICES ASSUME NEW p \in Live' PROVE p \in lost' \/ subs'[req'[p].client] = p
        BY DEF HandlersHaveOwners
    <2>1. p \in Live /\ p # q
        <3>1. CASE p \in Request /\ req'[p].home \in Own /\ req'[p].pc = "holding"
            BY <1>2, <3>1 DEF Live
        <3>2. CASE current # None /\ p \in stream'[current].handlers
            BY <3>2 DEF Live, Inv, TypeOK
        <3> QED
            BY <3>1, <3>2 DEF Live
    <2>2. p \in Request /\ req[p].client \in Client /\ (p \in lost \/ subs[req[p].client] = p)
        BY <2>1, LiveOnes DEF Inv, HandlersHaveOwners
    <2> QED
        BY <1>1, <1>2, <2>1, <2>2
<1> QED
    BY <1>4, <1>5, <1>6, <1>7, <1>8, <1>9, <1>11, <1>12, <1>13, <1>14 DEF Inv

LEMMA LeaveKeeps ==
    ASSUME Inv, NEW c \in Client, NEW q \in Request, NEW n \in Request \union {"listen"},
           <<c, q, n>> \in leaving, Leave(c, q, n)
    PROVE  Inv'
<1>1. /\ req[q].client = c /\ req[q].home = n /\ req[q].pc \in {"holding", "over"}
      /\ n \in Request => stream[n].phase \in {"stopping", "gone"}
    BY DEF Inv, LeaversWereHome
<1>2. current # None => q \notin stream[current].handlers
    <2> SUFFICES ASSUME current # None, q \in stream[current].handlers PROVE FALSE
        OBVIOUS
    <2>1. current \in Request /\ stream[current].phase \in {"opening", "streaming"}
        BY DEF Inv, CurrentStreamIsUsed, Running
    <2>2. req[q].home = current
        BY <2>1 DEF Inv, HandlersAreAtHome
    <2> QED
        BY <1>1, <2>1, <2>2
<1>3. /\ Forgets(c, q) /\ UNCHANGED <<here, current, stream, alone, failed>>
      /\ leaving' = leaving \ {<<c, q, n>>} /\ lost' = lost \union ({subs[c]} \ {None, q})
    BY DEF Leave
<1>4. lost' \subseteq Request
    BY <1>3 DEF Inv, TypeOK
<1>5. stream' \in [Request -> Stream]
    BY <1>3 DEF Inv, TypeOK
<1>6. current # None => stream[current].handlers # {}
    BY DEF Inv, CurrentStreamIsUsed
<1>7. \A l \in leaving : l \in leaving' \/ l[2] = q
    BY <1>3
<1> QED
    BY <1>1, <1>2, <1>3, <1>4, <1>5, <1>6, <1>7, ForgetsKeeps

LEMMA LeavesKeeps ==
    ASSUME Inv, NEW c \in Client, c \in here, Leaves(c), here' \subseteq here, UNCHANGED history,
           NEW q, q = subs[c]
    PROVE  Inv'
<1> USE LiveUpdatesAssumption
<1> DEFINE rest == stream[current].handlers \ {q}
<1>1. /\ q \in Request \union {None}
      /\ q # None => req[q].client = c /\ req[q].pc = "holding"
      /\ UNCHANGED <<lost, alone, failed>> /\ lost \subseteq Request
      /\ stream \in [Request -> Stream] /\ current \in Request \union {None}
    BY DEF Inv, TypeOK, EntriesHold, history
<1>2. current # None => /\ stream[current].phase \in {"opening", "streaming"}
                        /\ stream[current].handlers # {}
    BY DEF Inv, CurrentStreamIsUsed, Running
<1>3. CASE ~HasStream(q) /\ ~Listens(q) /\ Forgets(c, q) /\ UNCHANGED <<current, stream, leaving>>
    <2>1. ASSUME current # None, q \in stream[current].handlers PROVE FALSE
        <3>1. q \in Request /\ req[q].home = current
            BY <1>1, <2>1 DEF Inv, HandlersAreAtHome, TypeOK, Stream
        <3> QED
            BY <1>1, <1>3, <2>1, <3>1 DEF HasStream
    <2> QED
        BY <1>1, <1>2, <1>3, <2>1, ForgetsKeeps
<1>4. CASE HasStream(q) /\ ~Emptied(rest) /\ Forgets(c, q) /\ UNCHANGED <<current, leaving>>
           /\ stream' = [stream EXCEPT ![current].handlers = rest]
    <2>1. current # None /\ rest # {} /\ current \in Request
        BY <1>1, <1>4 DEF HasStream, Emptied
    <2>2. rest \in SUBSET Request /\ q \notin rest /\ stream[current].handlers \subseteq rest \union {q}
          /\ rest \subseteq stream[current].handlers
        BY <1>1, <2>1 DEF Stream
    <2> HIDE DEF rest
    <2>3. /\ stream' \in [Request -> Stream]
          /\ \A m \in Request :
                /\ stream'[m].handlers = IF m = current THEN rest ELSE stream[m].handlers
                /\ stream'[m].phase = stream[m].phase
        BY <1>4, <2>1, <2>2, HandlersChange DEF Inv
    <2> QED
        BY <1>1, <1>4, <2>1, <2>2, <2>3, ForgetsKeeps
<1>5. CASE Listens(q) /\ Waits(c, q, "listen") /\ UNCHANGED <<current, stream>>
    <2>1. /\ q \in Request /\ req[q].home = "listen" /\ leaving' = leaving \union {<<c, q, "listen">>}
          /\ UNCHANGED <<req, subs, current, stream>>
        BY <1>1, <1>5 DEF Listens, Waits
    <2>2. TypeOK'
        BY <1>1, <2>1 DEF Inv, TypeOK
    <2>3. LeaversWereHome'
        <3>1. "listen" \notin Request
            BY DEF Own
        <3>2. ASSUME NEW d, NEW p, NEW n, <<d, p, n>> \in leaving', <<d, p, n>> \notin leaving
              PROVE  d = c /\ p = q /\ n = "listen"
            <4>1. <<d, p, n>> = <<c, q, "listen">>
                BY <2>1, <3>2
            <4> QED
                BY <4>1
        <3> QED
            BY <1>1, <2>1, <3>1, <3>2 DEF Inv, LeaversWereHome
    <2>4. ServedUntilAFailure'
        BY <1>1, <2>1 DEF Inv, ServedUntilAFailure, Running
    <2> QED
        BY <1>1, <2>1, <2>2, <2>3, <2>4
        DEF Inv, RequestsAndStreams, HandlersAreAtHome, EntriesHold, RivalsMet, CurrentStreamIsUsed,
            OnlyRivalsAreForgotten, HandlersHaveOwners, Running, Live
<1>6. CASE HasStream(q) /\ Emptied(rest) /\ stream' = Stopping(stream, current) /\ current' = None
           /\ Waits(c, q, current)
    <2>1. /\ q \in Request /\ current \in Request /\ rest = {}
          /\ leaving' = leaving \union {<<c, q, current>>} /\ UNCHANGED <<req, subs>>
        BY <1>1, <1>6 DEF HasStream, Emptied, Waits
    <2>2. stream[current].handlers = {q} /\ req[q].home = current
        BY <1>1, <1>2, <2>1 DEF Inv, HandlersAreAtHome
    <2>3. /\ stream' \in [Request -> Stream]
          /\ \A m \in Request :
                /\ stream'[m].phase = IF m = current THEN "stopping" ELSE stream[m].phase
                /\ stream'[m].handlers = IF m = current THEN {} ELSE stream[m].handlers
        <3>1. /\ stream' \in [Request -> Stream] /\ Ending.phase = "stopping" /\ Ending.handlers = {}
              /\ \A m \in Request : stream'[m] = IF m = current THEN Ending ELSE stream[m]
            BY <1>1, <1>6, Stops DEF Inv
        <3> QED
            BY <3>1
    <2>4. TypeOK'
        BY <1>1, <1>6, <2>1, <2>3 DEF Inv, TypeOK
    <2>5. RequestsAndStreams'
        BY <1>2, <2>1, <2>3 DEF Inv, RequestsAndStreams
    <2>6. HandlersAreAtHome'
        BY <2>1, <2>3 DEF Inv, HandlersAreAtHome
    <2>7. EntriesHold' /\ RivalsMet' /\ CurrentStreamIsUsed'
        <3>1. None \notin alone
            BY DEF Inv, TypeOK
        <3> QED
            BY <1>1, <1>6, <2>1, <3>1 DEF Inv, EntriesHold, RivalsMet, CurrentStreamIsUsed
    <2>8. LeaversWereHome'
        <3>1. \A m \in Request :
                  stream[m].phase \in {"stopping", "gone"} => stream'[m].phase \in {"stopping", "gone"}
            BY <2>3
        <3> QED
            BY <1>1, <2>1, <2>2, <2>3, <3>1 DEF Inv, LeaversWereHome
    <2>9. OnlyRivalsAreForgotten'
        BY <1>1, <2>3 DEF Inv, OnlyRivalsAreForgotten, Running
    <2>10. ServedUntilAFailure'
        <3> SUFFICES ASSUME NEW d \in here', NEW p \in Request, p = subs[d],
                            \A l \in leaving' : l[2] # p, req[p].home \notin Own
                     PROVE  \/ req[p].home \in Running' /\ p \in stream'[req[p].home].handlers
                            \/ \E m \in failed : m = req[p].home \/ m \notin alone
            BY <1>1, <2>1, <2>4 DEF ServedUntilAFailure, TypeOK
        <3>0. <<c, q, current>> \in leaving' /\ <<c, q, current>>[2] = q
            BY <2>1
        <3>1. p # q /\ \A l \in leaving : l[2] # p
            BY <2>1, <3>0
        <3>2. \/ req[p].home \in Running /\ p \in stream[req[p].home].handlers
              \/ \E m \in failed : m = req[p].home \/ m \notin alone
            BY <3>1 DEF Inv, ServedUntilAFailure
        <3> QED
            BY <2>2, <2>3, <3>1, <3>2 DEF Running
    <2>11. HandlersHaveOwners'
        BY <1>1, <1>6, <2>1 DEF Inv, HandlersHaveOwners, Live
    <2> QED
        BY <2>4, <2>5, <2>6, <2>7, <2>8, <2>9, <2>10, <2>11 DEF Inv
<1> QED
    BY <1>3, <1>4, <1>5, <1>6 DEF Leaves

LEMMA InvInit == LiveUpdatesInit => Inv
<1> SUFFICES ASSUME LiveUpdatesInit PROVE Inv
    OBVIOUS
<1> USE LiveUpdatesAssumption
<1>1. \A r \in Request : /\ req[r].pc = "idle" /\ req[r].home = None
                         /\ stream[r].phase = "none" /\ stream[r].handlers = {}
    BY DEF LiveUpdatesInit
<1>2. req \in [Request -> Subscription] /\ stream \in [Request -> Stream]
    BY DEF LiveUpdatesInit, Subscription, Stream, Pc, Phase
<1>3. TypeOK
    BY <1>1, <1>2 DEF LiveUpdatesInit, TypeOK
<1>4. \A c \in Client : subs[c] = None
    BY DEF LiveUpdatesInit
<1>5. Running = {} /\ current = None /\ leaving = {} /\ Live = {} /\ here = Client
    BY <1>1 DEF LiveUpdatesInit, Running, Live
<1> QED
    BY <1>1, <1>3, <1>4, <1>5
    DEF Inv, RequestsAndStreams, HandlersAreAtHome, EntriesHold, LeaversWereHome, RivalsMet,
        CurrentStreamIsUsed, OnlyRivalsAreForgotten, ServedUntilAFailure, HandlersHaveOwners, TypeOK

LEMMA InvStep == Inv /\ [LiveUpdatesNext]_vars => Inv'
<1> SUFFICES ASSUME Inv, [LiveUpdatesNext]_vars PROVE Inv'
    OBVIOUS
<1>1. ASSUME NEW r \in Request, Goes(r) PROVE Inv'
    BY <1>1, RejectedKeeps, JoinKeeps, StartStreamKeeps, RefusedKeeps, StartedKeeps, FallBackKeeps DEF Goes
<1>2. ASSUME NEW r \in Request, NEW c \in Client, Subscribe(r, c) PROVE Inv'
    BY <1>2, SubscribeKeeps
<1>3. ASSUME NEW n \in Request, Opened(n) \/ StreamFails(n) \/ CleanUp(n) PROVE Inv'
    BY <1>3, OpenedKeeps, StreamFailsKeeps, CleanUpKeeps
<1>4. ASSUME NEW c \in Client, Unsubscribe(c) PROVE Inv'
    BY <1>4, LeavesKeeps DEF Unsubscribe, history
<1>5. ASSUME NEW c \in Client, Disconnect(c) PROVE Inv'
    BY <1>5, LeavesKeeps DEF Disconnect
<1>6. CASE Left
    <2>1. PICK l \in leaving : Leave(l[1], l[2], l[3])
        BY <1>6 DEF Left
    <2>2. leaving \subseteq Client \X Request \X (Request \union {"listen"})
        BY DEF Inv, TypeOK
    <2>3. /\ l[1] \in Client /\ l[2] \in Request /\ l[3] \in Request \union {"listen"}
          /\ l = <<l[1], l[2], l[3]>>
        BY <2>1, <2>2
    <2> QED
        BY <2>1, <2>3, LeaveKeeps
<1>7. CASE UNCHANGED vars
    BY <1>7
    DEF vars, Inv, TypeOK, RequestsAndStreams, HandlersAreAtHome, EntriesHold, LeaversWereHome, RivalsMet,
        CurrentStreamIsUsed, OnlyRivalsAreForgotten, ServedUntilAFailure, HandlersHaveOwners, Running, Live
<1> QED
    BY <1>1, <1>2, <1>3, <1>4, <1>5, <1>6, <1>7 DEF LiveUpdatesNext

LEMMA InvHolds == Spec => []Inv
BY InvInit, InvStep, PTL DEF Spec

(* Every variable keeps its type, and who holds a subscription holds what  *)
(* ends it.                                                                *)
THEOREM TypeCorrect == Spec => []TypeOK
<1>1. Inv => TypeOK
    BY DEF Inv
<1> QED
    BY <1>1, InvHolds, PTL

(* The stream of the table runs and has a handler, so the reaper is idle.  *)
THEOREM StreamsInUse == Spec => []CurrentStreamIsUsed
<1>1. Inv => CurrentStreamIsUsed
    BY DEF Inv
<1> QED
    BY <1>1, InvHolds, PTL

(* A stream is forgotten only if its start met another.                    *)
THEOREM ForgottenAreRivals == Spec => []OnlyRivalsAreForgotten
<1>1. Inv => OnlyRivalsAreForgotten
    BY DEF Inv
<1> QED
    BY <1>1, InvHolds, PTL

(* No subscriber is cut off but by a failure.                              *)
THEOREM SubscribersAreServed == Spec => []ServedUntilAFailure
<1>1. Inv => ServedUntilAFailure
    BY DEF Inv
<1> QED
    BY <1>1, InvHolds, PTL

(* A handler without an entry was overtaken by its client.                 *)
THEOREM HandlersAreOwned == Spec => []HandlersHaveOwners
<1>1. Inv => HandlersHaveOwners
    BY DEF Inv
<1> QED
    BY <1>1, InvHolds, PTL
=============================================================================
