----------------------------- MODULE LiveUpdates -----------------------------
(***************************************************************************)
(* Live updates of one table: the sockets of realtime.gateway.ts and the   *)
(* replication streams of cdc.service.ts that they share.  One event loop  *)
(* runs the callbacks; an action is what runs between two awaits.  A       *)
(* stream is named for the request that started it.                        *)
(***************************************************************************)
EXTENDS Naturals, FiniteSets

CONSTANTS
    Client,     \* sockets; one that went away does not come back
    Request,    \* bound: subscribe messages
    None,
    MaxFailures \* bound: streams that fail

Own == {"listen", "poll"}   \* a LISTEN connection, or a timer: nobody shares it

ASSUME LiveUpdatesAssumption ==
    /\ None \notin Request \union Client \union Own
    /\ Own \intersect Request = {}
    /\ MaxFailures \in Nat

VARIABLES
    here,     \* clients connected
    req,      \* req[r]: whose it is, how far, and the stream it was given
    subs,     \* subs[c]: the request whose unsubscribe function is kept for c
    current,  \* streams.get(key)
    stream,   \* stream[r]: its state and handlers
    leaving,  \* <<c, q, n>>: waits for the end of n to forget c's q
    lost,     \* history: requests whose entry was never kept, or overwritten
    alone,    \* history: streams whose start met no other
    failed    \* history: streams that failed

vars == <<here, req, subs, current, stream, leaving, lost, alone, failed>>
history == <<lost, alone, failed>>

Pc == {"idle", "checking", "creating", "falling", "holding", "over"}
Phase == {"none", "creating", "opening", "streaming", "failed", "stopping", "gone"}
Running == {n \in Request : stream[n].phase \in {"opening", "streaming"}}

LiveUpdatesInit ==
    /\ here = Client
    /\ req = [r \in Request |-> [pc |-> "idle", client |-> None, home |-> None]]
    /\ subs = [c \in Client |-> None]
    /\ current = None
    /\ stream = [r \in Request |-> [phase |-> "none", handlers |-> {}]]
    /\ leaving = {}
    /\ lost = {}
    /\ alone = Request
    /\ failed = {}

----------------------------------------------------------------------------
(* A subscription.                                                         *)
Subscribe(r, c) ==
    /\ req[r].pc = "idle"
    /\ c \in here
    /\ req' = [req EXCEPT ![r] = [pc |-> "checking", client |-> c, home |-> None]]
    /\ UNCHANGED <<here, subs, current, stream, leaving, history>>

(* No such connection, or no role in it.                                   *)
Rejected(r) ==
    /\ req[r].pc = "checking"
    /\ req' = [req EXCEPT ![r].pc = "over"]
    /\ UNCHANGED <<here, subs, current, stream, leaving, history>>

(* The gateway keeps what it was given, over what it kept before, and      *)
(* whether or not the socket is still there.                               *)
Hold(r, home) ==
    LET c == req[r].client IN
    /\ req' = [req EXCEPT ![r].pc = "holding", ![r].home = home]
    /\ subs' = [subs EXCEPT ![c] = r]
    /\ lost' = lost \union ({subs[c]} \ {None}) \union (IF c \in here THEN {} ELSE {r})

Join(r) ==
    /\ req[r].pc = "checking"
    /\ current # None
    /\ stream' = [stream EXCEPT ![current].handlers = @ \union {r}]
    /\ Hold(r, current)
    /\ UNCHANGED <<here, current, leaving, alone, failed>>

StartStream(r) ==
    LET starting == {q \in Request : req[q].pc = "creating"} IN
    /\ req[r].pc = "checking"
    /\ current = None
    /\ req' = [req EXCEPT ![r].pc = "creating"]
    /\ stream' = [stream EXCEPT ![r].phase = "creating"]
    /\ alone' = IF starting = {} THEN alone ELSE alone \ (starting \union {r})
    /\ UNCHANGED <<here, subs, current, leaving, lost, failed>>

(* Too many streams, no such privilege, or no publication.                 *)
Refused(r) ==
    /\ \/ req[r].pc = "checking" /\ current = None
       \/ req[r].pc = "creating"
    /\ req' = [req EXCEPT ![r].pc = "falling"]
    /\ stream' = [stream EXCEPT ![r].phase = "none"]
    /\ UNCHANGED <<here, subs, current, leaving, history>>

Started(r) ==
    /\ req[r].pc = "creating"
    /\ stream' = [stream EXCEPT ![r] = [phase |-> "opening", handlers |-> {r}]]
    /\ current' = r
    /\ Hold(r, r)
    /\ UNCHANGED <<here, leaving, alone, failed>>

(* Without a stream: LISTEN, or a poll if that fails.                      *)
FallBackToNothing(r) ==
    /\ req[r].pc = "falling"
    /\ Hold(r, None)
    /\ UNCHANGED <<here, current, stream, leaving, alone, failed>>
FallBack(r) ==
    /\ req[r].pc = "falling"
    /\ \E home \in Own : Hold(r, home)
    /\ UNCHANGED <<here, current, stream, leaving, alone, failed>>

----------------------------------------------------------------------------
(* The streams.  teardown goes by the key of the table.                    *)
Ending == [phase |-> "stopping", handlers |-> {}]
StoppingOnlyForgets(streams, n) == streams
Stopping(streams, n) == IF n = None THEN streams ELSE [streams EXCEPT ![n] = Ending]

Opened(n) ==
    /\ stream[n].phase = "opening"
    /\ stream' = [stream EXCEPT ![n].phase = "streaming"]
    /\ UNCHANGED <<here, req, subs, current, leaving, history>>

StreamFails(n) ==
    /\ n \in Running
    /\ Cardinality(failed) < MaxFailures
    /\ failed' = failed \union {n}
    /\ stream' = Stopping([stream EXCEPT ![n].phase = "failed"], current)
    /\ current' = None
    /\ UNCHANGED <<here, req, subs, leaving, lost, alone>>

(* stop, then drop the publication and the slot, or fail to.               *)
CleanUp(n) ==
    /\ stream[n].phase = "stopping"
    /\ stream' = [stream EXCEPT ![n].phase = "gone"]
    /\ UNCHANGED <<here, req, subs, current, leaving, history>>

----------------------------------------------------------------------------
(* unsubscribe, and the end of a socket: the handler is taken from the     *)
(* stream the table has now; whoever empties it waits for its teardown     *)
(* before the entry is deleted, and so does who ends a LISTEN.             *)
ForgetsTheEntryOnly(c, q) == subs' = [subs EXCEPT ![c] = None] /\ UNCHANGED req
Forgets(c, q) ==
    /\ subs' = [subs EXCEPT ![c] = None]
    /\ req' = IF q = None THEN req ELSE [req EXCEPT ![q].pc = "over"]

EmptiedIsLeftToTheReaper(handlers) == FALSE
EmptiedByAnyone(handlers) == TRUE
Emptied(handlers) == handlers = {}
HasStream(q) == q # None /\ req[q].home \notin Own /\ current # None
Listens(q) == q # None /\ req[q].home = "listen"
Waits(c, q, n) == leaving' = leaving \union {<<c, q, n>>} /\ UNCHANGED <<req, subs>>

Leaves(c) ==
    LET q == subs[c]
        rest == stream[current].handlers \ {q}
    IN  \/ /\ ~HasStream(q) /\ ~Listens(q)
           /\ Forgets(c, q)
           /\ UNCHANGED <<current, stream, leaving>>
        \/ /\ Listens(q)
           /\ Waits(c, q, "listen")
           /\ UNCHANGED <<current, stream>>
        \/ /\ HasStream(q)
           /\ ~Emptied(rest)
           /\ stream' = [stream EXCEPT ![current].handlers = rest]
           /\ Forgets(c, q)
           /\ UNCHANGED <<current, leaving>>
        \/ /\ HasStream(q)
           /\ Emptied(rest)
           /\ stream' = Stopping(stream, current)
           /\ current' = None
           /\ Waits(c, q, current)

Unsubscribe(c) ==
    /\ c \in here
    /\ subs[c] # None
    /\ Leaves(c)
    /\ UNCHANGED <<here, history>>

Disconnect(c) ==
    /\ c \in here
    /\ here' = here \ {c}
    /\ Leaves(c)
    /\ UNCHANGED history

Leave(c, q, n) ==
    /\ n \in {"listen"} \union {m \in Request : stream[m].phase = "gone"}
    /\ leaving' = leaving \ {<<c, q, n>>}
    /\ Forgets(c, q)
    /\ lost' = lost \union ({subs[c]} \ {None, q})
    /\ UNCHANGED <<here, current, stream, alone, failed>>

Goes(r) == Rejected(r) \/ Join(r) \/ StartStream(r) \/ Refused(r) \/ Started(r) \/ FallBack(r)
Left == \E l \in leaving : Leave(l[1], l[2], l[3])

LiveUpdatesNext ==
    \/ \E r \in Request : Goes(r) \/ \E c \in Client : Subscribe(r, c)
    \/ \E n \in Request : Opened(n) \/ StreamFails(n) \/ CleanUp(n)
    \/ \E c \in Client : Unsubscribe(c) \/ Disconnect(c)
    \/ Left

Spec == LiveUpdatesInit /\ [][LiveUpdatesNext]_vars

----------------------------------------------------------------------------
Subscription ==
    [pc : Pc, client : Client \union {None}, home : Request \union Own \union {None}]
Stream == [phase : Phase, handlers : SUBSET Request]

(* Types; whoever holds a subscription holds something that ends it.       *)
TypeOK ==
    /\ here \subseteq Client
    /\ req \in [Request -> Subscription]
    /\ \A r \in Request : req[r].pc = "holding" => req[r].home # None
    /\ subs \in [Client -> Request \union {None}]
    /\ current \in Request \union {None}
    /\ stream \in [Request -> Stream]
    /\ leaving \subseteq Client \X Request \X (Request \union {"listen"})
    /\ lost \subseteq Request /\ alone \subseteq Request /\ failed \subseteq Request

(* The table's stream runs and somebody listens to it: every way out of a  *)
(* subscription that empties it tears it down, so the reaper, which looks  *)
(* for streams without handlers, never finds one.                          *)
CurrentStreamIsUsed ==
    current # None => current \in Running /\ stream[current].handlers # {}

(* "one replication connection per table": a stream that nobody can tear   *)
(* down any more comes from two first subscribers whose starts met; the    *)
(* later one took the place of the earlier.                                *)
OnlyRivalsAreForgotten == Running \intersect alone \subseteq {current}

(* A subscriber is cut off only by a failure of its own stream, or by that *)
(* of a forgotten one, whose teardown takes the stream the table has now.  *)
ServedUntilAFailure ==
    \A c \in here :
        LET q == subs[c] IN
        /\ q # None /\ \A l \in leaving : l[2] # q
        /\ req[q].home \notin Own
        => \/ req[q].home \in Running /\ q \in stream[req[q].home].handlers
           \/ \E n \in failed : n = req[q].home \/ n \notin alone

(* A handler or a timer without an entry that would end it comes from a    *)
(* subscription overtaken by its client: it left, or subscribed again, or  *)
(* the entry was deleted by an unsubscribe that had waited.                *)
Live == {r \in Request : req[r].home \in Own /\ req[r].pc = "holding"} \union
        (IF current = None THEN {} ELSE stream[current].handlers)
HandlersHaveOwners ==
    \A r \in Live : r \in lost \/ subs[req[r].client] = r
=============================================================================
