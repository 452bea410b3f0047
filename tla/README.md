# DB Studio in TLA+

DB Studio is a multi-tenant database workbench: a browser front end, a backend that runs queries on its
customers' databases, and a small agent that lets a customer keep a database behind his own firewall.
The repository holds **two backends** for the same front end and the same agents: v1 (TypeScript,
NestJS, Prisma, `src/backend`) and v2 (Rust, axum, sqlx, `src/v2/backend`), which reads v1's tables and
Redis keys and speaks v1's wire protocols. The agent is Go (`src/agent`).

This directory contains TLA+ models of the parts whose correctness depends on the order in which things
happen, the TLC configurations that check them on small instances, and proofs of their most important
invariants for every instance. `PROJECT.json` lists, for each definition, the source lines it models; the
hazards and the properties that would catch them; the runs; the theorems.

Contents: [1 Inventory](#1-inventory) · [2 Modules](#2-modules) ·
[3 What is abstracted](#3-what-is-abstracted) · [4 Properties and runs](#4-properties-and-runs) ·
[5 Bounds](#5-bounds) · [6 Fairness and deadlock](#6-fairness-and-deadlock) ·
[7 Divergences](#7-divergences) · [8 Proofs](#8-proofs) · [9 Not modelled](#9-not-modelled) ·
[10 Plan](#10-plan) · [11 Running](#11-running)

## 1 Inventory

### Agent tunnel (modelled)

A paired agent dials the backend's `/agent-ws` WebSocket, says `hello`, and from then on the backend can ask
it to `open` TCP connections to databases near it. Bytes travel as binary frames that name their stream.
To a database driver in the backend the tunnel is a loopback TCP port.

| part | state | operations |
|---|---|---|
| v1 gateway `agent.gateway.ts` | one handler per socket, `ws.conn` | accept, verify token, reject, dispatch a frame, mint the refresh token, close |
| v1 registry `agent-registry.service.ts` | `agents` (agent id → connection); per connection `seq`, `streams`, `pending` with a 15 s timer each | register/replace, deregister, open, opened, openerr, close, data, teardown |
| v1 bridge `agent-tunnel.service.ts` | one loopback server per tunnel; per socket the promise of a stream, then the wiring | await `openStream`, wire both ends, shut down |
| v2 `tunnel.rs` | `registry()` and `ConnInner` behind mutexes, a queue of frames per session, a channel per stream | the same, as a session task and one bridge task per stream with `copy_bidirectional` |
| agent `client.go` | `Client`: stream table under a mutex, one writer channel | read loop, a goroutine per stream (dial, register, answer, pump), teardown |

*Interaction.* One FIFO channel in each direction per session. Several sessions of one agent coexist when
the agent's network failed and it dials again before the backend noticed.
*Hard.* Callbacks interleave with promise continuations (v1), tasks with locks (v2), goroutines with the
read loop (agent); opens race with time-outs, hang-ups and session loss; the registry must name the right
session while an old socket dies late.
*Correct when.* The registry holds the live session and only its own socket evicts it; every open is
answered and every slot given back exactly once; bytes arrive in order and complete; a close at one end
closes the other.

### Billing (modelled in part)

A workspace buys a period through a payment link of a provider. `PaymentAttempt` rows record attempts, the
`Subscription` row says what the workspace is entitled to.

| part | state | operations |
|---|---|---|
| checkout | an attempt `PENDING`, then the link's id | create the attempt, ask the provider, store the id (or mark `FAILED`) |
| reconcile | one database transaction | read the attempt, mark it, read the subscription, extend it, commit |
| webhook, verify-on-return | the two callers of reconcile | notices at any time, any number of times; a customer who comes back |
| lifecycle sweep (v1's daily timer, for both backends) | `Subscription.status` | lapsed → `PAST_DUE`, past grace → `SUSPENDED` |
| trial | the `Subscription` row of a personal workspace | inserted at sign-up, retried at each log-in |

*Hard.* Notices repeat, cross and overtake one another; a notice, the customer's return and the sweep
touch the same rows at once; a process dies in the middle of a transaction.
*Correct when.* A settled attempt stays settled; each payment is credited once and in full; an open period
is never taken away; a payment is settled in the end.

### Scheduled queries (modelled in part)

v2's scheduler polls the `ScheduledQuery` rows that are due. For each it moves `nextRunAt` to the next
occurrence, then spawns a task that runs the query, judges the alert condition, stamps `lastAlertedAt` and
notifies. Users edit, remove and nudge ("run now") the same rows.

*State.* The row; the tick with the row as it read it; the spawned tasks, each with its copy; two clocks, the
database's and the process's.
*Hard.* A run may outlive its interval, so tasks of one schedule overlap; the cooldown is judged by a copy;
an edit is two statements; the process dies between moving the row on and running; what is due is found by the
database's `now()` (`scheduler.rs:76`), but moved on by the process's clock (`:157`), which may be behind it.
*Correct when.* An occurrence is run at most once, unless a slow clock computes it again; the cooldown holds between runs that do not overlap; an
edit leaves at most one run at an old time; what is due is run in the end.

### Sessions (modelled in part)

v1 issues refresh tokens and rotates them; a token used again after its rotation ends all sessions. A
password change or reset ends them too; a reset link is to work once.

*State.* `RefreshToken` and `PasswordReset` rows; requests between their statements.
*Hard.* Each request reads a row, spends long in hashes or in the next statement, and writes without a
condition on what it read; it may die in between.
*Correct when.* A login stays one line of tokens; a rotated token does not work; after a sweep no older
login works; a link resets once. None holds without exception, and the properties say exactly which
overlaps and deaths the exceptions need.

### Live updates (modelled in part)

Sockets of v1's realtime gateway subscribe to tables. `cdc.service.ts` keeps one replication stream per table
and shares it among the subscribers; where there is none, the gateway listens or polls for that socket.

*State.* The gateway's map of unsubscribe functions, the service's map of streams, each stream's handlers.
*Hard.* Every operation reads a map, awaits and writes it; clients leave or subscribe again meanwhile; a
stream fails while another start is under way, and tears down by table and not by stream.
*Correct when.* The table's stream runs and has a handler; no stream is forgotten; subscribers are served;
each handler has an owner that ends it. The last three are qualified by the overlaps that break them.

### Query result cache (modelled)

v1 keeps results of SELECTs in Redis, with an index from each table to the entries that read it; a write
deletes the entries of the table that its text is found to name, or all entries if it is found to name none. Storing and invalidating go on after the answer was sent.

*State.* Entries and indexes, each with a time to live.
*Hard.* A read may be stored after the write that makes it stale; an entry may be stored between the two
steps of an invalidation; an index may expire before what it points to; Redis may fail; a write may name one table and
change others (`TRUNCATE a, b`, a cascade), be misread, or not be a statement of the query endpoint at all.
*Correct when.* A stale entry is about to be deleted, unless it was stored past an invalidation, one was lost, or the
write that made it stale did not look for it;
each entry can be found through each of its tables; nothing stays wrong for longer than the time to live.

### Interaction between these components

They share the process and, for the scheduler and billing, the database, but no state: no action of one
reads a variable of another. They are therefore modelled apart, and composition is modelled where there is some:
server and agent, server and drivers, readers and writers of the cache, gateway and stream service.

### Components not modelled

| component | state | what is hard | correct when |
|---|---|---|---|
| automatic backups (`autobackup.rs`) | objects under a prefix | retention sorts names that several schedules share | the newest copies of each connection are kept |
| server-side cursors (`cursor.service.ts`) | open cursors | the cap is read before awaits | cap respected, every cursor closed |
| seats, invites, quotas | counts read before rows are created | two requests pass one count | the limit is respected |
| agent pairing and reconnect (`pair.go`, `main.go`) | a pairing code, a back-off | a session's goroutines outlive it | the agent comes back |
| job queue (v1 `scheduler.worker.ts` and BullMQ) | jobs, attempts | a retry after success | one success per job |
| everything else | | single statements, text processing, user interface | see section 9 |

## 2 Modules

```
TunnelWire ─┬─ AgentServer ──┬─ AgentTunnel ───┬─ MCAgentTunnel
            │                │                 └─ AgentTunnelProofs ───┐
            ├─ AgentClient ──┤                                         ├─ AgentClientProofs
            │                │                 ┌─ AgentTunnelRsProofs ─┘
            └─ AgentServerRs ┴─ AgentTunnelRs ─┴─ MCAgentTunnelRs
ByteStreams ······refined by······ AgentTunnelRs

Billing ──── BillingProofs         PaymentLedger ······refined by······ Billing

Scheduler ── SchedulerProofs       AuthSessions ─┬─ MCAuthSessions
                                                 └─ AuthSessionsProofs
LiveUpdates ─┬─ MCLiveUpdates      QueryCache ───┬─ MCQueryCache
             └─ LiveUpdatesProofs                └─ QueryCacheProofs
```

| module | models | correspondence |
|---|---|---|
| `TunnelWire` | one WebSocket per session: its life, a FIFO of frames each way | frames of `AGENT_TUNNEL_PROTOCOL.md` as the code parses them; a frame sent on a dead socket is discarded, a frame that arrived before the end can still be read |
| `AgentServer` | v1's gateway, registry and bridge | one action per callback: `Accept`/`AuthOk`/`AuthRejects` (connection handler and its awaits), `FrameUnheard` (a frame emitted while there is no listener), `On…` (frame handlers), `OpenTimesOut` (timer), `ResumeBridge` (what follows `await openStream()`), `DriverWrites`/`DriverCloses`/`DrainEnds` (loopback socket events), `SocketCloses` |
| `AgentClient` | the agent's `Client` | one action per locked section of the read loop (`Handle…`) and of a stream's goroutine (`DialSucceeds`, `SendOpened`, `PumpReads`, `PumpSends`, …), `ClientEnds` (teardown) |
| `AgentTunnel` | both, interleaved | properties, fairness, protocol promises the code breaks |
| `AgentServerRs` | v2's session task and bridge tasks | one action per critical section or channel use: register is `OnHello` (registry lock) then `FinishRegister` (connection lock), deregister is `SocketCloses` then `Evict`; `CopyChunk`, `DriverEof`, `StreamEof`, `DriverWrites` are `copy_bidirectional` |
| `AgentTunnelRs` | v2's server with the same agents | properties, fairness, the refinement mapping to `ByteStreams` |
| `ByteStreams` | what a tunnel promises a driver | a connection is answered once; what arrives is what was sent, in order, without a gap, until its end |
| `Billing` | checkout, provider, notices, reconcile, sweep, trial | reconcile is one action per statement (`ReadFresh`, `MarkPaid`, `ReadSubscription`, `Settle`, `MarkFailed`); row locks are explicit; writes appear at the commit |
| `PaymentLedger` | what billing promises a workspace | each payment is credited once and moves the end of the period by a whole period from that end, or from a moment not in the future |
| `Scheduler` | one schedule of v2 with an alert condition | the tick is `Poll` (the due query), `Advance` or `AdvanceFails`, `Disable`, `Spawn`; a task is `Start`, `Succeeds` or `Fails`, `Record`, `Stamp`, `Notify`, one per statement; `Update` and `ResetNext` are the two statements of an edit |
| `AuthSessions` | the refresh tokens and reset links of one user of v1 | a request is one action per statement or transaction, in the order of the code: `Refresh` reads, `Issue` inserts, `Retire` revokes; `ChangePassword` reads, `Change` is the transaction; `CompleteReset` reads the link, `Reset` is the transaction |
| `LiveUpdates` | the subscriptions of one table of v1 | an action is what the event loop runs between two awaits: `Subscribe`, `Join` (a stream is there) or `StartStream`, `Started`, `FallBack`, and `Forgets`/`Waits`/`Leave` on the way out; `Opened`, `StreamFails`, `CleanUp` are the stream's callbacks |
| `QueryCache` | the cache of one connection of v1 | `Miss`, `Run`, `Store` are a SELECT; `Write`, `Collect`, `Delete`, `Unlink` a write and its invalidation, one action per Redis command or MULTI; `WriteUnseen` is a write that invalidates nothing; `Passes` is a second of expiry |
| `MC…` | | symmetry sets and the tables of the queries, for TLC |
| `…Proofs` | | theorems and their lemmas |

Some modelled definitions stand beside a variant (`NextIdByCount` beside `NextId`, `NeverLocked` beside
`LockedForUpdate`): a plausible mistake in that place. Nothing uses the variants in a run; each exists to
show that a property fails when the code makes that mistake (`PROJECT.json`, "mutants").

## 3 What is abstracted

* **Frames and bytes.** A frame is its kind and stream; a chunk is its position. That is enough to see a
  loss, a repetition, a swap or a chunk in the wrong stream. JSON and the binary header are not modelled.
* **Stream ids** are `1, 2, …` per session, as `` `s${++seq}` `` and `fetch_add(1) + 1` make them.
* **Ping timers** end sessions; since either end may end a session at any time, nothing else of them is kept.
* **Time-outs** may fire whenever what they wait for has not happened.
* **A dead socket** is noticed by each end on its own. v2's outgoing queue and the wire are one channel: what
  is in either is lost with the socket.
* **A dropped stream and its close** are one step of the agent (`DropAndNotify`). The code forgets the stream under its mutex
  (`client.go:441-452`) and enqueues the close afterwards (`:401`, `:433`). The two commute: nobody finds the stream
  in between, and a chunk that its pump enqueues in between is one that `PumpSends` enqueues before the step here.
  Only the close of one stream and the frames of others may change places, and no property relates those.
* **What the agent holds** is dropped with its session, except a dial in progress, which the code does not
  cancel either.
* **Writes to a database or driver** end; back-pressure is not modelled.
* **Transactions** see rows as committed at each statement (READ COMMITTED), their own writes appear at
  the commit, a row they wrote or read `FOR UPDATE` makes others wait. A lost process or connection (`Abort`)
  leaves nothing behind.
* **Amounts** are "paid" or "mispaid" (guarded against by reconcile; a webhook without a total passes the
  guard, as in the code). **Days** are the unit of all periods.
* **One of each**: one schedule, one user, one table with live updates, one connection's cache. The code keeps
  no state across them (rows and keys of their own), but for streams and timers of the process, which are per table.
* **Scheduler**: minutes; a cron expression is its period, or one that cannot be parsed. The database's clock is `now`; each
  reading of the process's clock is up to `Skew` minutes off it, either way and independently of the last one. (Less than
  a minute is enough to be off by one at a boundary.) The database's clock finds what is due, stamps the row and sets
  `nextRunAt` on a nudge; the process's computes the next occurrence and judges the cooldown. Whether an alert condition
  is met is a free choice. Rows about runs, the query itself and the delivery of reports are left out.
* **Sessions**: hashes, the second factor, the login cooldown, expiry and mails are left out: a token that would be
  refused on these grounds is one nobody presents. `MaxFaults` bounds requests that die between statements.
* **Live updates**: the cap on streams is a free refusal (`Refused`), change messages are left out, and a
  `stop()` of the replication client ends some time after it was called.
* **Cache**: the tables of a SELECT are a constant (`Reads`): those that `extractTables` finds. A table it overlooks (the second
  of a comma-joined `FROM`) is for the model one that the query does not read. For a write, what it changes and what is
  invalidated are chosen apart: any tables are written, and one of them, another table, all or none are looked
  for. That covers what `extractWriteTarget` takes from `UPDATE ONLY t`, `ALTER TABLE IF EXISTS t` (a
  table that there is not), `TRUNCATE a, b` (the first) and cascades, as well as CSV imports, which never invalidate. The
  regular expression itself is not modelled. A result is what it saw: the last write of each of its
  tables. `SCAN` is one step, although the code loops over its batches.
* **`RowLocks`** is the one difference between the backends' transactions: TRUE is v2's `FOR UPDATE`, FALSE
  v1's plain reads. **`Personal`** says that the workspace is a personal one, whose trial row precedes any
  checkout. The trial's insert is best effort at sign-up and repeated at each log-in, and checkout needs a log-in.

## 4 Properties and runs

| run (configuration) | question | properties |
|---|---|---|
| `tunnel_v1_sessions` (`AgentTunnel_sessions.cfg`) | two sessions replace and outlive each other | `TypeOK`; `RegistryHoldsTheLive` (the registered session is the one live, served connection); `OnlyTheLiveHasStreams` |
| `tunnel_v1_streams` (`AgentTunnel_streams.cfg`) | two opens compete for one slot, with data, time-outs and hang-ups | `SlotsBounded`; `DatabaseEndIsAnnounced`; `DriverBytesIntact` (the database is given the first of the driver's chunks, in order; the rest is on the wire while both ends hold the stream); `IdsAreNotReused`; `EveryOpenSettles`; `DeadSessionGoesOffline` |
| `tunnel_v2_sessions` (`AgentTunnelRs_sessions.cfg`) | registration and eviction in two steps each, against opens on connections looked up earlier | `TypeOK`; `LiveIsRegisteredOrDoomed`; `SlotsAreHeld` (each slot belongs to a bridge that will give it back, and who waits can be answered) |
| `tunnel_v2_refines` (`AgentTunnelRs_refines.cfg`) | two chunks each way on one stream: do bytes arrive, and do ends? | `ImplementsByteStreams` (refinement: database to driver); `DriverBytesIntact` (driver to database); `EndsPropagate` (a hang-up or close at either end reaches the other, whatever is still queued) |
| `tunnel_v2_fair` (`AgentTunnelRs_fair.cfg`) | two opens compete for one slot: does each return? | `EveryOpenSettles` |
| `billing` (`Billing_v2.cfg`) | two payments, two requests at a time, repeated and crossing notices, a returned payment, a crash, lapses | `TypeOK`; `OpenPeriodIsEntitled`; `TerminalIsFinal`; `EachPaymentIsCreditedOnce` (refinement of `PaymentLedger`); `PaymentsSettle` |
| `scheduler` (`Scheduler.cfg`) | ticks, runs, edits, nudges, removal, failures and a crash in every order | `TypeOK`; `OccurrenceFiresOnce`; `CooldownUnlessOverlapping`; `AnEditMisfiresOnce`; `WhatIsDueFires` |
| `sessions` (`AuthSessions.cfg`) | two requests at a time: logins, refreshes, sweeps, changes, resets, one of which dies | `TypeOK`; `RotatedTokensAreRetired`; `ForksComeFromOverlaps`; `SurvivorsWereSpared`; `LinksAreUsedOnce` |
| `live_updates` (`LiveUpdates.cfg`) | three subscriptions of two sockets to one table, with two failing streams | `TypeOK`; `CurrentStreamIsUsed`; `OnlyRivalsAreForgotten`; `ServedUntilAFailure`; `HandlersHaveOwners` |
| `query_cache` (`QueryCache.cfg`) | reads of one and of two tables, two writers, expiry, a lost invalidation | `TypeOK`; `StaleEntriesAreAboutToGo`; `EntriesAreIndexed`; `StaleEntriesExpire` |
| two runs that end in a counterexample | see section 7 | `CloseIsMutual` (v1); `EachPaymentIsCreditedOnce` without a Subscription row |

What they show, in one sentence each. v1's registry and tables stay consistent however sessions overlap,
and each open is settled, but promises of the protocol document fail in windows of one callback. v2
closes those windows but one, delivers bytes exactly and gives every slot back. Billing credits each payment
once as long as the workspace has a Subscription row to lock, and settles it. A schedule's occurrence is run once, or
once more by a slow clock, and its edits leave one stray run at most, although runs overlap. A user's logins fork, and survive a sweep, only through
overlapping or dying requests. Streams are forgotten only when two first subscribers meet. The cache may serve a
stale result if it was stored past an invalidation, if an invalidation was lost or if a write did not look for it, and
then only until it expires.

Several properties have the form "never, unless two requests met". The exception is recorded by a history
variable at the step where the meeting happens (`contested`, `torn`, `spared`, `alone`, `lost`, `exposed`, `missed`, `lapses`), and not
inferred from the outcome. A history variable guards nothing.

## 5 Bounds

| constant | value | why it is enough to see the interesting cases |
|---|---|---|
| `Session` | 2 in the session runs, 1 elsewhere | replacement, late death of the old socket and eviction need two; data and streams of different sessions share nothing but the registry |
| `MaxStreams` | 1 | the cap is reached by the first stream, so every slot matters |
| `MaxOpens` | 2 where slots are contended, else 1 | the second open needs the slot the first gives back; ids 1 and 2 show reuse |
| `MaxChunks` | 2 in `tunnel_v2_refines`, 1 in `tunnel_v1_streams`, else 0 | a gap or a swap needs a second chunk; session runs need none. With one, v1's `DriverBytesIntact` shows loss, repetition and misdelivery, but no swap: that rests on the theorem `DriverBytesArrive` (and the agent, which takes the chunks, is the same as v2's). With two, liveness is out of reach there |
| `Attempt`, `Handler` | 2, 2 | a payment stacked on another's period; two requests for one attempt, or one for each |
| `Period`, `Trial`, `Grace` | 1, 1, 0 | the shortest that differ from nothing |
| `MaxDay` | 4 | day 1 starts a trial that ends on 2; paid to 3; lapsed on 4 |
| `MaxAborts` | 1 | a crash at any step, and what the others do after it |
| `Cron`, `Cooldown` | periods 1 and 2 and a bad one; 2 | an edit to a longer, a shorter and a bad expression; a cooldown longer than the shortest interval |
| `MaxTime`, `MaxExtras`, `MaxEdits` | 3, 1, 1 | three occurrences, the third out of the first one's cooldown; an edit, and a nudge or a lapse, at any moment of them |
| `Skew` | 1 | clocks that disagree at the boundary of a minute, in either direction |
| `MaxTokens`, `MaxLinks`, `MaxSweeps` | 3, 2, 2 | a login with two successors of one token; two links; a sweep over what survived another |
| `Client`, `Request` (live updates) | 2, 3 | two first subscribers, and a third that joins or replaces; a client that subscribes again |
| `MaxFailures` | 2 | the forgotten stream fails and the current one |
| `Table`, `Query` | 2, 2 | a query of one table and one of both, so that an index can be lost for one table only |
| `Reader`, `Writer`, `MaxWrites` | 1, 2, 2 | a store between the steps of one invalidation, and of two; two writes in all, each of one table or both, seen or unseen; one reader stores again and again |
| `TTL`, `IndexExtra` | 2, 1 | entries of different ages under one index; an index that outlives its entry |
| `MaxFaults` | 1 | one lost statement or invalidation, or one dead request or process, at any step |

Symmetry is used in safety runs only: sessions, clients and requests are created equal and no property
names one of them. The runs of the last four modules are of 0.2 to 2.1 million states; where a proof covers the same
property (section 8), the bounds matter only to the model's meaning, not to the result.

## 6 Fairness and deadlock

*Tunnel.* Weak fairness on what the runtime does by itself: frames that arrived are read, timers fire,
promises resume, runnable tasks run, each end notices a dead socket, and, for v1, the agent's dials end one way
or the other (v2's properties do without). In v1 it
is stated per handler class because one event loop runs all due callbacks; in v2 per task because tokio polls
every woken task. A driver never has to connect, send or hang up, a database never has to answer with bytes or
close, a socket never has to die and none has to live.

*Billing.* A request that began goes on (weak fairness). The provider repeats the notice of a payment until it
was received (strong fairness: requests in progress may make the handler busy in between). That is an assumption
about the provider; without it a payment whose customer does not return stays `PENDING`. Crashes are
bounded, since a request that crashes for ever settles nothing.

*Scheduler.* Weak fairness on the tick's own steps: its loop wakes every 20 seconds and depends on its database alone.
Tasks, requests and the clock are not fair: `WhatIsDueFires` does not need a run to end.

*Cache.* Weak fairness on the passing of time, which is what Redis' expiry is. Neither readers nor
invalidations are fair: `StaleEntriesExpire` is about the backstop, not about them.

*Sessions and live updates* have safety properties only: their code retries nothing, so that whatever is to
happen depends on a client.

*Deadlock* is not checked (`CHECK_DEADLOCK FALSE`): opens, chunks, payments, days and sessions are bounded and
sessions end for good, time and tokens run out, so a run may really come to its end. That nobody waits for ever is said
by `SlotsAreHeld`, `EveryOpenSettles`, `EndsPropagate`, `PaymentsSettle` and `WhatIsDueFires`.

## 7 Divergences

Two are kept as runs, whose counterexample is the shortest behaviour that TLC finds against a sentence of the repository:

1. **A close need not be mutual (v1).** `AGENT_TUNNEL_PROTOCOL.md:92`. `CloseIsMutual` has four parts, each of
   which fails on its own: `NoOrphanConnection` (an open that timed out is connected afterwards),
   `ReplacedStreamsAreClosed` (register tears down the old session's streams without telling its agent),
   `CloseReachesDriver` (a close handled before `onClose` is set), `HangUpFreesStream` (a driver that hung up
   before its end was listened for). Run `tunnel_v1_CloseIsMutual`.
2. **Two first payments can buy one period.** `billing.rs:1451`: a renewal is stacked on the unexpired period.
   `FOR UPDATE` locks nothing when there is no row yet; two first payments of a workspace without a Subscription
   row, settled at the same time, both count from now (run `billing_EachPaymentIsCreditedOnce`).

The others follow from definitions of the modules; to see one, add the definition named to a configuration
as an `INVARIANT` or `PROPERTY`:

3. **A hello can be lost (v1).** `AGENT_TUNNEL_PROTOCOL.md:42`: the server replies `ready` to `hello`. The
   `'message'` listener is attached after two awaits (`agent.gateway.ts:137`); the agent says hello once, at once.
   `HelloIsAnswered` of `AgentTunnel` fails in `AgentTunnel_streams.cfg`. v2 reads nothing before
   it has verified the token, so there an early hello waits in the channel.
4. **First bytes can be lost (v1).** `AGENT_TUNNEL_PROTOCOL.md:90-91`: every chunk is forwarded. `onData` is set by
   the continuation of `await openStream()`; a chunk dispatched in the callback that dispatched `opened` finds
   it unset (`agent-registry.service.ts:146`). `DatabaseBytesIntact` of `AgentTunnel` fails with `MaxChunks = 2`: chunk 1 is
   dropped, chunk 2 delivered. A database that speaks first, as MySQL does, is exposed. v2's channel exists before the open is sent.
5. **v2's close at time-out can be lost.** `tunnel.rs:228-231` says it "costs one control frame". The agent
   registers a stream when its dial ends and ignores a close of an unknown stream; a close read during the dial
   leaves the connection open for the rest of the session (`NoOrphanConnection` of `AgentTunnelRs`).
6. **Scheduled runs do overlap.** `scheduler.rs:18-20`: moving `nextRunAt` on first costs "one skipped firing rather
   than an ever-growing pile of overlapping executions". Each firing is a task of its own and nothing asks whether
   the previous one ended; a query that outlives its interval overlaps with the next. The cooldown is therefore stated
   as `CooldownUnlessOverlapping`; without its first disjunct it fails in `Scheduler.cfg`.
7. **A stale result can be served.** `query-cache.service.ts:15-17`: a cached result "is only ever served while the
   tables it depends on are unchanged". A SELECT that ran before a write may be stored after its invalidation,
   and a write may invalidate nothing or another table than it changed.
   `ServedOnlyWhileUnchanged` of `QueryCache` fails in `QueryCache.cfg`, with every invalidation over and none of them failed, for either reason.
   What holds instead is `StaleEntriesAreAboutToGo` and `StaleEntriesExpire`.
8. **Two streams for one table.** `cdc.service.ts:29` promises one replication connection per table. Two
   first subscribers start one each and the second takes the place of the first (`OnlyRivalsAreForgotten`,
   without the restriction to `alone`, fails in `LiveUpdates.cfg`).
9. **A failed write disables a schedule.** `scheduler.rs:154-155`: "`Err` means the cron itself is unusable", and the tick
   disables the schedule on `Err`. The statement that writes `nextRunAt` returns it too (`:168`). `DisabledForItsCron` of
   `Scheduler` fails in `Scheduler.cfg`. `WhatIsDueFires` excepts it, together with all other faults.

v1's reconcile reads without locks; with `RowLocks = FALSE` both `TerminalIsFinal` and `EachPaymentIsCreditedOnce`
fail. That is what the comment at `billing.rs:1374-1379` says v2 was changed for, so it is not listed again.

## 8 Proofs

Proved for all values of the constants that satisfy the assumptions in `TunnelWire`, `AgentServer` and `AgentServerRs`
(sessions a finite set, at least one stream and open, `NoSession` not a session), `Billing` (`NoHandler` not
a request; lengths natural, period and trial not zero), `Scheduler` (periods, bounds, the cooldown and the skew natural, at least one
minute), `AuthSessions` and `LiveUpdates` (`None` is not one of what it stands beside) and `QueryCache` (queries read tables;
results live at least a second). No other assumption is made; in particular sets of requests, tables and clients may be infinite.

**`AgentTunnelProofs`** (v1).

* `TypeCorrect`. The types of the channels rest on one fact, `ChunkInHand`: a pump about to send has read
  something, so its chunk has a number from 1.
* `RegistryIsRight`, `TornConnectionsAreEmpty`, `EvictionIsByTheHolder`, `StreamIdsAreFresh` from one inductive
  invariant, `RegistryInv`: the types, `RegistryHoldsTheLive`, `OnlyTheLiveHasStreams`, and two facts the others need.
  `WaitersAreThePending`: a bridge waits exactly while its id is in `pending`; without it the rejection of a stream
  could be of one that was never opened. `UnusedIdsAreFresh`: ids above `seq` have no bridge; without it a new
  stream could meet an old one. Steps that only move an opened bridge on are treated by one lemma
  (`MovingOnKeepsTables`), teardown and opening by two others.
* `CapsHold`: each end tests its cap in the step that takes a place (`StreamsBounded`, `ConnsBounded`); the agent's second
  test, after the dial, is the one that counts.
* `DatabaseEndsAreAnnounced` from `StreamInv`, which says of each stream how far its agent can be. `IdOK`: a stream is
  asked for once, so it has one goroutine, and an id not yet used is unknown to everybody. `UnansweredOK`: until the
  goroutine has answered, nothing has gone either way. `HeldOK`: the backend has not closed a stream it holds. `ToldOK`: a
  held stream whose goroutine is past its dial has a connection, or its close is on the wire, or it was refused and
  its bridge still waits.
* `DriverBytesArrive` from `WritingInv` above it: of the chunks a driver wrote, the database has the first, and while the
  agent has the connection the wire carries the following ones up to the last that was sent — all of
  them unless the backend has closed the stream. The order on a channel is stated by numbers (`InOrder`) and not by selecting a
  subsequence: `SelectSeq` is a recursive definition, and facts about it need induction over the channel.

**`AgentTunnelRsProofs`** (v2). What both tunnels need about channels and agents is in `AgentClientProofs`:
what reading and sending do to the order of frames (`OrderAfterRead`, `OrderAfterSend`, `NoneRead`, `NoneSent`, …), and what no agent
step disturbs, whichever server it talks to: its cap (`ConnsBoundedStep`), the driver's chunks (`AgentKeepsWriting`), and that
nothing precedes its answer (`AgentKeepsAnswer`).

* `TypeCorrect`, as in v1.
* `RegistrationIsRight`: whoever has been replaced is no longer registered (`ReplacedIsOut`), so the second half of a
  registration cannot hit the connection that took its place.
* `SlotsHaveOwners` from `SlotInv`. A close that arrived before the answer would take the slot of a bridge that still waits; it
  cannot, because the agent says `opened` before it closes and frames keep their order (`WaiterHearsOpenedFirst`), the agent
  knows nothing of a stream before it is asked (`UnaskedIsUnknown`), and no driver's bytes go to a stream that is not open.
* `BytesArriveInOrder`: the tunnel implements `ByteStreams`. Two more invariants: a stream is asked for once, so
  it has one goroutine (`OpenInv`), and the chunks of a stream are numbered without a gap from what the driver has been
  handed through the inbox and the wire up to what the pump has sent, unless the wire is down and the rest is lost
  (`DataInv`: `InboxOK`, and `WireOK` while the slot is held). `NumbersAfterRead` and `NumbersAfterSend` say what reading and sending a
  frame do to such a numbering; each step of server and agent is then one of them, or leaves the numbering
  alone (`QuietServer`, `QuietClient`). `StepIsStreams` maps each step to one of `ByteStreams` or a stutter.
* `CapsHold` and `DriverBytesArrive`: `SlotsBounded` and `DriverBytesIntact` of `AgentTunnelRs`, the other direction of the bytes.
  Here the wire carries everything the database was not given yet for as long as the agent has the connection,
  also after the server has ended the stream, for whatever is read from a driver is sent. The invariant,
  `WritingInv`, is v1's with one more part, `AskedOK`: a driver is read only after the agent has answered. `SlotsBounded` is
  stated by its theorem alone; no run lists it for v2.

**`BillingProofs`**.

* `TypeCorrect`, and `OpenPeriodsAreEntitled` from `LapsesAreOver` (a lapsed label implies that the end lies in the
  past): neither needs the row locks.
* `SettledStaysSettled`, assuming `RowLocks`: inductive invariant `HeldInv` — links are known only of recorded
  attempts, and whoever settles an attempt holds its row, which is still `PENDING`. `OneAttemptMoves` then says that a
  step changes at most one attempt, and only one that is not settled.
* `PaymentsAreCreditedOnce`, assuming `RowLocks` and `Personal`: `Billing` implements `PaymentLedger`. To `HeldInv`,
  `CreditInv` adds `RowComesFirst` (no attempt without a Subscription row, so there is something to lock) and
  `BasesAreCurrent` (the end of the period a request has read is still the row's). `StepIsLedgers` maps each step to a
  ledger step or a stutter. Both assumptions are needed: section 7 shows a counterexample without `Personal`,
  and TLC finds one without `RowLocks`.

**`SchedulerProofs`**. `TypeCorrect` and `CooldownIsKept` from one inductive invariant, `Inv`, and `FiresOnce` and
`MisfiresArePaid` from two others above it, `Tally` and `EditsPay`.

* `CooldownIsKept` follows an alert from where it is stamped to where it is read: the row knows the last alert
  while it exists (`RowKnowsAlerts`), the tick's copy knows the alerts of all that was over when it was made (`TickSaw`), a
  task's copy likewise (`RunSaw`), and it notifies only if that copy is old enough by the process's clock (`CooledDown`), hence the skew in
  the property.
* `FiresOnce` is an accounting: for each minute, the runs made, plus one if the tick holds that
  minute, plus one if the row does, are at most one more than the requests for it and the times a slow clock computed it again (`Accounted`). While the tick is to
  move the row on, both hold the same and it counts once; the next occurrence is later than any run
  (`RunsAreDue`, `Later`), so moving the row on opens a new account, or adds a lapse to an old one.
* `MisfiresArePaid` is another: the misfires made, plus the times left over from an earlier expression that the row holds, the
  tick holds or the tick is about to write (`Debt`), never exceed the edits (`EditsPay`). An edit adds one at
  most; a time that moves from the row to the tick and on to a run is counted where it is.

**`AuthSessionsProofs`**. `TypeCorrect`, `RotatedAreRetired`, `ForksAreOverlaps`, `SweepsAreComplete`, `LinksWorkOnce`:
every property of the run. The invariants speak of the requests between their statements: who is to issue or to
retire a token, and with what it has read, for a row alone does not tell whether its successor is on its way.

**`LiveUpdatesProofs`**. `TypeCorrect`, `StreamsInUse`, `ForgottenAreRivals`, `SubscribersAreServed`, `HandlersAreOwned`: every
property of the run, for any number of sockets and subscriptions. The strengthening ties the three maps
together: where a request stands says which of them names it.

**`QueryCacheProofs`**. `TypeCorrect`, `StaleAreAboutToGo`, `EntriesFound` from one inductive invariant. A result not
overtaken by a write saw what there is (`NotLateIsFresh`); what an invalidation has yet to delete is in its hands
or in another's that collected it first (`CollectedAreHeld`); what remains while the index of the whole connection goes
is exposed (`UnlinkedAreExposed`); everything else is in its indexes (`IndexedOrHeld`, which implies `EntriesAreIndexed`). The last two
need each other: an entry leaves its index only with an invalidation that has it in hand.

*Model-checked only.* Liveness, which the prover does not reach: `EveryOpenSettles` and `DeadSessionGoesOffline` of v1's tunnel,
`EveryOpenSettles` and `EndsPropagate` of v2's, `PaymentsSettle`, `WhatIsDueFires`, `StaleEntriesExpire`. Every
invariant, action property and refinement of a passing run is stated by a theorem.

## 9 Not modelled

* *Of billing*: prices, the overview, organizations, adjustments, an operator's override of a subscription.
* *Of the tunnel*: the reconnect loop and pairing, back-pressure, the persisted tunnels of a connection (rows).
* *Of scheduled queries*: v1's worker and its job queue, run rows, conditions, reports.
* *Of sessions*: sign-up, second factor, SSO, the cooldown, expiry; v2's port of the same rows.
* *Of live updates*: change messages, v2's `realtime.rs`. The reaper of idle streams is not an action: it looks for streams
  without handlers, and `CurrentStreamIsUsed` shows that it never finds one. "Startup sweep" of orphaned slots
  (`cdc.service.ts:34-35`) is named in a comment and there is no code for it.
* *Planned*: the first five components of section 1's last table, in the order of section 10.
* *Left out for good*: user interfaces, the command line and the Terraform provider (no state of the system);
  administration, comments, dashboards and the like (single statements on rows of their own); import, export and
  schema tools (streams of rows, no state of their own); calls of external models. Permissions, masks and
  row filters are decided per request from rows read in it; they are candidates for reference definitions of
  pure functions, as is the statement classifier.

## 10 Plan

Done, in the order of what an interleaving costs: the tunnel (two processes, several tasks, an unreliable network), billing,
then scheduler, sessions, live updates and the cache. What is left:

1. `CursorPool`: a cap checked before awaits; cursors closed by their owner, a timer or a lost connection.
2. `AutoBackup`: retention over names shared by several schedules.
3. `Seats`: invites, seats and quotas counted before rows are made; their effect on a checkout.
4. `JobQueue`: v1's worker as a refinement question: does a retried job run a schedule twice?
5. `AgentLifecycle`: the reconnect loop around `AgentClient`; `LoginCooldown`.
6. Alert conditions and the statement classifier as operators against reference definitions.

Proofs to come: the safety halves of the liveness arguments (who waits can still be answered; what is due is held by somebody who
is to run it; what is stale has an end). Modules to be proved about use no RECURSIVE operator.

## 11 Running

```
tlasany MCAgentTunnel.tla
tlc -workers 2 -config AgentTunnel_sessions.cfg MCAgentTunnel
tlc -workers 2 -config Billing_v2.cfg Billing
tlapm BillingProofs.tla
```

Each run takes at most some minutes on two cores; `PROJECT.json` names the module of each configuration.
