----------------------------- MODULE QueryCache -----------------------------
(***************************************************************************)
(* The result cache of one connection: query-cache.service.ts, and the     *)
(* reads and writes of query.controller.ts around it.  A result is what it *)
(* saw of its tables, which is the last write of each.  Redis runs a       *)
(* command, or a MULTI, at once; storing and invalidating are started      *)
(* after the answer was sent, and nobody waits for them.                   *)
(***************************************************************************)
EXTENDS Naturals, FiniteSets

CONSTANTS
    Table,
    Query,
    Reads,      \* Reads[q]: the tables of q, as extractTables finds them
    Reader,     \* requests that read, and that write, at a time
    Writer,
    TTL,        \* ttlSec
    IndexExtra, \* the seconds the index outlives its entries
    MaxWrites,  \* bound: writes
    MaxFaults   \* bound: invalidations that fail

ASSUME QueryCacheAssumption ==
    /\ Reads \in [Query -> SUBSET Table]
    /\ TTL \in Nat \ {0}
    /\ IndexExtra \in Nat /\ MaxWrites \in Nat /\ MaxFaults \in Nat

VARIABLES
    written,   \* written[t]: the last write of t that was committed, or 0
    entry,     \* entry[q]: qc:e:..., with the time it has left
    index,     \* index[t]: qc:t:..., likewise
    reader,
    writer,
    exposed,   \* history: queries whose entry met an invalidation (see Store)
    missed,    \* history: queries whose entry a write did not look for
    faults

vars == <<written, entry, index, reader, writer, exposed, missed, faults>>

Seen == [Table -> 0 .. MaxWrites]
NoEntry == [ttl |-> 0]
NoIndex == [ttl |-> 0, keys |-> {}]
Done == [pc |-> "done"]

QueryCacheInit ==
    /\ written = [t \in Table |-> 0]
    /\ entry = [q \in Query |-> NoEntry]
    /\ index = [t \in Table |-> NoIndex]
    /\ reader = [r \in Reader |-> Done]
    /\ writer = [w \in Writer |-> Done]
    /\ exposed = {}
    /\ missed = {}
    /\ faults = 0

Cached(q) == entry[q].ttl > 0

----------------------------------------------------------------------------
(* A SELECT that finds no entry runs and stores what it saw.               *)
Miss(r, q) ==
    /\ reader[r].pc = "done"
    /\ ~Cached(q)
    /\ reader' = [reader EXCEPT ![r] = [pc |-> "running", query |-> q]]
    /\ UNCHANGED <<written, entry, index, writer, exposed, missed, faults>>

Result(q) == [t \in Table |-> IF t \in Reads[q] THEN written[t] ELSE 0]
Run(r) ==
    /\ reader[r].pc = "running"
    /\ reader' = [reader EXCEPT ![r] = [pc |-> "storing", query |-> reader[r].query,
                                         saw |-> Result(reader[r].query), late |-> FALSE]]
    /\ UNCHANGED <<written, entry, index, writer, exposed, missed, faults>>

(* The statement fails, or its result is too large or cannot be stored.    *)
NotStored(r) ==
    /\ reader[r].pc \in {"running", "storing"}
    /\ reader' = [reader EXCEPT ![r] = Done]
    /\ UNCHANGED <<written, entry, index, writer, exposed, missed, faults>>

(* An entry is exposed if a table was written between its read and its     *)
(* store, or if it is stored while an invalidation has already looked.     *)
Looked(w, q) ==
    writer[w].pc \in {"collected", "unlinking"} /\ Reads[q] \intersect writer[w].tables # {}
LinkedTo(q, tables) ==
    [t \in Table |->
        IF t \in tables
          THEN [ttl |-> TTL + IndexExtra, keys |-> index[t].keys \union {q}]
          ELSE index[t]]
LinkedToOne(q) == LinkedTo(q, {CHOOSE t \in Table : t \in Reads[q]})
LinkedToAll(q) == LinkedTo(q, Table)
Linked(q) == LinkedTo(q, Reads[q])

Store(r) ==
    LET q == reader[r].query IN
    /\ reader[r].pc = "storing"
    /\ entry' = [entry EXCEPT ![q] = [ttl |-> TTL, saw |-> reader[r].saw]]
    /\ index' = Linked(q)
    /\ exposed' = IF reader[r].late \/ \E w \in Writer : Looked(w, q)
                    THEN exposed \union {q}
                    ELSE exposed \ {q}
    /\ missed' = missed \ {q}
    /\ reader' = [reader EXCEPT ![r] = Done]
    /\ UNCHANGED <<written, writer, faults>>

----------------------------------------------------------------------------
(* A write of ts, after which the entries of tables are looked for.        *)
Commits(ts, tables) ==
    /\ \E n \in 1 .. MaxWrites :
           /\ \A t \in Table : written[t] < n
           /\ \E t \in Table : written[t] = n - 1
           /\ written' = [t \in Table |-> IF t \in ts THEN n ELSE written[t]]
    /\ reader' = [r \in Reader |->
           IF reader[r].pc = "storing" /\ ts \intersect Reads[reader[r].query] # {}
             THEN [reader[r] EXCEPT !.late = TRUE]
             ELSE reader[r]]
    /\ missed' = missed \union
           {q \in Query : /\ Cached(q) /\ ts \intersect Reads[q] # {}
                          /\ Reads[q] \intersect tables = {}}
    /\ UNCHANGED <<entry, index, exposed, faults>>

(* A statement writes one table or more, and one of them, or another that  *)
(* its text was mistaken for, is invalidated; or the connection is, if the *)
(* text named none.                                                        *)
Write(w, ts) ==
    \E whole \in BOOLEAN, u \in Table :
        LET tables == IF whole THEN Table ELSE {u} IN
        /\ writer[w].pc = "done"
        /\ Commits(ts, tables)
        /\ writer' = [writer EXCEPT ![w] =
               [pc |-> "written", whole |-> whole, tables |-> tables, keys |-> {}]]

(* A write that nobody tells the cache of: an import, a client of its own, *)
(* or a statement whose text names a table that there is not.              *)
WriteUnseen(ts) == Commits(ts, {}) /\ UNCHANGED writer

(* SMEMBERS of the table's index, or SCAN of the entries.                  *)
Collect(w) ==
    /\ writer[w].pc = "written"
    /\ writer' = [writer EXCEPT ![w].pc = "collected",
           ![w].keys = IF writer[w].whole
                         THEN {q \in Query : Cached(q)}
                         ELSE UNION {index[t].keys : t \in writer[w].tables}]
    /\ UNCHANGED <<written, entry, index, reader, exposed, missed, faults>>

Unindexed(tables) == [t \in Table |-> IF t \in tables THEN NoIndex ELSE index[t]]

(* The entries and the index in one MULTI, or the entries first.           *)
Delete(w) ==
    /\ writer[w].pc = "collected"
    /\ entry' = [q \in Query |-> IF q \in writer[w].keys THEN NoEntry ELSE entry[q]]
    /\ exposed' = exposed \ writer[w].keys
    /\ missed' = missed \ writer[w].keys
    /\ index' = IF writer[w].whole THEN index ELSE Unindexed(writer[w].tables)
    /\ writer' = [writer EXCEPT ![w] = IF @.whole THEN [@ EXCEPT !.pc = "unlinking"] ELSE Done]
    /\ UNCHANGED <<written, reader, faults>>

Unlink(w) ==
    /\ writer[w].pc = "unlinking"
    /\ index' = Unindexed(writer[w].tables)
    /\ writer' = [writer EXCEPT ![w] = Done]
    /\ UNCHANGED <<written, entry, reader, exposed, missed, faults>>

(* "Fail-open": a Redis error is ignored, and a crash is not noticed.      *)
InvalidationFails(w) ==
    /\ writer[w].pc # "done"
    /\ faults < MaxFaults
    /\ faults' = faults + 1
    /\ exposed' = exposed \union {q \in Query : Cached(q) /\ Reads[q] \intersect writer[w].tables # {}}
    /\ writer' = [writer EXCEPT ![w] = Done]
    /\ UNCHANGED <<written, entry, index, reader, missed>>

----------------------------------------------------------------------------
(* A second passes; Redis forgets what has no time left.                   *)
AgedNever(e) == e
Aged(e) == IF e.ttl > 1 THEN [e EXCEPT !.ttl = @ - 1] ELSE NoEntry
Passes ==
    /\ \E q \in Query : Cached(q)
    /\ entry' = [q \in Query |-> Aged(entry[q])]
    /\ index' = [t \in Table |->
           IF index[t].ttl > 1 THEN [index[t] EXCEPT !.ttl = @ - 1] ELSE NoIndex]
    /\ exposed' = {q \in exposed : entry[q].ttl > 1}
    /\ missed' = {q \in missed : entry[q].ttl > 1}
    /\ UNCHANGED <<written, reader, writer, faults>>

Invalidates(w) == Collect(w) \/ Delete(w) \/ Unlink(w)

QueryCacheNext ==
    \/ \E r \in Reader : Run(r) \/ NotStored(r) \/ Store(r) \/ \E q \in Query : Miss(r, q)
    \/ \E w \in Writer : Invalidates(w) \/ InvalidationFails(w)
    \/ \E ts \in SUBSET Table \ {{}} : WriteUnseen(ts) \/ \E w \in Writer : Write(w, ts)
    \/ Passes

Spec == QueryCacheInit /\ [][QueryCacheNext]_vars

FairSpec == Spec /\ WF_vars(Passes)

----------------------------------------------------------------------------
Entry == {NoEntry} \union [ttl : 1 .. TTL, saw : Seen]
TableIndex == [ttl : 0 .. TTL + IndexExtra, keys : SUBSET Query]
ReaderState ==
    {Done} \union [pc : {"running"}, query : Query] \union
    [pc : {"storing"}, query : Query, saw : Seen, late : BOOLEAN]
WriterState ==
    {Done} \union
    [pc : {"written", "collected", "unlinking"}, whole : BOOLEAN, tables : SUBSET Table,
     keys : SUBSET Query]

(* Types; the index of a table names queries of that table.                *)
TypeOK ==
    /\ written \in Seen
    /\ entry \in [Query -> Entry]
    /\ index \in [Table -> TableIndex]
    /\ \A t \in Table : \A q \in index[t].keys : t \in Reads[q]
    /\ reader \in [Reader -> ReaderState]
    /\ writer \in [Writer -> WriterState]
    /\ exposed \union missed \subseteq {q \in Query : Cached(q)}
    /\ faults \in Nat

(* An entry that saw less than its tables hold now is about to be deleted  *)
(* by the invalidation of the write it missed, unless it is exposed or     *)
(* that write did not look for it.                                         *)
Stale(q) == Cached(q) /\ \E t \in Reads[q] : entry[q].saw[t] # written[t]
AboutToGo(q) ==
    \E w \in Writer :
        \/ writer[w].pc = "written" /\ Reads[q] \intersect writer[w].tables # {}
        \/ writer[w].pc = "collected" /\ q \in writer[w].keys
StaleEntriesAreAboutToGo ==
    \A q \in Query \ (exposed \union missed) : Stale(q) => AboutToGo(q)

(* "so it always outlives what it points to": each entry can be found      *)
(* through each of its tables, for as long as it lives.                    *)
EntriesAreIndexed ==
    \A q \in Query \ exposed :
        Cached(q) => \/ AboutToGo(q)
                     \/ \A t \in Reads[q] : q \in index[t].keys /\ index[t].ttl >= entry[q].ttl

(* The backstop: whatever was lost or overtaken, no result stays wrong.    *)
StaleEntriesExpire == \A q \in Query : Stale(q) ~> ~Stale(q)

----------------------------------------------------------------------------
(* The module's header: "a cached result is only ever served while the     *)
(* tables it depends on are unchanged".  Not so, even with every           *)
(* invalidation over and none of them failed: what was read before a write *)
(* is stored after its invalidation, and a write may look for nothing.     *)
ServedOnlyWhileUnchanged ==
    (\A w \in Writer : writer[w] = Done) /\ faults = 0 => \A q \in Query : ~Stale(q)
=============================================================================
