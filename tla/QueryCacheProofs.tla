-------------------------- MODULE QueryCacheProofs --------------------------
(***************************************************************************)
(* What QueryCache promises, for any number of requests, tables, queries   *)
(* and lost invalidations.                                                 *)
(***************************************************************************)
EXTENDS QueryCache, TLAPS

Meets(w, q) == Reads[q] \intersect writer[w].tables # {}
Indexed(q) == \A t \in Reads[q] : q \in index[t].keys /\ index[t].ttl >= entry[q].ttl
Held(q) == \E w \in Writer : writer[w].pc = "collected" /\ q \in writer[w].keys

(* An invalidation is of the connection, or of one table, whose queries it *)
(* collects.                                                               *)
WholeOrOne ==
    \A w \in Writer : writer[w].pc # "done" =>
        /\ IF writer[w].whole THEN writer[w].tables = Table ELSE \E t \in Table : writer[w].tables = {t}
        /\ writer[w].pc = "unlinking" => writer[w].whole
        /\ \A q \in writer[w].keys : Reads[q] = {} \/ Meets(w, q)

(* A result that was not overtaken saw what there is.                      *)
NotLateIsFresh ==
    \A r \in Reader : reader[r].pc = "storing" /\ ~reader[r].late =>
        \A t \in Reads[reader[r].query] : reader[r].saw[t] = written[t]

(* The entries that an invalidation has yet to delete are in its hands, or *)
(* in those of another one.                                                *)
CollectedAreHeld ==
    \A w \in Writer, q \in Query \ exposed :
        writer[w].pc = "collected" /\ Cached(q) /\ Meets(w, q) =>
            Held(q) /\ (writer[w].whole => q \in writer[w].keys)

UnlinkedAreExposed ==
    \A w \in Writer, q \in Query : writer[w].pc = "unlinking" /\ Cached(q) /\ Meets(w, q) => q \in exposed

IndexedOrHeld == \A q \in Query \ exposed : Cached(q) => Indexed(q) \/ Held(q)

Inv ==
    /\ TypeOK /\ WholeOrOne /\ NotLateIsFresh /\ CollectedAreHeld /\ UnlinkedAreExposed
    /\ IndexedOrHeld /\ StaleEntriesAreAboutToGo

----------------------------------------------------------------------------
Busy ==
    [pc : {"written", "collected", "unlinking"}, whole : BOOLEAN, tables : SUBSET Table,
     keys : SUBSET Query]

LEMMA WriterTypes ==
    ASSUME TypeOK, NEW w \in Writer
    PROVE  \/ writer[w] = Done /\ writer[w].pc = "done"
           \/ writer[w] \in Busy /\ writer[w].pc # "done"
<1>1. writer[w] \in WriterState
    BY DEF TypeOK
<1>2. Done.pc = "done"
    BY DEF Done
<1>3. writer[w] = Done \/ writer[w] \in Busy
    BY <1>1 DEF WriterState, Busy
<1>4. \A b \in Busy : b.pc # "done"
    BY DEF Busy
<1> QED
    BY <1>2, <1>3, <1>4

LEMMA BusyTypes ==
    ASSUME NEW b \in Busy
    PROVE  /\ b.whole \in BOOLEAN /\ b.tables \subseteq Table /\ b.keys \subseteq Query
           /\ [b EXCEPT !.pc = "unlinking"] \in Busy
           /\ [b EXCEPT !.pc = "unlinking"].pc = "unlinking"
           /\ [b EXCEPT !.pc = "unlinking"].whole = b.whole
           /\ [b EXCEPT !.pc = "unlinking"].tables = b.tables
           /\ [b EXCEPT !.pc = "unlinking"].keys = b.keys
           /\ b \in WriterState
BY DEF Busy, WriterState

LEMMA ReaderTypes ==
    ASSUME TypeOK, NEW r \in Reader
    PROVE  /\ reader[r].pc \in {"done", "running", "storing"}
           /\ reader[r].pc = "running" => reader[r] \in [pc : {"running"}, query : Query]
           /\ reader[r].pc = "storing" =>
                 reader[r] \in [pc : {"storing"}, query : Query, saw : Seen, late : BOOLEAN]
<1>1. reader[r] \in ReaderState
    BY DEF TypeOK
<1>2. Done.pc = "done"
    BY DEF Done
<1> QED
    BY <1>1, <1>2 DEF ReaderState

LEMMA EntryTypes ==
    ASSUME TypeOK, NEW q \in Query
    PROVE  /\ entry[q].ttl \in 0 .. TTL
           /\ Cached(q) => entry[q] \in [ttl : 1 .. TTL, saw : Seen]
           /\ ~Cached(q) => entry[q] = NoEntry
           /\ NoEntry.ttl = 0 /\ NoEntry \in Entry
<1>1. entry[q] \in Entry
    BY DEF TypeOK
<1>2. NoEntry.ttl = 0 /\ NoEntry \in Entry
    BY DEF NoEntry, Entry
<1> QED
    BY <1>1, <1>2, QueryCacheAssumption DEF Entry, Cached

(* The readers that move on have stored nothing yet.                       *)
LEMMA ReadersMove ==
    ASSUME Inv, UNCHANGED <<written, entry, index, writer, exposed, missed, faults>>,
           reader' \in [Reader -> ReaderState],
           \A r \in Reader : reader'[r].pc = "storing" =>
               \/ reader'[r] = reader[r]
               \/ \A t \in Reads[reader'[r].query] : reader'[r].saw[t] = written[t]
    PROVE  Inv'
<1>1. NotLateIsFresh'
    BY DEF Inv, NotLateIsFresh
<1>2. TypeOK'
    BY DEF Inv, TypeOK, Cached
<1> QED
    BY <1>1, <1>2
    DEF Inv, WholeOrOne, CollectedAreHeld, UnlinkedAreExposed, IndexedOrHeld, StaleEntriesAreAboutToGo,
        Cached, Meets, Held, Indexed, Stale, AboutToGo

LEMMA MissKeeps == ASSUME Inv, NEW r \in Reader, NEW q \in Query, Miss(r, q) PROVE Inv'
<1> DEFINE new == [pc |-> "running", query |-> q]
<1>1. new \in ReaderState /\ new.pc = "running"
    BY DEF ReaderState
<1>2. /\ reader' = [reader EXCEPT ![r] = new]
      /\ UNCHANGED <<written, entry, index, writer, exposed, missed, faults>>
    BY DEF Miss
<1> HIDE DEF new
<1>3. reader' \in [Reader -> ReaderState] /\ \A o \in Reader : reader'[o] = IF o = r THEN new ELSE reader[o]
    BY <1>1, <1>2 DEF Inv, TypeOK
<1> QED
    BY <1>1, <1>2, <1>3, ReadersMove

LEMMA RunKeeps == ASSUME Inv, NEW r \in Reader, Run(r) PROVE Inv'
<1> DEFINE new == [pc |-> "storing", query |-> reader[r].query, saw |-> Result(reader[r].query),
                   late |-> FALSE]
<1>1. reader[r].query \in Query /\ written \in Seen
    BY ReaderTypes DEF Run, Inv, TypeOK
<1>2. new \in ReaderState /\ \A t \in Reads[new.query] : new.saw[t] = written[t]
    <2>1. /\ Result(reader[r].query) \in Seen
          /\ \A t \in Reads[reader[r].query] : Result(reader[r].query)[t] = written[t]
        BY <1>1, QueryCacheAssumption DEF Result, Seen
    <2> HIDE DEF Result
    <2> QED
        BY <1>1, <2>1 DEF ReaderState
<1>3. /\ reader' = [reader EXCEPT ![r] = new]
      /\ UNCHANGED <<written, entry, index, writer, exposed, missed, faults>>
    BY DEF Run
<1> HIDE DEF new
<1>4. reader' \in [Reader -> ReaderState] /\ \A o \in Reader : reader'[o] = IF o = r THEN new ELSE reader[o]
    BY <1>2, <1>3 DEF Inv, TypeOK
<1> QED
    BY <1>2, <1>3, <1>4, ReadersMove

LEMMA NotStoredKeeps == ASSUME Inv, NEW r \in Reader, NotStored(r) PROVE Inv'
<1>1. Done \in ReaderState /\ Done.pc = "done"
    BY DEF Done, ReaderState
<1>2. /\ reader' = [reader EXCEPT ![r] = Done]
      /\ UNCHANGED <<written, entry, index, writer, exposed, missed, faults>>
    BY DEF NotStored
<1>3. reader' \in [Reader -> ReaderState] /\ \A o \in Reader : reader'[o] = IF o = r THEN Done ELSE reader[o]
    BY <1>1, <1>2 DEF Inv, TypeOK
<1> QED
    BY <1>1, <1>2, <1>3, ReadersMove

LEMMA StoreKeeps ==
    ASSUME Inv, NEW r \in Reader, NEW q, q = reader[r].query, Store(r)
    PROVE  Inv'
<1> DEFINE new == [ttl |-> TTL, saw |-> reader[r].saw]
<1>1. /\ reader[r].pc = "storing" /\ q \in Query /\ reader[r].saw \in Seen /\ reader[r].late \in BOOLEAN
      /\ UNCHANGED <<written, writer, faults>>
    BY ReaderTypes DEF Store, Inv
<1>2. new \in Entry /\ new.ttl = TTL /\ new.saw = reader[r].saw
    BY <1>1, QueryCacheAssumption DEF Entry
<1>3. entry' = [entry EXCEPT ![q] = new] /\ index' = Linked(q) /\ reader' = [reader EXCEPT ![r] = Done]
    BY DEF Store
<1>4. exposed' = IF reader[r].late \/ \E w \in Writer : Looked(w, q)
                   THEN exposed \union {q} ELSE exposed \ {q}
    BY DEF Store
<1>4a. missed' = missed \ {q}
    BY DEF Store
<1> HIDE DEF new
<1>5. \A p \in Query : entry'[p] = IF p = q THEN new ELSE entry[p]
    BY <1>1, <1>3 DEF Inv, TypeOK
<1>6. \A o \in Reader : reader'[o] = IF o = r THEN Done ELSE reader[o]
    BY <1>3 DEF Inv, TypeOK
<1>7. \A t \in Table :
          /\ index'[t] \in TableIndex
          /\ index'[t].keys = IF t \in Reads[q] THEN index[t].keys \union {q} ELSE index[t].keys
          /\ index'[t].ttl = IF t \in Reads[q] THEN TTL + IndexExtra ELSE index[t].ttl
    <2> SUFFICES ASSUME NEW t \in Table
                 PROVE  /\ index'[t] \in TableIndex
                        /\ index'[t].keys = IF t \in Reads[q] THEN index[t].keys \union {q} ELSE index[t].keys
                        /\ index'[t].ttl = IF t \in Reads[q] THEN TTL + IndexExtra ELSE index[t].ttl
        OBVIOUS
    <2> DEFINE row == [ttl |-> TTL + IndexExtra, keys |-> index[t].keys \union {q}]
    <2>1. index[t] \in TableIndex
        BY DEF Inv, TypeOK
    <2>2. row \in TableIndex /\ row.ttl = TTL + IndexExtra /\ row.keys = index[t].keys \union {q}
        BY <1>1, <2>1, QueryCacheAssumption DEF TableIndex
    <2>3. index'[t] = IF t \in Reads[q] THEN row ELSE index[t]
        BY <1>3 DEF Linked, LinkedTo
    <2> HIDE DEF row
    <2> QED
        BY <2>1, <2>2, <2>3
<1>8. \A t \in Reads[q] : t \in Table
    BY <1>1, QueryCacheAssumption
<1>9. TypeOK'
    <2>1. entry' \in [Query -> Entry]
        BY <1>2, <1>3 DEF Inv, TypeOK
    <2>2. index' \in [Table -> TableIndex]
        BY <1>3, <1>7 DEF Linked, LinkedTo
    <2>3. \A t \in Table : \A p \in index'[t].keys : t \in Reads[p]
        <3> SUFFICES ASSUME NEW t \in Table, NEW p, p \in index'[t].keys, p # q \/ t \notin Reads[q]
                     PROVE  t \in Reads[p]
            OBVIOUS
        <3>1. p \in index[t].keys
            BY <1>7
        <3> QED
            BY <3>1 DEF Inv, TypeOK
    <2>4. reader' \in [Reader -> ReaderState]
        BY <1>3 DEF Inv, TypeOK, ReaderState
    <2>5. exposed' \union missed' \subseteq {p \in Query : Cached(p)'}
        BY <1>1, <1>2, <1>4, <1>4a, <1>5, QueryCacheAssumption DEF Inv, TypeOK, Cached
    <2> QED
        BY <1>1, <2>1, <2>2, <2>3, <2>4, <2>5 DEF Inv, TypeOK
<1>10. NotLateIsFresh'
    <2>1. Done.pc = "done"
        BY DEF Done
    <2> QED
        BY <1>1, <1>6, <2>1 DEF Inv, NotLateIsFresh
<1>11. \A w \in Writer, p \in Query : Meets(w, p)' <=> Meets(w, p)
    BY <1>1 DEF Meets
<1>12. \A p \in Query : Held(p)' <=> Held(p)
    BY <1>1 DEF Held
<1>13. \A p \in Query : p # q => (Cached(p)' <=> Cached(p)) /\ (p \in exposed' <=> p \in exposed)
                           /\ (p \in missed' <=> p \in missed)
    BY <1>4, <1>4a, <1>5 DEF Cached
<1>14. ASSUME NEW w \in Writer, writer[w].pc \in {"collected", "unlinking"}, Meets(w, q) PROVE q \in exposed'
    BY <1>4, <1>14 DEF Looked, Meets
<1>15. CollectedAreHeld'
    <2> SUFFICES ASSUME NEW w \in Writer, NEW p \in Query \ exposed', writer[w].pc = "collected",
                        Cached(p)', Meets(w, p)
                 PROVE  Held(p) /\ (writer[w].whole => p \in writer[w].keys)
        BY <1>1, <1>11, <1>12 DEF CollectedAreHeld
    <2>1. p # q
        BY <1>14
    <2> QED
        BY <1>13, <2>1 DEF Inv, CollectedAreHeld
<1>16. UnlinkedAreExposed'
    BY <1>1, <1>11, <1>13, <1>14 DEF Inv, UnlinkedAreExposed
<1>17. IndexedOrHeld'
    <2> SUFFICES ASSUME NEW p \in Query \ exposed', Cached(p)', ~Held(p), NEW t \in Reads[p]
                 PROVE  p \in index'[t].keys /\ index'[t].ttl >= entry'[p].ttl
        BY <1>12 DEF IndexedOrHeld, Indexed
    <2>0. t \in Table /\ TTL \in Nat /\ IndexExtra \in Nat
        BY QueryCacheAssumption
    <2>1. CASE p = q
        <3>1. entry'[p].ttl = TTL /\ index'[t].ttl = TTL + IndexExtra /\ p \in index'[t].keys
            BY <1>2, <1>5, <1>7, <2>0, <2>1
        <3> QED
            BY <2>0, <3>1
    <2>2. CASE p # q
        <3>1. p \in index[t].keys /\ index[t].ttl >= entry[p].ttl
            BY <1>13, <2>2 DEF Inv, IndexedOrHeld, Indexed
        <3>2. entry'[p] = entry[p] /\ entry[p].ttl \in 0 .. TTL
            BY <1>5, <2>2, EntryTypes DEF Inv
        <3>3. /\ p \in index'[t].keys
              /\ index'[t].ttl = TTL + IndexExtra \/ index'[t].ttl = index[t].ttl
            BY <1>7, <2>0, <3>1
        <3> QED
            BY <2>0, <3>1, <3>2, <3>3
    <2> QED
        BY <2>1, <2>2
<1>18. StaleEntriesAreAboutToGo'
    <2> SUFFICES ASSUME NEW p \in Query \ (exposed' \union missed'), Stale(p)' PROVE AboutToGo(p)
        BY <1>1 DEF StaleEntriesAreAboutToGo, AboutToGo
    <2>1. CASE p = q
        <3>1. ~reader[r].late
            BY <1>4, <2>1
        <3>2. \A t \in Reads[q] : reader[r].saw[t] = written[t]
            BY <1>1, <3>1 DEF Inv, NotLateIsFresh
        <3> QED
            BY <1>1, <1>2, <1>5, <2>1, <3>2 DEF Stale
    <2>2. CASE p # q
        <3>1. Stale(p)
            BY <1>1, <1>5, <2>2 DEF Stale, Cached
        <3> QED
            BY <1>13, <2>2, <3>1 DEF Inv, StaleEntriesAreAboutToGo
    <2> QED
        BY <2>1, <2>2
<1>19. WholeOrOne'
    BY <1>1 DEF Inv, WholeOrOne, Meets
<1> QED
    BY <1>9, <1>10, <1>15, <1>16, <1>17, <1>18, <1>19 DEF Inv

----------------------------------------------------------------------------
(* A write changes what is cached of nothing, but a result that is not     *)
(* stored yet is late.                                                     *)
LEMMA CommitsKeeps ==
    ASSUME Inv, NEW ts \in SUBSET Table, NEW tables, Commits(ts, tables)
    PROVE  /\ written' \in Seen /\ reader' \in [Reader -> ReaderState] /\ NotLateIsFresh'
           /\ \A t \in Table \ ts : written'[t] = written[t]
           /\ missed' = missed \union
                  {q \in Query : /\ Cached(q) /\ ts \intersect Reads[q] # {}
                                 /\ Reads[q] \intersect tables = {}}
           /\ UNCHANGED <<entry, index, exposed, faults>>
<1> DEFINE late(o) == reader[o].pc = "storing" /\ ts \intersect Reads[reader[o].query] # {}
<1>1. PICK n \in 1 .. MaxWrites : written' = [t \in Table |-> IF t \in ts THEN n ELSE written[t]]
    BY DEF Commits
<1>2. /\ reader' = [o \in Reader |-> IF late(o) THEN [reader[o] EXCEPT !.late = TRUE] ELSE reader[o]]
      /\ missed' = missed \union
             {q \in Query : /\ Cached(q) /\ ts \intersect Reads[q] # {}
                            /\ Reads[q] \intersect tables = {}}
      /\ UNCHANGED <<entry, index, exposed, faults>>
    BY DEF Commits
<1>3. written' \in Seen /\ \A t \in Table \ ts : written'[t] = written[t]
    BY <1>1, QueryCacheAssumption DEF Inv, TypeOK, Seen
<1>4. ASSUME NEW o \in Reader, late(o)
      PROVE  /\ reader'[o] \in ReaderState
             /\ reader'[o].late = TRUE
    <2>1. reader[o] \in [pc : {"storing"}, query : Query, saw : Seen, late : BOOLEAN]
        BY <1>4, ReaderTypes DEF Inv
    <2>2. /\ [reader[o] EXCEPT !.late = TRUE] \in ReaderState
          /\ [reader[o] EXCEPT !.late = TRUE].late = TRUE
        BY <2>1 DEF ReaderState
    <2> QED
        BY <1>2, <1>4, <2>2
<1>5. \A o \in Reader : ~late(o) => reader'[o] = reader[o]
    BY <1>2
<1>6. reader' \in [Reader -> ReaderState]
    <2>1. \A o \in Reader : reader'[o] \in ReaderState
        BY <1>4, <1>5 DEF Inv, TypeOK
    <2> QED
        BY <1>2, <2>1
<1>7. NotLateIsFresh'
    <2> SUFFICES ASSUME NEW o \in Reader, reader'[o].pc = "storing", ~reader'[o].late,
                        NEW t \in Reads[reader'[o].query]
                 PROVE  reader'[o].saw[t] = written'[t]
        BY DEF NotLateIsFresh
    <2>1. reader'[o] = reader[o] /\ ~late(o)
        BY <1>4, <1>5
    <2>2. t \in Table \ ts
        BY <2>1, ReaderTypes, QueryCacheAssumption DEF Inv
    <2> QED
        BY <1>3, <2>1, <2>2 DEF Inv, NotLateIsFresh
<1> QED
    BY <1>2, <1>3, <1>6, <1>7

LEMMA WriteKeeps ==
    ASSUME Inv, NEW w \in Writer, NEW ts \in SUBSET Table, Write(w, ts)
    PROVE  Inv'
<1>0. PICK whole \in BOOLEAN, u \in Table :
          LET tables == IF whole THEN Table ELSE {u} IN
          /\ writer[w].pc = "done" /\ Commits(ts, tables)
          /\ writer' = [writer EXCEPT ![w] =
                 [pc |-> "written", whole |-> whole, tables |-> tables, keys |-> {}]]
    BY DEF Write
<1> DEFINE tables == IF whole THEN Table ELSE {u}
           new == [pc |-> "written", whole |-> whole, tables |-> tables, keys |-> {}]
<1>1. /\ new \in WriterState /\ new.pc = "written" /\ new.keys = {} /\ new.tables = tables
      /\ IF new.whole THEN new.tables = Table ELSE new.tables = {u}
    BY DEF WriterState
<1>2. writer' = [writer EXCEPT ![w] = new] /\ Commits(ts, tables) /\ writer[w].pc = "done"
    BY <1>0
<1> HIDE DEF new, tables
<1>3. \A v \in Writer : writer'[v] = IF v = w THEN new ELSE writer[v]
    BY <1>2 DEF Inv, TypeOK
<1>4. /\ written' \in Seen /\ reader' \in [Reader -> ReaderState] /\ NotLateIsFresh'
      /\ \A t \in Table \ ts : written'[t] = written[t]
      /\ missed' = missed \union
             {q \in Query : /\ Cached(q) /\ ts \intersect Reads[q] # {}
                            /\ Reads[q] \intersect tables = {}}
      /\ UNCHANGED <<entry, index, exposed, faults>>
    BY <1>2, CommitsKeeps
<1>5. TypeOK'
    <2>1. writer' \in [Writer -> WriterState]
        BY <1>1, <1>2 DEF Inv, TypeOK
    <2> QED
        BY <1>4, <2>1 DEF Inv, TypeOK, Cached
<1>8. \A v \in Writer : writer'[v].pc # "written" => v # w /\ writer'[v] = writer[v]
    BY <1>1, <1>3
<1>9. \A p \in Query : Held(p) => Held(p)'
    BY <1>2, <1>3 DEF Held
<1>10. WholeOrOne'
    BY <1>1, <1>3 DEF Inv, WholeOrOne, Meets
<1>11. CollectedAreHeld'
    BY <1>4, <1>8, <1>9 DEF Inv, CollectedAreHeld, Meets, Cached
<1>12. UnlinkedAreExposed'
    BY <1>4, <1>8 DEF Inv, UnlinkedAreExposed, Meets, Cached
<1>13. IndexedOrHeld'
    BY <1>4, <1>9 DEF Inv, IndexedOrHeld, Indexed, Cached
<1>14. StaleEntriesAreAboutToGo'
    <2> SUFFICES ASSUME NEW p \in Query \ (exposed' \union missed'), Stale(p)'
                 PROVE  AboutToGo(p)'
        BY DEF StaleEntriesAreAboutToGo
    <2>0. Cached(p) /\ p \notin exposed /\ p \notin missed
        BY <1>4 DEF Stale, Cached
    <2>1. CASE ts \intersect Reads[p] # {}
        <3>1. Reads[p] \intersect tables # {}
            BY <1>4, <2>0, <2>1
        <3>2. writer'[w].pc = "written" /\ Reads[p] \intersect writer'[w].tables # {}
            BY <1>1, <1>3, <3>1
        <3> QED
            BY <3>2 DEF AboutToGo
    <2>2. CASE ts \intersect Reads[p] = {}
        <3>1. Stale(p)
            BY <1>4, <2>2, QueryCacheAssumption DEF Stale, Cached
        <3>2. AboutToGo(p)
            BY <2>0, <3>1 DEF Inv, StaleEntriesAreAboutToGo
        <3> QED
            BY <1>2, <1>3, <3>2 DEF AboutToGo
    <2> QED
        BY <2>1, <2>2
<1> QED
    BY <1>4, <1>5, <1>10, <1>11, <1>12, <1>13, <1>14 DEF Inv

LEMMA WriteUnseenKeeps ==
    ASSUME Inv, NEW ts \in SUBSET Table, WriteUnseen(ts)
    PROVE  Inv'
<1>0. Commits(ts, {}) /\ UNCHANGED writer
    BY DEF WriteUnseen
<1>1. /\ written' \in Seen /\ reader' \in [Reader -> ReaderState] /\ NotLateIsFresh'
      /\ \A t \in Table \ ts : written'[t] = written[t]
      /\ missed' = missed \union {q \in Query : Cached(q) /\ ts \intersect Reads[q] # {}}
      /\ UNCHANGED <<entry, index, exposed, faults, writer>>
    <2>1. /\ written' \in Seen /\ reader' \in [Reader -> ReaderState] /\ NotLateIsFresh'
          /\ \A t \in Table \ ts : written'[t] = written[t]
          /\ missed' = missed \union
                 {q \in Query : /\ Cached(q) /\ ts \intersect Reads[q] # {}
                                /\ Reads[q] \intersect {} = {}}
          /\ UNCHANGED <<entry, index, exposed, faults>>
        BY <1>0, CommitsKeeps
    <2>2. \A q \in Query : Reads[q] \intersect {} = {}
        OBVIOUS
    <2> QED
        BY <1>0, <2>1, <2>2
<1>2. TypeOK'
    BY <1>1 DEF Inv, TypeOK, Cached
<1>3. StaleEntriesAreAboutToGo'
    <2> SUFFICES ASSUME NEW p \in Query \ (exposed' \union missed'), Stale(p)'
                 PROVE  AboutToGo(p)
        BY <1>1 DEF StaleEntriesAreAboutToGo, AboutToGo
    <2>1. Cached(p) /\ p \notin exposed /\ p \notin missed /\ ts \intersect Reads[p] = {}
        BY <1>1 DEF Stale, Cached
    <2>2. Stale(p)
        BY <1>1, <2>1, QueryCacheAssumption DEF Stale, Cached
    <2> QED
        BY <2>1, <2>2 DEF Inv, StaleEntriesAreAboutToGo
<1>4. WholeOrOne' /\ CollectedAreHeld' /\ UnlinkedAreExposed' /\ IndexedOrHeld'
    BY <1>1
    DEF Inv, WholeOrOne, CollectedAreHeld, UnlinkedAreExposed, IndexedOrHeld,
        Meets, Held, Indexed, Cached
<1> QED
    BY <1>1, <1>2, <1>3, <1>4 DEF Inv

LEMMA CollectKeeps == ASSUME Inv, NEW w \in Writer, Collect(w) PROVE Inv'
<1> DEFINE found == IF writer[w].whole
                      THEN {q \in Query : Cached(q)}
                      ELSE UNION {index[t].keys : t \in writer[w].tables}
           new == [writer[w] EXCEPT !.pc = "collected", !.keys = found]
<1>1. writer[w] \in Busy /\ writer[w].pc = "written"
    BY WriterTypes DEF Collect, Inv
<1>2. /\ writer' = [writer EXCEPT ![w] = new]
      /\ UNCHANGED <<written, entry, index, reader, exposed, missed, faults>>
    BY DEF Collect
<1>3. /\ IF writer[w].whole THEN writer[w].tables = Table ELSE \E t \in Table : writer[w].tables = {t}
      /\ writer[w].tables \subseteq Table
    BY <1>1, BusyTypes DEF Inv, WholeOrOne
<1>4. found \subseteq Query
    BY <1>3 DEF Inv, TypeOK, TableIndex
<1>5. \A q \in found : Reads[q] = {} \/ Meets(w, q)
    <2> SUFFICES ASSUME NEW q \in found, Reads[q] # {} PROVE Meets(w, q)
        OBVIOUS
    <2>1. CASE writer[w].whole
        BY <1>3, <1>4, <2>1, QueryCacheAssumption DEF Meets
    <2>2. CASE ~writer[w].whole
        <3>1. PICK t \in writer[w].tables : q \in index[t].keys
            BY <2>2
        <3>2. t \in Reads[q]
            BY <1>3, <3>1 DEF Inv, TypeOK
        <3> QED
            BY <3>1, <3>2 DEF Meets
    <2> QED
        BY <2>1, <2>2
<1>6. \A q \in Query \ exposed : Cached(q) /\ Meets(w, q) => Held(q) \/ q \in found
    <2> SUFFICES ASSUME NEW q \in Query \ exposed, Cached(q), Meets(w, q), ~Held(q) PROVE q \in found
        OBVIOUS
    <2>1. PICK t \in writer[w].tables : t \in Reads[q]
        BY DEF Meets
    <2>2. q \in index[t].keys
        BY <2>1 DEF Inv, IndexedOrHeld, Indexed
    <2> QED
        BY <2>1, <2>2
<1>7. writer[w].whole => \A q \in Query : Cached(q) => q \in found
    OBVIOUS
<1> HIDE DEF found
<1>8. /\ new \in WriterState /\ new.pc = "collected" /\ new.keys = found
      /\ new.tables = writer[w].tables /\ new.whole = writer[w].whole
    BY <1>1, <1>4 DEF Busy, WriterState
<1> HIDE DEF new
<1>9. \A v \in Writer : writer'[v] = IF v = w THEN new ELSE writer[v]
    BY <1>2 DEF Inv, TypeOK
<1>10. TypeOK'
    <2>1. writer' \in [Writer -> WriterState]
        BY <1>2, <1>8 DEF Inv, TypeOK
    <2> QED
        BY <1>2, <2>1 DEF Inv, TypeOK, Cached
<1>11. \A v \in Writer, q \in Query : Meets(v, q)' <=> Meets(v, q)
    BY <1>8, <1>9 DEF Meets
<1>12. \A q \in Query : Held(q) \/ q \in found => Held(q)'
    BY <1>1, <1>8, <1>9 DEF Held
<1>13. WholeOrOne'
    <2> SUFFICES ASSUME NEW v \in Writer, writer'[v].pc # "done"
                 PROVE  /\ IF writer'[v].whole THEN writer'[v].tables = Table
                                               ELSE \E t \in Table : writer'[v].tables = {t}
                        /\ writer'[v].pc = "unlinking" => writer'[v].whole
                        /\ \A q \in writer'[v].keys : Reads[q] = {} \/ Meets(v, q)'
        BY DEF WholeOrOne
    <2>1. CASE v = w
        BY <1>3, <1>4, <1>5, <1>8, <1>9, <1>11, <2>1
    <2>2. CASE v # w
        <3>1. writer'[v] = writer[v]
            BY <1>9, <2>2
        <3> QED
            BY <3>1 DEF Inv, WholeOrOne, Meets
    <2> QED
        BY <2>1, <2>2
<1>14. CollectedAreHeld'
    <2> SUFFICES ASSUME NEW v \in Writer, NEW q \in Query \ exposed, writer'[v].pc = "collected",
                        Cached(q), Meets(v, q)
                 PROVE  Held(q)' /\ (writer'[v].whole => q \in writer'[v].keys)
        BY <1>2, <1>11 DEF CollectedAreHeld, Cached
    <2>1. CASE v = w
        BY <1>6, <1>7, <1>8, <1>9, <1>12, <2>1
    <2>2. CASE v # w
        BY <1>9, <1>12, <2>2 DEF Inv, CollectedAreHeld
    <2> QED
        BY <2>1, <2>2
<1>15. UnlinkedAreExposed'
    BY <1>2, <1>8, <1>9, <1>11 DEF Inv, UnlinkedAreExposed, Cached
<1>16. IndexedOrHeld'
    BY <1>2, <1>12 DEF Inv, IndexedOrHeld, Indexed, Cached
<1>17. StaleEntriesAreAboutToGo'
    <2> SUFFICES ASSUME NEW q \in Query \ (exposed \union missed), Stale(q) PROVE AboutToGo(q)'
        BY <1>2 DEF StaleEntriesAreAboutToGo, Stale, Cached
    <2>1. PICK v \in Writer : \/ writer[v].pc = "written" /\ Meets(v, q)
                              \/ writer[v].pc = "collected" /\ q \in writer[v].keys
        BY DEF Inv, StaleEntriesAreAboutToGo, AboutToGo, Meets
    <2>2. CASE v = w
        <3>1. Held(q)'
            BY <1>1, <1>6, <1>12, <2>1, <2>2 DEF Stale
        <3> QED
            BY <3>1 DEF Held, AboutToGo
    <2>3. CASE v # w
        BY <1>9, <2>1, <2>3 DEF AboutToGo, Meets
    <2> QED
        BY <2>2, <2>3
<1>18. NotLateIsFresh'
    BY <1>2 DEF Inv, NotLateIsFresh
<1> QED
    BY <1>10, <1>13, <1>14, <1>15, <1>16, <1>17, <1>18 DEF Inv

LEMMA DeleteKeeps == ASSUME Inv, NEW w \in Writer, Delete(w) PROVE Inv'
<1> DEFINE gone == writer[w].keys
           new == IF writer[w].whole THEN [writer[w] EXCEPT !.pc = "unlinking"] ELSE Done
<1>1. /\ writer[w] \in Busy /\ writer[w].pc = "collected"
      /\ UNCHANGED <<written, reader, faults>>
    BY WriterTypes DEF Delete, Inv
<1>2. /\ entry' = [q \in Query |-> IF q \in gone THEN NoEntry ELSE entry[q]]
      /\ exposed' = exposed \ gone /\ missed' = missed \ gone
      /\ index' = IF writer[w].whole THEN index ELSE Unindexed(writer[w].tables)
      /\ writer' = [writer EXCEPT ![w] = new]
    BY DEF Delete
<1>3. /\ IF writer[w].whole THEN writer[w].tables = Table ELSE \E t \in Table : writer[w].tables = {t}
      /\ gone \subseteq Query
    BY <1>1, BusyTypes DEF Inv, WholeOrOne
<1>4. /\ new \in WriterState /\ new.pc \in {"unlinking", "done"}
      /\ new.pc = "unlinking" => /\ writer[w].whole /\ new.whole
                                 /\ new.tables = writer[w].tables /\ new.keys = gone
    <2>1. Done.pc = "done" /\ Done \in WriterState
        BY DEF Done, WriterState
    <2>2. [writer[w] EXCEPT !.pc = "unlinking"] \in Busy
        BY <1>1, BusyTypes
    <2> QED
        BY <1>1, <2>1, <2>2, BusyTypes
<1> HIDE DEF new, gone
<1>5. \A v \in Writer : writer'[v] = IF v = w THEN new ELSE writer[v]
    BY <1>2 DEF Inv, TypeOK
<1>6. \A q \in Query : Cached(q)' => q \notin gone /\ entry'[q] = entry[q] /\ Cached(q)
    <2>1. ~(NoEntry.ttl > 0)
        BY DEF NoEntry
    <2> QED
        BY <1>2, <2>1 DEF Cached
<1>7. \A q \in Query : q \notin gone /\ Held(q) => Held(q)'
    <2> SUFFICES ASSUME NEW q \in Query \ gone, NEW v \in Writer,
                        writer[v].pc = "collected", q \in writer[v].keys
                 PROVE  Held(q)'
        BY DEF Held
    <2>1. v # w
        BY DEF gone
    <2> QED
        BY <1>5, <2>1 DEF Held
<1>8. \A t \in Table : \/ index'[t] = index[t]
                       \/ index'[t] = NoIndex /\ t \in writer[w].tables /\ ~writer[w].whole
    BY <1>2 DEF Unindexed
<1>9. NoIndex \in TableIndex /\ NoIndex.keys = {}
    BY QueryCacheAssumption DEF NoIndex, TableIndex
<1>10. TypeOK'
    <2>1. entry' \in [Query -> Entry]
        BY <1>2, EntryTypes DEF Inv, TypeOK
    <2>2. index' \in [Table -> TableIndex]
        BY <1>2, <1>9 DEF Inv, TypeOK, Unindexed
    <2>3. \A t \in Table : \A q \in index'[t].keys : t \in Reads[q]
        BY <1>8, <1>9 DEF Inv, TypeOK
    <2>4. writer' \in [Writer -> WriterState]
        BY <1>2, <1>4 DEF Inv, TypeOK
    <2>5. exposed' \union missed' \subseteq {q \in Query : Cached(q)'}
        BY <1>2 DEF Inv, TypeOK, Cached
    <2> QED
        BY <1>1, <2>1, <2>2, <2>3, <2>4, <2>5 DEF Inv, TypeOK
<1>11. WholeOrOne'
    <2> SUFFICES ASSUME NEW v \in Writer, writer'[v].pc # "done"
                 PROVE  /\ IF writer'[v].whole THEN writer'[v].tables = Table
                                               ELSE \E t \in Table : writer'[v].tables = {t}
                        /\ writer'[v].pc = "unlinking" => writer'[v].whole
                        /\ \A q \in writer'[v].keys : Reads[q] = {} \/ Meets(v, q)'
        BY DEF WholeOrOne
    <2>1. CASE v = w
        <3>1. writer'[w].tables = writer[w].tables /\ writer'[w].whole /\ writer'[w].keys = gone
              /\ writer'[w].tables = Table
            BY <1>3, <1>4, <1>5, <2>1
        <3>2. \A q \in gone : Reads[q] = {} \/ Meets(w, q)
            BY <1>1 DEF Inv, WholeOrOne, gone
        <3> QED
            BY <2>1, <3>1, <3>2 DEF Meets
    <2>2. CASE v # w
        <3>1. writer'[v] = writer[v]
            BY <1>5, <2>2
        <3> QED
            BY <3>1 DEF Inv, WholeOrOne, Meets
    <2> QED
        BY <2>1, <2>2
<1>12. CollectedAreHeld'
    <2> SUFFICES ASSUME NEW v \in Writer, NEW q \in Query \ exposed', writer'[v].pc = "collected",
                        Cached(q)', Meets(v, q)'
                 PROVE  Held(q)' /\ (writer'[v].whole => q \in writer'[v].keys)
        BY DEF CollectedAreHeld
    <2>1. v # w /\ writer'[v] = writer[v]
        BY <1>4, <1>5
    <2>2. q \notin gone /\ Cached(q) /\ q \notin exposed
        BY <1>2, <1>6
    <2>3. Meets(v, q)
        BY <2>1 DEF Meets
    <2>4. Held(q) /\ (writer[v].whole => q \in writer[v].keys)
        BY <2>1, <2>2, <2>3 DEF Inv, CollectedAreHeld
    <2> QED
        BY <1>7, <2>1, <2>2, <2>4
<1>13. UnlinkedAreExposed'
    <2> SUFFICES ASSUME NEW v \in Writer, NEW q \in Query, writer'[v].pc = "unlinking",
                        Cached(q)', Meets(v, q)'
                 PROVE  q \in exposed'
        BY DEF UnlinkedAreExposed
    <2>1. q \notin gone /\ Cached(q)
        BY <1>6
    <2>2. CASE v = w
        <3>1. writer[w].whole /\ Meets(w, q)
            BY <1>4, <1>5, <2>2 DEF Meets
        <3>2. q \in exposed
            BY <1>1, <2>1, <3>1 DEF Inv, CollectedAreHeld, gone
        <3> QED
            BY <1>2, <2>1, <3>2
    <2>3. CASE v # w
        <3>1. writer'[v] = writer[v]
            BY <1>5, <2>3
        <3>2. q \in exposed
            BY <2>1, <3>1 DEF Inv, UnlinkedAreExposed, Meets
        <3> QED
            BY <1>2, <2>1, <3>2
    <2> QED
        BY <2>2, <2>3
<1>14. IndexedOrHeld'
    <2> SUFFICES ASSUME NEW q \in Query \ exposed', Cached(q)', ~Held(q)' PROVE Indexed(q)'
        BY DEF IndexedOrHeld
    <2>1. q \notin gone /\ Cached(q) /\ q \notin exposed /\ entry'[q] = entry[q] /\ ~Held(q)
        BY <1>2, <1>6, <1>7
    <2>2. Indexed(q)
        BY <2>1 DEF Inv, IndexedOrHeld
    <2>3. ~Meets(w, q)
        BY <1>1, <2>1 DEF Inv, CollectedAreHeld
    <2>4. \A t \in Reads[q] : index'[t] = index[t]
        BY <1>8, <2>3, QueryCacheAssumption DEF Meets
    <2> QED
        BY <2>1, <2>2, <2>4 DEF Indexed
<1>15. StaleEntriesAreAboutToGo'
    <2> SUFFICES ASSUME NEW q \in Query \ (exposed' \union missed'), Stale(q)' PROVE AboutToGo(q)'
        BY DEF StaleEntriesAreAboutToGo
    <2>1. /\ q \notin gone /\ Cached(q) /\ q \notin exposed /\ q \notin missed
          /\ entry'[q] = entry[q]
        BY <1>2, <1>6 DEF Stale
    <2>2. Stale(q)
        BY <1>1, <2>1 DEF Stale
    <2>3. PICK v \in Writer : \/ writer[v].pc = "written" /\ Meets(v, q)
                              \/ writer[v].pc = "collected" /\ q \in writer[v].keys
        BY <2>1, <2>2 DEF Inv, StaleEntriesAreAboutToGo, AboutToGo, Meets
    <2>4. v # w
        BY <1>1, <2>1, <2>3 DEF gone
    <2> QED
        BY <1>5, <2>3, <2>4 DEF AboutToGo, Meets
<1>16. NotLateIsFresh'
    BY <1>1 DEF Inv, NotLateIsFresh
<1> QED
    BY <1>10, <1>11, <1>12, <1>13, <1>14, <1>15, <1>16 DEF Inv

(* What is left of a writer that is done holds nothing.                    *)
LEMMA DoneLeaves ==
    ASSUME Inv, NEW w \in Writer, writer' = [writer EXCEPT ![w] = Done],
           UNCHANGED <<written, entry, reader>>, exposed \subseteq exposed'
    PROVE  /\ writer' \in [Writer -> WriterState]
           /\ \A v \in Writer : writer'[v].pc # "done" => v # w /\ writer'[v] = writer[v]
           /\ \A v \in Writer : v # w => writer'[v] = writer[v]
           /\ WholeOrOne' /\ UnlinkedAreExposed' /\ NotLateIsFresh'
<1>1. Done.pc = "done" /\ Done \in WriterState
    BY DEF Done, WriterState
<1>2. \A v \in Writer : writer'[v] = IF v = w THEN Done ELSE writer[v]
    BY DEF Inv, TypeOK
<1>3. writer' \in [Writer -> WriterState]
    BY <1>1 DEF Inv, TypeOK
<1>4. \A v \in Writer : writer'[v].pc # "done" => v # w /\ writer'[v] = writer[v]
    BY <1>1, <1>2
<1>5. WholeOrOne'
    BY <1>4 DEF Inv, WholeOrOne, Meets
<1>6. UnlinkedAreExposed'
    BY <1>4 DEF Inv, UnlinkedAreExposed, Meets, Cached
<1>7. NotLateIsFresh'
    BY DEF Inv, NotLateIsFresh
<1> QED
    BY <1>2, <1>3, <1>4, <1>5, <1>6, <1>7

LEMMA UnlinkKeeps == ASSUME Inv, NEW w \in Writer, Unlink(w) PROVE Inv'
<1>1. /\ writer[w].pc = "unlinking" /\ writer' = [writer EXCEPT ![w] = Done]
      /\ index' = Unindexed(writer[w].tables)
      /\ UNCHANGED <<written, entry, reader, exposed, missed, faults>>
    BY DEF Unlink
<1>2. writer[w].tables = Table
    BY <1>1 DEF Inv, WholeOrOne
<1>3. \A q \in Query \ exposed : Cached(q) => Reads[q] = {}
    BY <1>1, <1>2, QueryCacheAssumption DEF Inv, UnlinkedAreExposed, Meets
<1>4. NoIndex \in TableIndex /\ NoIndex.keys = {}
    BY QueryCacheAssumption DEF NoIndex, TableIndex
<1>5. TypeOK'
    <2>1. index' \in [Table -> TableIndex] /\ \A t \in Table : index'[t].keys = {}
        BY <1>1, <1>2, <1>4 DEF Unindexed
    <2> QED
        BY <1>1, <2>1, DoneLeaves DEF Inv, TypeOK, Cached
<1>6. CollectedAreHeld'
    BY <1>1, <1>3, DoneLeaves DEF CollectedAreHeld, Meets, Cached
<1>7. IndexedOrHeld'
    BY <1>1, <1>3 DEF IndexedOrHeld, Indexed, Cached
<1>8. StaleEntriesAreAboutToGo'
    BY <1>1, <1>3 DEF StaleEntriesAreAboutToGo, Stale, Cached
<1> QED
    BY <1>1, <1>5, <1>6, <1>7, <1>8, DoneLeaves DEF Inv

LEMMA InvalidationFailsKeeps == ASSUME Inv, NEW w \in Writer, InvalidationFails(w) PROVE Inv'
<1>1. /\ writer[w].pc # "done" /\ writer' = [writer EXCEPT ![w] = Done] /\ faults' = faults + 1
      /\ UNCHANGED <<written, entry, index, reader, missed>>
    BY DEF InvalidationFails
<1>2. exposed' = exposed \union {q \in Query : Cached(q) /\ Meets(w, q)}
    BY DEF InvalidationFails, Meets
<1>3. ASSUME NEW q \in Query \ exposed', Cached(q), Reads[q] # {}
      PROVE  q \notin exposed /\ ~Meets(w, q) /\ q \notin writer[w].keys
    BY <1>1, <1>2, <1>3 DEF Inv, WholeOrOne
<1>4. ASSUME NEW q \in Query \ exposed', Cached(q), Reads[q] # {}, Held(q) PROVE Held(q)'
    <2>1. PICK v \in Writer : writer[v].pc = "collected" /\ q \in writer[v].keys
        BY <1>4 DEF Held
    <2>2. v # w
        BY <1>3, <1>4, <2>1
    <2> QED
        BY <1>1, <2>1, <2>2, DoneLeaves, <1>2 DEF Held
<1>5. TypeOK'
    <2>1. writer' \in [Writer -> WriterState]
        BY <1>1, <1>2, DoneLeaves
    <2>2. exposed' \union missed' \subseteq {q \in Query : Cached(q)'}
        BY <1>1, <1>2 DEF Inv, TypeOK, Cached
    <2>3. faults' \in Nat
        BY <1>1 DEF Inv, TypeOK
    <2> QED
        BY <1>1, <2>1, <2>2, <2>3 DEF Inv, TypeOK
<1>6. CollectedAreHeld'
    <2> SUFFICES ASSUME NEW v \in Writer, NEW q \in Query \ exposed', writer'[v].pc = "collected",
                        Cached(q), Meets(v, q)'
                 PROVE  Held(q)' /\ (writer'[v].whole => q \in writer'[v].keys)
        BY <1>1 DEF CollectedAreHeld, Cached
    <2>1. v # w /\ writer'[v] = writer[v]
        BY <1>1, <1>2, DoneLeaves
    <2>2. Reads[q] # {} /\ Meets(v, q)
        BY <2>1 DEF Meets
    <2> QED
        BY <1>3, <1>4, <2>1, <2>2 DEF Inv, CollectedAreHeld
<1>7. IndexedOrHeld'
    <2> SUFFICES ASSUME NEW q \in Query \ exposed', Cached(q), ~Indexed(q) PROVE Held(q)'
        BY <1>1 DEF IndexedOrHeld, Indexed, Cached
    <2>1. Reads[q] # {}
        BY DEF Indexed
    <2> QED
        BY <1>3, <1>4, <2>1 DEF Inv, IndexedOrHeld
<1>8. StaleEntriesAreAboutToGo'
    <2> SUFFICES ASSUME NEW q \in Query \ (exposed' \union missed'), Stale(q) PROVE AboutToGo(q)'
        BY <1>1 DEF StaleEntriesAreAboutToGo, Stale, Cached
    <2>1. /\ Cached(q) /\ q \notin exposed /\ q \notin missed
          /\ ~Meets(w, q) /\ q \notin writer[w].keys
        BY <1>1, <1>2, <1>3 DEF Stale
    <2>2. PICK v \in Writer : \/ writer[v].pc = "written" /\ Meets(v, q)
                              \/ writer[v].pc = "collected" /\ q \in writer[v].keys
        BY <2>1 DEF Inv, StaleEntriesAreAboutToGo, AboutToGo, Meets
    <2>3. v # w
        BY <2>1, <2>2
    <2> QED
        BY <1>1, <1>2, <2>2, <2>3, DoneLeaves DEF AboutToGo, Meets
<1> QED
    BY <1>1, <1>2, <1>5, <1>6, <1>7, <1>8, DoneLeaves DEF Inv

LEMMA PassesKeeps == ASSUME Inv, Passes PROVE Inv'
<1>1. /\ entry' = [q \in Query |-> Aged(entry[q])]
      /\ index' = [t \in Table |->
             IF index[t].ttl > 1 THEN [index[t] EXCEPT !.ttl = @ - 1] ELSE NoIndex]
      /\ exposed' = {q \in exposed : entry[q].ttl > 1}
      /\ missed' = {q \in missed : entry[q].ttl > 1}
      /\ UNCHANGED <<written, reader, writer, faults>>
    BY DEF Passes
<1>2. ASSUME NEW q \in Query
      PROVE  /\ entry'[q] \in Entry
             /\ entry[q].ttl > 1 => /\ entry'[q].ttl = entry[q].ttl - 1 /\ entry'[q].saw = entry[q].saw
                                    /\ Cached(q)
             /\ Cached(q)' <=> entry[q].ttl > 1
    <2>1. TTL \in Nat /\ entry[q].ttl \in 0 .. TTL
        BY EntryTypes, QueryCacheAssumption DEF Inv
    <2>2. CASE entry[q].ttl > 1
        <3>1. entry[q] \in [ttl : 1 .. TTL, saw : Seen] /\ Cached(q)
            BY <2>1, <2>2, EntryTypes DEF Inv, Cached
        <3>2. entry'[q] = [entry[q] EXCEPT !.ttl = @ - 1]
            BY <1>1, <2>2 DEF Aged
        <3>3. /\ entry'[q].ttl = entry[q].ttl - 1 /\ entry'[q].saw = entry[q].saw
              /\ entry'[q] \in [ttl : 1 .. TTL, saw : Seen]
            BY <2>1, <2>2, <3>1, <3>2
        <3> QED
            BY <2>1, <2>2, <3>1, <3>3 DEF Entry, Cached
    <2>3. CASE ~(entry[q].ttl > 1)
        <3>1. entry'[q] = NoEntry /\ NoEntry.ttl = 0 /\ NoEntry \in Entry
            BY <1>1, <2>3, EntryTypes DEF Aged, Inv
        <3> QED
            BY <2>3, <3>1 DEF Cached
    <2> QED
        BY <2>2, <2>3
<1>3. ASSUME NEW t \in Table
      PROVE  /\ index'[t] \in TableIndex /\ index'[t].keys \subseteq index[t].keys
             /\ index[t].ttl \in Nat
             /\ index[t].ttl > 1 => index'[t].ttl = index[t].ttl - 1 /\ index'[t].keys = index[t].keys
    <2>1. index[t] \in TableIndex /\ index[t].ttl \in 0 .. TTL + IndexExtra
        BY DEF Inv, TypeOK, TableIndex
    <2>2. CASE index[t].ttl > 1
        <3>1. index'[t] = [index[t] EXCEPT !.ttl = @ - 1]
            BY <1>1, <2>2
        <3>2. /\ index'[t].ttl = index[t].ttl - 1 /\ index'[t].keys = index[t].keys
              /\ index'[t] \in TableIndex
            BY <2>1, <2>2, <3>1, QueryCacheAssumption DEF TableIndex
        <3> QED
            BY <2>1, <3>2, QueryCacheAssumption
    <2>3. CASE ~(index[t].ttl > 1)
        <3>1. index'[t] = NoIndex
            BY <1>1, <2>3
        <3>2. NoIndex \in TableIndex /\ NoIndex.keys = {}
            BY QueryCacheAssumption DEF NoIndex, TableIndex
        <3> QED
            BY <2>1, <2>3, <3>1, <3>2, QueryCacheAssumption
    <2> QED
        BY <2>2, <2>3
<1>4. TypeOK'
    <2>1. entry' \in [Query -> Entry]
        BY <1>1, <1>2
    <2>2. index' \in [Table -> TableIndex]
        BY <1>1, <1>3
    <2>3. \A t \in Table : \A q \in index'[t].keys : t \in Reads[q]
        BY <1>3 DEF Inv, TypeOK
    <2>4. exposed' \union missed' \subseteq {q \in Query : Cached(q)'}
        BY <1>1, <1>2 DEF Inv, TypeOK
    <2> QED
        BY <1>1, <2>1, <2>2, <2>3, <2>4 DEF Inv, TypeOK
<1>5. \A q \in Query : Cached(q)' =>
          Cached(q) /\ (q \in exposed => q \in exposed') /\ (q \in missed => q \in missed')
    BY <1>1, <1>2
<1>6. \A q \in Query : (Held(q)' <=> Held(q)) /\ \A w \in Writer : Meets(w, q)' <=> Meets(w, q)
    BY <1>1 DEF Held, Meets
<1>7. WholeOrOne' /\ NotLateIsFresh'
    BY <1>1 DEF Inv, WholeOrOne, NotLateIsFresh, Meets
<1>8. CollectedAreHeld'
    BY <1>1, <1>5, <1>6 DEF Inv, CollectedAreHeld
<1>9. UnlinkedAreExposed'
    BY <1>1, <1>5, <1>6 DEF Inv, UnlinkedAreExposed
<1>10. IndexedOrHeld'
    <2> SUFFICES ASSUME NEW q \in Query \ exposed', Cached(q)', ~Held(q)' PROVE Indexed(q)'
        BY DEF IndexedOrHeld
    <2> SUFFICES ASSUME NEW t \in Reads[q]
                 PROVE  q \in index'[t].keys /\ index'[t].ttl >= entry'[q].ttl
        BY DEF Indexed
    <2>1. t \in Table /\ entry[q].ttl > 1 /\ entry[q].ttl \in Nat
        BY <1>2, EntryTypes, QueryCacheAssumption DEF Inv
    <2>2. q \in index[t].keys /\ index[t].ttl >= entry[q].ttl
        <3>1. q \notin exposed /\ Cached(q) /\ ~Held(q)
            BY <1>1, <1>5, <1>6
        <3> QED
            BY <3>1 DEF Inv, IndexedOrHeld, Indexed
    <2>3. index[t].ttl \in Nat /\ index[t].ttl > 1
        BY <1>3, <2>1, <2>2
    <2>4. index'[t].ttl = index[t].ttl - 1 /\ index'[t].keys = index[t].keys
        BY <1>3, <2>1, <2>3
    <2>5. entry'[q].ttl = entry[q].ttl - 1
        BY <1>2, <2>1
    <2> QED
        BY <2>1, <2>2, <2>3, <2>4, <2>5
<1>11. StaleEntriesAreAboutToGo'
    <2> SUFFICES ASSUME NEW q \in Query \ (exposed' \union missed'), Stale(q)' PROVE AboutToGo(q)
        BY <1>1 DEF StaleEntriesAreAboutToGo, AboutToGo
    <2>1. q \notin exposed /\ q \notin missed /\ Stale(q)
        BY <1>1, <1>2, <1>5 DEF Stale
    <2> QED
        BY <2>1 DEF Inv, StaleEntriesAreAboutToGo
<1> QED
    BY <1>4, <1>7, <1>8, <1>9, <1>10, <1>11 DEF Inv

----------------------------------------------------------------------------
LEMMA Initially == QueryCacheInit => Inv
<1> SUFFICES ASSUME QueryCacheInit PROVE Inv
    OBVIOUS
<1>1. /\ Done.pc = "done" /\ Done \in ReaderState /\ Done \in WriterState
      /\ NoEntry.ttl = 0 /\ NoEntry \in Entry /\ NoIndex.keys = {} /\ NoIndex \in TableIndex
    BY QueryCacheAssumption
    DEF Done, NoEntry, NoIndex, ReaderState, WriterState, Entry, TableIndex
<1>2. \A q \in Query : ~Cached(q)
    BY <1>1 DEF QueryCacheInit, Cached
<1>3. (\A r \in Reader : reader[r].pc = "done") /\ \A w \in Writer : writer[w].pc = "done"
    BY <1>1 DEF QueryCacheInit
<1>4. TypeOK
    BY <1>1, QueryCacheAssumption DEF QueryCacheInit, TypeOK, Seen
<1> QED
    BY <1>2, <1>3, <1>4
    DEF Inv, WholeOrOne, NotLateIsFresh, CollectedAreHeld, UnlinkedAreExposed, IndexedOrHeld,
        StaleEntriesAreAboutToGo, Stale

LEMMA Step == Inv /\ [QueryCacheNext]_vars => Inv'
<1> SUFFICES ASSUME Inv, [QueryCacheNext]_vars PROVE Inv'
    OBVIOUS
<1>1. CASE UNCHANGED vars
    BY <1>1
    DEF vars, Inv, TypeOK, WholeOrOne, NotLateIsFresh, CollectedAreHeld, UnlinkedAreExposed,
        IndexedOrHeld, StaleEntriesAreAboutToGo, Cached, Meets, Held, Indexed, Stale, AboutToGo
<1>2. CASE \E r \in Reader : Run(r) \/ NotStored(r) \/ Store(r) \/ \E q \in Query : Miss(r, q)
    BY <1>2, RunKeeps, NotStoredKeeps, StoreKeeps, MissKeeps
<1>3. CASE \E w \in Writer : Invalidates(w) \/ InvalidationFails(w)
    BY <1>3, CollectKeeps, DeleteKeeps, UnlinkKeeps, InvalidationFailsKeeps DEF Invalidates
<1>4. CASE \E ts \in SUBSET Table \ {{}} : WriteUnseen(ts) \/ \E w \in Writer : Write(w, ts)
    BY <1>4, WriteKeeps, WriteUnseenKeeps
<1>5. CASE Passes
    BY <1>5, PassesKeeps
<1> QED
    BY <1>1, <1>2, <1>3, <1>4, <1>5 DEF QueryCacheNext

LEMMA Invariance == Spec => []Inv
BY Initially, Step, PTL DEF Spec

(* The cache holds what it should: results with a lifetime, and indexes of *)
(* the queries that read the table.                                        *)
THEOREM TypeCorrect == Spec => []TypeOK
<1>1. Inv => TypeOK
    BY DEF Inv
<1> QED
    BY <1>1, Invariance, PTL

(* However reads, stores, writes and invalidations interleave, an entry    *)
(* that is out of date is about to be deleted, unless it was stored past   *)
(* an invalidation, one was lost, or a write did not look for it.          *)
THEOREM StaleAreAboutToGo == Spec => []StaleEntriesAreAboutToGo
<1>1. Inv => StaleEntriesAreAboutToGo
    BY DEF Inv
<1> QED
    BY <1>1, Invariance, PTL

(* The index of a table leads to its entries for as long as they live, so  *)
(* that an invalidation finds them.                                        *)
THEOREM EntriesFound == Spec => []EntriesAreIndexed
<1>1. Inv => EntriesAreIndexed
    BY DEF Inv, IndexedOrHeld, EntriesAreIndexed, Indexed, Held, AboutToGo
<1> QED
    BY <1>1, Invariance, PTL
=============================================================================
