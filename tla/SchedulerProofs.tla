--------------------------- MODULE SchedulerProofs ---------------------------
(***************************************************************************)
(* What Scheduler promises, for every length of time and any number of     *)
(* edits, requests and faults.                                             *)
(***************************************************************************)
EXTENDS Scheduler, FiniteSetTheorems, TLAPS

(* The row as the tick holds it was due, and its runs are at a real time.  *)
TickReadsWhatIsDue ==
    tick # Asleep =>
        /\ tick.read.next <= now
        /\ tick.pc = "spawning" => tick.read.next # Never /\ tick.read.cron # BadCron

(* The row knows the last alert for as long as it exists.                  *)
RowKnowsAlerts ==
    /\ row.alerted <= now
    /\ row.exists => \A f \in DOMAIN firings : firings[f].stamped <= row.alerted

(* What was not running when the row was read is over, and its alert read. *)
TickSaw ==
    tick # Asleep =>
        \A f \in DOMAIN firings : f \notin tick.beside =>
            firings[f].pc = "over" /\ firings[f].stamped <= tick.read.alerted
RunSaw ==
    \A f, g \in DOMAIN firings : f < g /\ f \notin firings[g].beside =>
        firings[f].pc = "over" /\ firings[f].stamped <= firings[g].seen

Cooled(f, t) == firings[f].seen = Never \/ t + Skew >= firings[f].seen + Cooldown
CooledDown ==
    \A f \in DOMAIN firings :
        /\ firings[f].notifies => Cooled(f, now)
        /\ firings[f].stamped # Never => Cooled(f, firings[f].stamped)

Inv == TypeOK /\ TickReadsWhatIsDue /\ RowKnowsAlerts /\ TickSaw /\ RunSaw /\ CooledDown

----------------------------------------------------------------------------
Awake == [pc : {"advancing", "disabling", "spawning"}, read : Row, beside : SUBSET Nat]

LEMMA TickTypes ==
    ASSUME TypeOK
    PROVE  \/ tick = Asleep /\ tick.pc = "asleep"
           \/ tick # Asleep /\ tick \in Awake
<1>1. tick \in TickState
    BY DEF TypeOK
<1>2. Asleep.pc = "asleep"
    BY DEF Asleep
<1>3. tick = Asleep \/ tick \in Awake
    BY <1>1 DEF TickState, Awake
<1>4. \A a \in Awake : a # Asleep
    BY <1>2 DEF Awake
<1> QED
    BY <1>2, <1>3, <1>4

LEMMA Constants ==
    /\ MaxTime \in Nat \ {0} /\ Cooldown \in Nat /\ Skew \in Nat /\ MaxFaults \in Nat
    /\ Never = 0 /\ BadCron = 0 /\ Time = 0 .. MaxTime
BY SchedulerAssumption DEF Never, BadCron, Time

LEMMA FiringTypes ==
    ASSUME TypeOK, NEW f \in DOMAIN firings
    PROVE  /\ firings[f] \in Firing
           /\ firings[f].seen \in Time /\ firings[f].stamped \in Time
           /\ firings[f].notifies \in BOOLEAN
           /\ f \in Nat /\ DOMAIN firings = 1 .. Len(firings) /\ Len(firings) \in Nat
<1>1. firings \in Seq(Firing)
    BY DEF TypeOK
<1>2. DOMAIN firings = 1 .. Len(firings) /\ Len(firings) \in Nat
    BY <1>1
<1>3. firings[f] \in Firing
    BY <1>1
<1> QED
    BY <1>2, <1>3 DEF Firing

LEMMA RowTypes ==
    ASSUME TypeOK
    PROVE  /\ row \in Row /\ row.exists \in BOOLEAN /\ row.enabled \in BOOLEAN
           /\ row.cron \in Cron \union {BadCron} /\ row.next \in Nat /\ row.alerted \in Time
           /\ Gone \in Row /\ ~Gone.exists /\ Gone.alerted = 0 /\ Gone.next = 0
BY Constants DEF TypeOK, Row, Gone, Never, BadCron

(* An occurrence is after its time.                                        *)
LEMMA Division ==
    ASSUME NEW c \in Nat, c > 0, NEW t \in Nat
    PROVE  /\ t \div c \in Nat
           /\ c * (t \div c) <= t
           /\ t < c * (t \div c) + c
BY SMTT(20)

LEMMA Later ==
    ASSUME NEW c \in Nat, c # 0, NEW t \in Nat
    PROVE  NextOccurrence(c, t) \in Nat /\ NextOccurrence(c, t) > t
<1> DEFINE d == t \div c
<1>1. d \in Nat /\ t < c * d + c
    BY Division
<1> HIDE DEF d
<1>2. (d + 1) * c = c * d + c /\ (d + 1) * c \in Nat
    BY <1>1
<1> QED
    BY <1>1, <1>2 DEF NextOccurrence, d

----------------------------------------------------------------------------
(* The requests and the clock.                                             *)
LEMMA RowMoves ==
    ASSUME Inv, UNCHANGED <<tick, firings>>,
           now' \in Time \ {0}, now' >= now, row' \in Row, row'.alerted <= now',
           row'.exists => row.exists /\ row'.alerted = row.alerted,
           edit' \in {"none", "resetting"}, {nudges', lapses'} \subseteq Seq(Time),
           {edits', faults'} \subseteq Nat
    PROVE  Inv'
<1>1. now \in Nat /\ now' \in Nat /\ Cooldown \in Nat /\ Skew \in Nat
    BY Constants DEF Inv, TypeOK
<1>2. TypeOK'
    BY DEF Inv, TypeOK
<1>3. TickReadsWhatIsDue'
    <2> SUFFICES ASSUME tick # Asleep PROVE tick.read.next <= now'
        BY DEF Inv, TickReadsWhatIsDue
    <2>1. tick.read.next \in Nat /\ tick.read.next <= now
        BY TickTypes DEF Inv, TickReadsWhatIsDue, Awake, Row
    <2> QED
        BY <1>1, <2>1
<1>4. RowKnowsAlerts'
    BY DEF Inv, RowKnowsAlerts
<1>5. TickSaw' /\ RunSaw'
    BY DEF Inv, TickSaw, RunSaw
<1>6. CooledDown'
    <2> SUFFICES ASSUME NEW f \in DOMAIN firings
                 PROVE  /\ firings[f].notifies => Cooled(f, now')
                        /\ firings[f].stamped # Never => Cooled(f, firings[f].stamped)
        BY DEF CooledDown, Cooled
    <2>1. /\ firings[f].notifies => Cooled(f, now)
          /\ firings[f].stamped # Never => Cooled(f, firings[f].stamped)
        BY DEF Inv, CooledDown
    <2>2. firings[f].seen \in Nat
        BY FiringTypes, Constants DEF Inv
    <2> QED
        BY <1>1, <2>1, <2>2 DEF Cooled
<1> QED
    BY <1>2, <1>3, <1>4, <1>5, <1>6 DEF Inv

LEMMA RequestsKeep ==
    ASSUME Inv, Passes \/ RunNow \/ Update \/ ResetNext \/ Remove
    PROVE  Inv'
<1>1. /\ now \in Nat /\ MaxTime \in Nat /\ now \in Time \ {0} /\ now >= now
      /\ row.alerted <= now /\ {nudges, lapses} \subseteq Seq(Time) /\ {edits, faults} \subseteq Nat
      /\ edit \in {"none", "resetting"}
    BY Constants DEF Inv, TypeOK, RowKnowsAlerts
<1>2. CASE Passes
    <2>1. now' \in Time \ {0} /\ now' >= now /\ row.alerted \in Nat /\ row.alerted <= now'
        BY <1>1, <1>2, Constants, RowTypes DEF Passes, Inv
    <2> QED
        BY <1>1, <1>2, <2>1, RowTypes, RowMoves DEF Passes, history, Inv
<1>3. CASE RunNow
    <2>1. row' \in Row /\ row'.alerted = row.alerted /\ row'.exists = row.exists
        BY <1>1, <1>3, RowTypes DEF RunNow, Inv, Row
    <2>2. {nudges', lapses'} \subseteq Seq(Time)
        BY <1>1, <1>3 DEF RunNow
    <2> QED
        BY <1>1, <1>3, <2>1, <2>2, RowMoves DEF RunNow
<1>4. CASE Update
    <2>1. PICK c \in Cron, e \in BOOLEAN :
              /\ row' = [row EXCEPT !.cron = c, !.enabled = e]
              /\ edit' = IF e THEN "resetting" ELSE "none"
              /\ edits' = edits + 1
              /\ UNCHANGED <<now, tick, firings, nudges, lapses, faults>>
        BY <1>4 DEF Update
    <2>2. row' \in Row /\ row'.alerted = row.alerted /\ row'.exists = row.exists
        BY <2>1, RowTypes DEF Inv, Row
    <2>3. {edits', faults'} \subseteq Nat /\ edit' \in {"none", "resetting"}
        BY <1>1, <2>1
    <2> QED
        BY <1>1, <2>1, <2>2, <2>3, RowMoves
<1>5. CASE ResetNext
    <2>1. row' \in Row /\ row'.alerted = row.alerted /\ row'.exists = row.exists
        BY <1>5, RowTypes DEF ResetNext, Inv, Row, Never
    <2> QED
        BY <1>1, <1>5, <2>1, RowMoves DEF ResetNext, history
<1>6. CASE Remove
    <2>1. row' = Gone
        BY <1>6 DEF Remove
    <2>2. row' \in Row /\ row'.alerted <= now /\ ~row'.exists
        BY <1>1, <2>1, RowTypes DEF Inv
    <2> QED
        BY <1>1, <1>6, <2>2, RowMoves DEF Remove, history
<1> QED
    BY <1>2, <1>3, <1>4, <1>5, <1>6

----------------------------------------------------------------------------
(* The tick.                                                               *)
LEMMA TickMoves ==
    ASSUME Inv, UNCHANGED <<now, edit, firings, nudges, edits>>, faults' \in Nat,
           lapses' \in Seq(Time),
           row' \in Row, row'.alerted = row.alerted, row'.exists => row.exists,
           tick' \in TickState,
           tick' # Asleep =>
               \/ /\ tick # Asleep /\ tick'.read = tick.read /\ tick'.beside = tick.beside
                  /\ tick'.pc = "spawning" => tick.read.next # Never /\ tick.read.cron # BadCron
               \/ /\ tick'.read = row /\ tick'.beside = Alive(firings) /\ tick'.pc # "spawning"
                  /\ row.exists /\ row.next <= now
    PROVE  Inv'
<1>1. TypeOK'
    BY DEF Inv, TypeOK
<1>2. TickReadsWhatIsDue'
    BY DEF Inv, TickReadsWhatIsDue
<1>3. RowKnowsAlerts' /\ RunSaw' /\ CooledDown'
    BY DEF Inv, RowKnowsAlerts, RunSaw, CooledDown, Cooled
<1>4. TickSaw'
    BY DEF Inv, TickSaw, RowKnowsAlerts, Alive
<1> QED
    BY <1>1, <1>2, <1>3, <1>4 DEF Inv

LEMMA PollKeeps == ASSUME Inv, Poll PROVE Inv'
<1> DEFINE new == [pc |-> "advancing", read |-> row, beside |-> Alive(firings)]
<1>1. tick' = new /\ Due(row) /\ UNCHANGED <<now, row, edit, firings, nudges, edits, lapses, faults>>
    BY DEF Poll, history
<1>2. Alive(firings) \subseteq Nat
    BY FiringTypes DEF Alive, Inv
<1>3. /\ new \in TickState /\ new.pc = "advancing" /\ new.read = row
      /\ new.beside = Alive(firings)
    BY <1>2, RowTypes DEF TickState, Inv
<1>4. row.exists /\ row.next <= now
    BY <1>1, RowTypes, Constants DEF Due, Inv, TypeOK
<1> HIDE DEF new
<1>5. faults' \in Nat /\ lapses' \in Seq(Time)
    BY <1>1 DEF Inv, TypeOK
<1> QED
    BY <1>1, <1>3, <1>4, <1>5, RowTypes, TickMoves DEF Inv

LEMMA Turned ==
    ASSUME Inv, tick # Asleep, NEW pc \in {"advancing", "disabling", "spawning"}
    PROVE  /\ [tick EXCEPT !.pc = pc] \in TickState
           /\ [tick EXCEPT !.pc = pc].pc = pc
           /\ [tick EXCEPT !.pc = pc].read = tick.read
           /\ [tick EXCEPT !.pc = pc].beside = tick.beside
BY TickTypes DEF Inv, Awake, TickState

LEMMA ReadTypes ==
    ASSUME Inv, tick # Asleep
    PROVE  /\ tick.read \in Row /\ tick.read.next \in Nat /\ tick.read.alerted \in Time
           /\ tick.read.cron \in Cron \union {BadCron} /\ tick.read.cron \in Nat
           /\ tick.beside \subseteq Nat
BY TickTypes, SchedulerAssumption DEF Inv, Awake, Row, BadCron

(* What the tick writes comes after what the process's clock reads, so it  *)
(* is to come, or it is a lapse.                                           *)
LEMMA AdvanceWrites ==
    ASSUME Inv, Advance
    PROVE  /\ tick.pc = "advancing" /\ tick # Asleep /\ tick.read.cron # BadCron
           /\ UNCHANGED <<now, edit, firings, nudges, edits, faults>>
           /\ \E t \in Nat :
                 LET next == NextOccurrence(tick.read.cron, t)
                 IN  /\ next \in Nat
                     /\ row' = IF row.exists THEN [row EXCEPT !.next = next] ELSE row
                     /\ \/ next > now /\ lapses' = lapses
                        \/ next \in Time /\ lapses' = Append(lapses, next)
<1>1. /\ tick.pc = "advancing" /\ tick # Asleep /\ tick.read.cron # BadCron
      /\ UNCHANGED <<now, edit, firings, nudges, edits, faults>>
    BY DEF Advance, Moves, Asleep
<1>2. /\ now \in Nat /\ now <= MaxTime /\ MaxTime \in Nat
      /\ tick.read.cron \in Nat /\ tick.read.cron # 0
    BY <1>1, ReadTypes, Constants DEF Inv, TypeOK
<1> DEFINE next(t) == NextOccurrence(tick.read.cron, t)
           lapse(t) == t < now /\ next(t) <= now
<1>3. PICK t \in ProcessClock :
          /\ row' = IF row.exists THEN [row EXCEPT !.next = next(t)] ELSE row
          /\ lapses' = IF lapse(t) THEN Append(lapses, next(t)) ELSE lapses
    BY DEF Advance, Moves
<1>4. t \in Nat
    BY Constants DEF ProcessClock
<1>5. next(t) \in Nat /\ next(t) > t
    BY <1>2, <1>4, Later
<1> HIDE DEF next
<1>6. CASE lapse(t)
    <2>1. next(t) \in Time
        BY <1>2, <1>5, <1>6, Constants
    <2> QED
        BY <1>1, <1>3, <1>4, <1>5, <1>6, <2>1 DEF next
<1>7. CASE ~lapse(t)
    <2>1. next(t) > now
        BY <1>2, <1>4, <1>5, <1>7
    <2> QED
        BY <1>1, <1>3, <1>4, <1>5, <1>7, <2>1 DEF next
<1> QED
    BY <1>6, <1>7

LEMMA AdvanceKeeps == ASSUME Inv, Advance PROVE Inv'
<1>1. /\ tick.pc = "advancing" /\ tick # Asleep /\ tick.read.cron # BadCron
      /\ UNCHANGED <<now, edit, firings, nudges, edits, faults>>
    BY AdvanceWrites
<1>2. PICK next \in Nat :
          /\ row' = IF row.exists THEN [row EXCEPT !.next = next] ELSE row
          /\ lapses' = lapses \/ (next \in Time /\ lapses' = Append(lapses, next))
    BY AdvanceWrites
<1>3. tick' = IF tick.read.next = Never THEN Asleep ELSE [tick EXCEPT !.pc = "spawning"]
    BY DEF Advance
<1>4. row' \in Row /\ row'.alerted = row.alerted /\ row'.exists = row.exists
    BY <1>2, RowTypes DEF Inv, Row
<1>5. tick' \in TickState
    BY <1>1, <1>3, Turned DEF TickState
<1>6. faults' \in Nat /\ lapses' \in Seq(Time)
    <2>1. lapses \in Seq(Time) /\ faults \in Nat
        BY DEF Inv, TypeOK
    <2>2. CASE lapses' = lapses
        BY <1>1, <2>1, <2>2
    <2>3. CASE next \in Time /\ lapses' = Append(lapses, next)
        BY <1>1, <2>1, <2>3
    <2> QED
        BY <1>2, <2>2, <2>3
<1> QED
    BY <1>1, <1>3, <1>4, <1>5, <1>6, Turned, TickMoves

LEMMA AdvanceFailsKeeps == ASSUME Inv, AdvanceFails PROVE Inv'
<1>1. /\ tick.pc = "advancing" /\ tick # Asleep /\ tick' = [tick EXCEPT !.pc = "disabling"]
      /\ UNCHANGED <<now, row, edit, firings, nudges, edits, lapses>>
    BY DEF AdvanceFails, Asleep
<1>2. faults' \in Nat /\ lapses' \in Seq(Time)
    BY <1>1 DEF AdvanceFails, Fault, Inv, TypeOK
<1> QED
    BY <1>1, <1>2, Turned, RowTypes, TickMoves DEF Inv

LEMMA DisableKeeps == ASSUME Inv, Disable PROVE Inv'
<1>1. tick' = Asleep /\ UNCHANGED <<now, edit, firings, nudges, edits, lapses>>
    BY DEF Disable
<1>2. faults' \in Nat /\ lapses' \in Seq(Time)
    BY <1>1 DEF Disable, Fault, Inv, TypeOK
<1>3. row' \in Row /\ row'.alerted = row.alerted /\ row'.exists = row.exists
    BY RowTypes DEF Disable, Inv, Row
<1>4. tick' \in TickState
    BY <1>1 DEF TickState
<1> QED
    BY <1>1, <1>2, <1>3, <1>4, TickMoves

LEMMA SpawnKeeps == ASSUME Inv, Spawn PROVE Inv'
<1> DEFINE new == [pc |-> "starting", due |-> tick.read.next, cron |-> tick.read.cron,
                   seen |-> tick.read.alerted, beside |-> tick.beside,
                   notifies |-> FALSE, stamped |-> Never]
<1>1. /\ tick.pc = "spawning" /\ tick # Asleep /\ tick' = Asleep
      /\ UNCHANGED <<now, row, edit, nudges, edits, lapses, faults>>
    BY DEF Spawn, Asleep, history
<1>2. firings' = Append(firings, new)
    BY DEF Spawn
<1>3. /\ tick.read.next \in Time \ {Never} /\ tick.read.cron \in Cron \ {BadCron}
      /\ now \in Nat /\ MaxTime \in Nat
    BY <1>1, ReadTypes, Constants DEF Inv, TypeOK, TickReadsWhatIsDue
<1>4. /\ new \in Firing /\ new.pc = "starting" /\ new.seen = tick.read.alerted
      /\ new.beside = tick.beside /\ new.notifies = FALSE /\ new.stamped = Never
    BY <1>1, <1>3, ReadTypes, Constants DEF Firing
<1> HIDE DEF new
<1>5. /\ firings' \in Seq(Firing) /\ Len(firings) \in Nat
      /\ DOMAIN firings = 1 .. Len(firings) /\ DOMAIN firings' = 1 .. Len(firings) + 1
      /\ \A f \in DOMAIN firings : firings'[f] = firings[f]
      /\ firings'[Len(firings) + 1] = new
    BY <1>2, <1>4 DEF Inv, TypeOK
<1>6. \A f \in DOMAIN firings' : f \in DOMAIN firings \/ f = Len(firings) + 1
    BY <1>5
<1>7. TypeOK'
    BY <1>1, <1>5 DEF Inv, TypeOK, TickState
<1>8. TickReadsWhatIsDue' /\ TickSaw'
    BY <1>1 DEF TickReadsWhatIsDue, TickSaw
<1>9. RowKnowsAlerts'
    <2>1. Never <= row.alerted
        BY RowTypes, Constants DEF Inv
    <2> QED
        BY <1>1, <1>4, <1>5, <1>6, <2>1 DEF Inv, RowKnowsAlerts
<1>10. RunSaw'
    <2> SUFFICES ASSUME NEW f \in DOMAIN firings', NEW g \in DOMAIN firings', f < g,
                        f \notin firings'[g].beside
                 PROVE  firings'[f].pc = "over" /\ firings'[f].stamped <= firings'[g].seen
        BY DEF RunSaw
    <2>1. f \in DOMAIN firings
        BY <1>5
    <2>2. CASE g \in DOMAIN firings
        BY <1>5, <2>1, <2>2 DEF Inv, RunSaw
    <2>3. CASE g = Len(firings) + 1
        BY <1>1, <1>4, <1>5, <2>1, <2>3 DEF Inv, TickSaw
    <2> QED
        BY <1>6, <2>2, <2>3
<1>11. CooledDown'
    BY <1>1, <1>4, <1>5, <1>6 DEF Inv, CooledDown, Cooled
<1> QED
    BY <1>7, <1>8, <1>9, <1>10, <1>11 DEF Inv

----------------------------------------------------------------------------
(* The tasks.  One that goes on is beside those that saw it running.       *)
LEMMA TaskMoves ==
    ASSUME Inv, NEW f \in DOMAIN firings, firings[f].pc # "over", NEW new \in Firing,
           firings' = [firings EXCEPT ![f] = new], UNCHANGED <<now, edit, tick, nudges, edits>>,
           lapses' = lapses, faults' \in Nat,
           new.seen = firings[f].seen, new.beside = firings[f].beside,
           new.notifies => firings[f].notifies \/ Cooled(f, now),
           row' \in Row, row'.alerted <= now, row'.exists => row.exists,
           \/ new.stamped = firings[f].stamped /\ row'.alerted = row.alerted
           \/ /\ firings[f].notifies /\ new.stamped = now
              /\ row'.exists => row'.alerted = now
    PROVE  Inv'
<1>1. /\ DOMAIN firings' = DOMAIN firings
      /\ \A g \in DOMAIN firings : firings'[g] = IF g = f THEN new ELSE firings[g]
      /\ firings' \in Seq(Firing)
    BY DEF Inv, TypeOK
<1>2. now \in Nat
    BY Constants DEF Inv, TypeOK
<1>3. TypeOK'
    BY <1>1 DEF Inv, TypeOK
<1>4. TickReadsWhatIsDue'
    BY DEF Inv, TickReadsWhatIsDue
<1>5. RowKnowsAlerts'
    <2> SUFFICES ASSUME row'.exists, NEW g \in DOMAIN firings
                 PROVE  firings'[g].stamped <= row'.alerted
        BY <1>1 DEF RowKnowsAlerts
    <2>1. firings[g].stamped <= row.alerted /\ row.alerted <= now
        BY DEF Inv, RowKnowsAlerts
    <2>2. firings[g].stamped \in Nat /\ row.alerted \in Nat
        BY FiringTypes, RowTypes, Constants DEF Inv
    <2> QED
        BY <1>1, <1>2, <2>1, <2>2
<1>6. TickSaw'
    <2> SUFFICES ASSUME tick # Asleep, NEW g \in DOMAIN firings, g \notin tick.beside
                 PROVE  firings'[g].pc = "over" /\ firings'[g].stamped <= tick.read.alerted
        BY <1>1 DEF TickSaw
    <2>1. firings[g].pc = "over" /\ firings[g].stamped <= tick.read.alerted
        BY DEF Inv, TickSaw
    <2> QED
        BY <1>1, <2>1
<1>7. RunSaw'
    <2> SUFFICES ASSUME NEW g \in DOMAIN firings, NEW h \in DOMAIN firings, g < h,
                        g \notin firings'[h].beside
                 PROVE  firings'[g].pc = "over" /\ firings'[g].stamped <= firings'[h].seen
        BY <1>1 DEF RunSaw
    <2>1. firings'[h].beside = firings[h].beside /\ firings'[h].seen = firings[h].seen
        BY <1>1
    <2>2. firings[g].pc = "over" /\ firings[g].stamped <= firings[h].seen
        BY <2>1 DEF Inv, RunSaw
    <2> QED
        BY <1>1, <2>1, <2>2
<1>8. CooledDown'
    <2> SUFFICES ASSUME NEW g \in DOMAIN firings
                 PROVE  /\ firings'[g].notifies =>
                              \/ firings'[g].seen = Never
                              \/ now + Skew >= firings'[g].seen + Cooldown
                        /\ firings'[g].stamped # Never =>
                              \/ firings'[g].seen = Never
                              \/ firings'[g].stamped + Skew >= firings'[g].seen + Cooldown
        BY <1>1 DEF CooledDown, Cooled
    <2>1. firings'[g].seen = firings[g].seen
        BY <1>1
    <2>2. /\ firings[g].notifies => Cooled(g, now)
          /\ firings[g].stamped # Never => Cooled(g, firings[g].stamped)
        BY DEF Inv, CooledDown
    <2>3. firings'[g].notifies => Cooled(g, now)
        BY <1>1, <2>2
    <2>4. \/ firings'[g].stamped = firings[g].stamped
          \/ firings[g].notifies /\ firings'[g].stamped = now
        BY <1>1
    <2> QED
        BY <2>1, <2>2, <2>3, <2>4 DEF Cooled
<1> QED
    BY <1>3, <1>4, <1>5, <1>6, <1>7, <1>8 DEF Inv

LEMMA TaskKeeps == ASSUME Inv, NEW f \in DOMAIN firings, Task(f) PROVE Inv'
<1>1. /\ firings[f] \in Firing /\ row \in Row /\ now \in Time /\ row.alerted <= now
      /\ faults \in Nat
    BY FiringTypes DEF Inv, TypeOK, RowKnowsAlerts
<1>2. CASE Start(f) \/ Fails(f) \/ Record(f) \/ Notify(f)
    <2>1. PICK pc \in {"executing", "over", "stamping"} :
              firings' = [firings EXCEPT ![f] = [firings[f] EXCEPT !.pc = pc]]
        BY <1>2 DEF Start, Fails, Record, Notify, Becomes
    <2> DEFINE new == [firings[f] EXCEPT !.pc = pc]
    <2>2. /\ new \in Firing /\ new.seen = firings[f].seen /\ new.beside = firings[f].beside
          /\ new.notifies = firings[f].notifies /\ new.stamped = firings[f].stamped
        BY <1>1 DEF Firing
    <2>3. firings[f].pc # "over" /\ UNCHANGED <<now, row, edit, tick, nudges, edits, lapses, faults>>
        BY <1>2 DEF Start, Fails, Record, Notify, At, history
    <2> HIDE DEF new
    <2>4. firings' = [firings EXCEPT ![f] = new]
        BY <2>1 DEF new
    <2> QED
        BY <1>1, <2>2, <2>3, <2>4, TaskMoves
<1>3. CASE Succeeds(f)
    <2>1. PICK triggered \in BOOLEAN, t \in ProcessClock :
              /\ firings[f].pc = "executing"
              /\ firings' = [firings EXCEPT ![f] =
                     [firings[f] EXCEPT !.pc = "recording", !.notifies = triggered /\ ~InCooldown(f, t)]]
              /\ UNCHANGED <<now, row, edit, tick, nudges, edits, lapses, faults>>
        BY <1>3 DEF Succeeds, At, Becomes, history
    <2> DEFINE tells == triggered /\ ~InCooldown(f, t)
               new == [firings[f] EXCEPT !.pc = "recording", !.notifies = tells]
    <2>2. tells \in BOOLEAN
        OBVIOUS
    <2>3. tells => Cooled(f, now)
        <3>1. /\ firings[f].seen \in Nat /\ now \in Nat /\ Cooldown \in Nat /\ Skew \in Nat
              /\ t \in Nat /\ t <= now + Skew
            BY <1>1, FiringTypes, Constants DEF Inv, ProcessClock
        <3> QED
            BY <3>1 DEF InCooldown, Cooled
    <2> HIDE DEF tells
    <2>4. /\ new \in Firing /\ new.seen = firings[f].seen /\ new.beside = firings[f].beside
          /\ new.notifies = tells /\ new.stamped = firings[f].stamped
        BY <1>1, <2>2 DEF Firing
    <2> HIDE DEF new
    <2>5. firings' = [firings EXCEPT ![f] = new] /\ firings[f].pc # "over"
        BY <2>1 DEF new, tells
    <2> QED
        BY <1>1, <2>1, <2>3, <2>4, <2>5, TaskMoves
<1>4. CASE Stamp(f) /\ firings[f].notifies
    <2> DEFINE new == [firings[f] EXCEPT !.pc = "notifying", !.stamped = now]
    <2>1. /\ new \in Firing /\ new.seen = firings[f].seen /\ new.beside = firings[f].beside
          /\ new.notifies = firings[f].notifies /\ new.stamped = now
        BY <1>1 DEF Firing
    <2>2. row' \in Row /\ row'.exists = row.exists /\ (row'.exists => row'.alerted = now)
        BY <1>1, <1>4, RowTypes DEF Stamp, Row, Inv
    <2>3. row'.alerted <= now
        <3>1. row' = row \/ row' = [row EXCEPT !.alerted = now]
            BY <1>4 DEF Stamp
        <3>2. [row EXCEPT !.alerted = now].alerted = now /\ now <= now
            BY <1>1, Constants DEF Row
        <3> QED
            BY <1>1, <3>1, <3>2
    <2>4. /\ firings' = [firings EXCEPT ![f] = new] /\ firings[f].pc # "over"
          /\ UNCHANGED <<now, edit, tick, nudges, edits, lapses, faults>>
        BY <1>4 DEF Stamp, At, Becomes, history
    <2> HIDE DEF new
    <2> QED
        BY <1>1, <1>4, <2>1, <2>2, <2>3, <2>4, TaskMoves
<1>5. CASE Stamp(f) /\ ~firings[f].notifies
    <2> DEFINE new == [firings[f] EXCEPT !.pc = "over"]
    <2>1. /\ new \in Firing /\ new.seen = firings[f].seen /\ new.beside = firings[f].beside
          /\ new.notifies = firings[f].notifies /\ new.stamped = firings[f].stamped
        BY <1>1 DEF Firing
    <2>2. /\ firings' = [firings EXCEPT ![f] = new] /\ firings[f].pc # "over"
          /\ UNCHANGED <<now, row, edit, tick, nudges, edits, lapses, faults>>
        BY <1>5 DEF Stamp, At, Becomes, history
    <2> HIDE DEF new
    <2> QED
        BY <1>1, <2>1, <2>2, TaskMoves
<1> QED
    BY <1>2, <1>3, <1>4, <1>5 DEF Task

LEMMA StatementFailsKeeps ==
    ASSUME Inv, NEW f \in DOMAIN firings, StatementFails(f)
    PROVE  Inv'
<1> DEFINE new == [firings[f] EXCEPT !.pc = "over"]
<1>1. firings[f] \in Firing /\ row \in Row /\ row.alerted <= now /\ faults' \in Nat
    BY FiringTypes DEF Inv, TypeOK, RowKnowsAlerts, StatementFails, Fault
<1>2. /\ new \in Firing /\ new.seen = firings[f].seen /\ new.beside = firings[f].beside
      /\ new.notifies = firings[f].notifies /\ new.stamped = firings[f].stamped
    BY <1>1 DEF Firing
<1>3. /\ firings' = [firings EXCEPT ![f] = new] /\ firings[f].pc # "over"
      /\ UNCHANGED <<now, row, edit, tick, nudges, edits, lapses>>
    BY DEF StatementFails, At, Becomes
<1> HIDE DEF new
<1> QED
    BY <1>1, <1>2, <1>3, TaskMoves

LEMMA CrashKeeps == ASSUME Inv, Crash PROVE Inv'
<1>1. /\ tick' = Asleep /\ edit' = "none" /\ UNCHANGED <<now, row, nudges, edits, lapses>>
      /\ firings' = [f \in DOMAIN firings |-> [firings[f] EXCEPT !.pc = "over"]]
      /\ faults' \in Nat
    BY DEF Crash, Fault, Inv, TypeOK
<1>2. /\ DOMAIN firings' = DOMAIN firings
      /\ \A f \in DOMAIN firings :
             /\ firings'[f] \in Firing /\ firings'[f].pc = "over"
             /\ firings'[f].seen = firings[f].seen /\ firings'[f].beside = firings[f].beside
             /\ firings'[f].notifies = firings[f].notifies
             /\ firings'[f].stamped = firings[f].stamped
    BY <1>1, FiringTypes DEF Firing, Inv
<1>3. firings' \in Seq(Firing)
    <2>1. Len(firings) \in Nat /\ DOMAIN firings = 1 .. Len(firings)
        BY DEF Inv, TypeOK
    <2>2. firings' \in [1 .. Len(firings) -> Firing]
        BY <1>1, <1>2, <2>1
    <2> QED
        BY <2>1, <2>2
<1>4. TypeOK'
    BY <1>1, <1>3 DEF Inv, TypeOK, TickState
<1>5. TickReadsWhatIsDue' /\ TickSaw'
    BY <1>1 DEF TickReadsWhatIsDue, TickSaw
<1>6. RowKnowsAlerts'
    BY <1>1, <1>2 DEF Inv, RowKnowsAlerts
<1>7. RunSaw'
    BY <1>2 DEF Inv, RunSaw
<1>8. CooledDown'
    BY <1>1, <1>2 DEF Inv, CooledDown, Cooled
<1> QED
    BY <1>4, <1>5, <1>6, <1>7, <1>8 DEF Inv

----------------------------------------------------------------------------
LEMMA Initially == SchedulerInit => Inv
<1> SUFFICES ASSUME SchedulerInit PROVE Inv
    OBVIOUS
<1>1. TypeOK
    <2>1. row \in [exists : {TRUE}, enabled : BOOLEAN, cron : Cron, next : {Never}, alerted : {Never}]
        BY DEF SchedulerInit
    <2>2. row \in Row /\ row.alerted = Never
        <3>1. /\ row = [exists |-> row.exists, enabled |-> row.enabled, cron |-> row.cron,
                        next |-> row.next, alerted |-> row.alerted]
              /\ row.exists \in BOOLEAN /\ row.enabled \in BOOLEAN /\ row.cron \in Cron
              /\ row.next = Never /\ row.alerted = Never
            BY <2>1
        <3>2. row.next \in Nat /\ row.alerted \in Time
            BY <3>1, Constants
        <3> QED
            BY <3>1, <3>2 DEF Row
    <2>3. now \in Time \ {0}
        BY Constants DEF SchedulerInit
    <2> QED
        BY <2>2, <2>3 DEF SchedulerInit, TypeOK, TickState
<1>2. row.alerted <= now /\ DOMAIN firings = {} /\ tick = Asleep
    BY Constants DEF SchedulerInit
<1> QED
    BY <1>1, <1>2
    DEF Inv, TickReadsWhatIsDue, RowKnowsAlerts, TickSaw, RunSaw, CooledDown

LEMMA Step == Inv /\ [SchedulerNext]_vars => Inv'
<1> SUFFICES ASSUME Inv, [SchedulerNext]_vars PROVE Inv'
    OBVIOUS
<1>1. CASE UNCHANGED vars
    BY <1>1
    DEF vars, Inv, TypeOK, TickReadsWhatIsDue, RowKnowsAlerts, TickSaw, RunSaw, CooledDown, Cooled
<1>2. CASE Passes \/ RunNow \/ Update \/ ResetNext \/ Remove
    BY <1>2, RequestsKeep
<1>3. CASE Ticks
    BY <1>3, PollKeeps, AdvanceKeeps, AdvanceFailsKeeps, DisableKeeps, SpawnKeeps DEF Ticks
<1>4. CASE \E f \in DOMAIN firings : Task(f) \/ StatementFails(f)
    BY <1>4, TaskKeeps, StatementFailsKeeps
<1>5. CASE Crash
    BY <1>5, CrashKeeps
<1> QED
    BY <1>1, <1>2, <1>3, <1>4, <1>5 DEF SchedulerNext

LEMMA Invariance == Spec => []Inv
BY Initially, Step, PTL DEF Spec

(* The row, the tick and the tasks keep their types; what was never        *)
(* scheduled, or badly, is not spawned.                                    *)
THEOREM TypeCorrect == Spec => []TypeOK
<1>1. Inv => TypeOK
    BY DEF Inv
<1> QED
    BY <1>1, Invariance, PTL

(* However ticks, runs, edits and crashes interleave, two alerts closer    *)
(* than the cooldown, less the skew of the clocks, come from runs that     *)
(* overlapped: a later run has read the alert of one that was over, and    *)
(* stays away from it.                                                     *)
THEOREM CooldownIsKept == Spec => []CooldownUnlessOverlapping
<1>1. Inv => CooldownUnlessOverlapping
    <2> SUFFICES ASSUME Inv, NEW f \in DOMAIN firings, NEW g \in DOMAIN firings, f < g,
                        firings[f].stamped # Never, firings[g].stamped # Never,
                        f \notin firings[g].beside
                 PROVE  firings[g].stamped + Skew >= firings[f].stamped + Cooldown
        BY DEF CooldownUnlessOverlapping
    <2>1. firings[f].stamped <= firings[g].seen
        BY DEF Inv, RunSaw
    <2>2. Cooled(g, firings[g].stamped)
        BY DEF Inv, CooledDown
    <2>3. /\ firings[f].stamped \in Nat /\ firings[g].stamped \in Nat /\ firings[g].seen \in Nat
          /\ Cooldown \in Nat /\ Skew \in Nat /\ Never = 0
        BY FiringTypes, Constants DEF Inv
    <2> QED
        BY <2>1, <2>2, <2>3 DEF Cooled
<1> QED
    BY <1>1, Invariance, PTL

----------------------------------------------------------------------------
(* Every run of an occurrence is accounted for: the one the occurrence     *)
(* gives and one for each request and each lapse.  What is not run yet is  *)
(* in the tick's hands or still in the row; while the tick is to move the  *)
(* row on, both hold the same.                                             *)
Fired(d) == {f \in DOMAIN firings : firings[f].due = d}
Nudged(d) == {i \in DOMAIN nudges : nudges[i] = d}
Lapsed(d) == {i \in DOMAIN lapses : lapses[i] = d}
Allowed(d) == 1 + Cardinality(Nudged(d)) + Cardinality(Lapsed(d))
TickHolds(d) == tick.pc \in {"advancing", "spawning"} /\ tick.read.next = d
RowHolds(d) == row.exists /\ row.next = d /\ ~(tick.pc = "advancing" /\ tick.read.next = d)
Left(d) == (IF TickHolds(d) THEN 1 ELSE 0) + (IF RowHolds(d) THEN 1 ELSE 0)
Accounted ==
    \A d \in Time \ {Never} : Cardinality(Fired(d)) + Left(d) <= Allowed(d)
RunsAreDue == \A f \in DOMAIN firings : firings[f].due <= now
Tally == Accounted /\ RunsAreDue

LEMMA Counts ==
    ASSUME TypeOK, NEW d
    PROVE  /\ IsFiniteSet(Fired(d)) /\ Cardinality(Fired(d)) \in Nat
           /\ IsFiniteSet(Nudged(d)) /\ Cardinality(Nudged(d)) \in Nat
           /\ IsFiniteSet(Lapsed(d)) /\ Cardinality(Lapsed(d)) \in Nat
           /\ Allowed(d) \in Nat /\ Allowed(d) >= 1
           /\ Left(d) \in 0 .. 2
<1>1. /\ DOMAIN firings = 1 .. Len(firings) /\ Len(firings) \in Nat
      /\ DOMAIN nudges = 1 .. Len(nudges) /\ Len(nudges) \in Nat
      /\ DOMAIN lapses = 1 .. Len(lapses) /\ Len(lapses) \in Nat
    BY DEF TypeOK
<1>2. /\ IsFiniteSet(DOMAIN firings) /\ IsFiniteSet(DOMAIN nudges)
      /\ IsFiniteSet(DOMAIN lapses)
    BY <1>1, FS_Interval
<1>3. /\ Fired(d) \subseteq DOMAIN firings /\ Nudged(d) \subseteq DOMAIN nudges
      /\ Lapsed(d) \subseteq DOMAIN lapses
    BY DEF Fired, Nudged, Lapsed
<1>4. IsFiniteSet(Fired(d)) /\ IsFiniteSet(Nudged(d)) /\ IsFiniteSet(Lapsed(d))
    BY <1>2, <1>3, FS_Subset
<1>5. Left(d) \in 0 .. 2
    BY DEF Left
<1>6. Cardinality(Nudged(d)) \in Nat /\ Cardinality(Lapsed(d)) \in Nat
    BY <1>4, FS_CardinalityType
<1>7. Allowed(d) \in Nat /\ Allowed(d) >= 1
    BY <1>6 DEF Allowed
<1> QED
    BY <1>4, <1>5, <1>6, <1>7, FS_CardinalityType

LEMMA TallyMoves ==
    ASSUME Inv, Tally, now' >= now, now' \in Nat,
           DOMAIN firings' = DOMAIN firings,
           \A f \in DOMAIN firings : firings'[f].due = firings[f].due,
           UNCHANGED <<nudges, lapses>>,
           \A d \in Time \ {Never} : Left(d)' <= Left(d)
    PROVE  Tally'
<1>1. RunsAreDue'
    <2> SUFFICES ASSUME NEW f \in DOMAIN firings PROVE firings[f].due <= now'
        BY DEF RunsAreDue
    <2>1. firings[f].due \in Nat /\ now \in Nat /\ firings[f].due <= now
        BY FiringTypes, Constants DEF Inv, TypeOK, Firing, Tally, RunsAreDue
    <2> QED
        BY <2>1
<1>2. Accounted'
    <2> SUFFICES ASSUME NEW d \in Time \ {Never}
                 PROVE  Cardinality(Fired(d)') + Left(d)' <= Allowed(d)'
        BY DEF Accounted
    <2>1. Fired(d)' = Fired(d) /\ Allowed(d)' = Allowed(d)
        BY DEF Fired, Allowed, Nudged, Lapsed
    <2>2. Left(d)' \in 0 .. 2
        BY DEF Left
    <2> QED
        BY <2>1, <2>2, Counts DEF Inv, Tally, Accounted
<1> QED
    BY <1>1, <1>2 DEF Tally

LEMMA RequestsTally ==
    ASSUME Inv, Tally, Passes \/ Update \/ ResetNext \/ Remove
    PROVE  Tally'
<1>1. UNCHANGED <<tick, firings, nudges, lapses>> /\ now' >= now /\ now' \in Nat
    <2>1. now \in Nat
        BY Constants DEF Inv, TypeOK
    <2>2. UNCHANGED <<tick, firings, nudges, lapses>> /\ (now' = now \/ now' = now + 1)
        BY DEF Passes, Update, ResetNext, Remove, history
    <2> QED
        BY <2>1, <2>2
<1>2. ASSUME NEW d \in Time \ {Never} PROVE RowHolds(d)' => RowHolds(d)
    <2>1. /\ \/ row'.exists = row.exists /\ row'.next = row.next
             \/ row'.next = Never
          /\ UNCHANGED tick
        BY RowTypes DEF Passes, Update, ResetNext, Remove, history, Row, Gone, Inv
    <2> QED
        BY <2>1 DEF RowHolds
<1>3. \A d \in Time \ {Never} : Left(d)' <= Left(d)
    BY <1>1, <1>2 DEF Left, TickHolds
<1> QED
    BY <1>1, <1>3, TallyMoves

LEMMA RunNowTallies == ASSUME Inv, Tally, RunNow PROVE Tally'
<1>1. /\ nudges' = Append(nudges, now) /\ UNCHANGED <<now, tick, firings, lapses>>
      /\ row'.exists = row.exists /\ row'.next = now
    BY RowTypes DEF RunNow, Row, Inv
<1>2. RunsAreDue'
    BY <1>1 DEF Tally, RunsAreDue
<1>3. Accounted'
    <2> SUFFICES ASSUME NEW d \in Time \ {Never}
                 PROVE  Cardinality(Fired(d)') + Left(d)' <= Allowed(d)'
        BY DEF Accounted
    <2>1. Fired(d)' = Fired(d)
        BY <1>1 DEF Fired
    <2>2. /\ nudges \in Seq(Time) /\ Len(nudges) \in Nat /\ Len(nudges) + 1 \notin DOMAIN nudges
          /\ DOMAIN nudges' = DOMAIN nudges \union {Len(nudges) + 1}
          /\ \A i \in DOMAIN nudges : nudges'[i] = nudges[i]
          /\ nudges'[Len(nudges) + 1] = now
        BY <1>1 DEF Inv, TypeOK
    <2>3. Cardinality(Fired(d)) + Left(d) <= Allowed(d)
        BY DEF Tally, Accounted
    <2>4. CASE d = now
        <3>1. Nudged(d)' = Nudged(d) \union {Len(nudges) + 1} /\ Len(nudges) + 1 \notin Nudged(d)
            BY <2>2, <2>4 DEF Nudged
        <3>2. Allowed(d)' = Allowed(d) + 1
            <4>1. Cardinality(Nudged(d)') = Cardinality(Nudged(d)) + 1
                BY <3>1, FS_AddElement, Counts DEF Inv
            <4>2. Lapsed(d)' = Lapsed(d)
                BY <1>1 DEF Lapsed
            <4> QED
                BY <4>1, <4>2, Counts DEF Inv, Allowed
        <3>3. Left(d)' <= Left(d) + 1 /\ Left(d)' \in 0 .. 2
            BY <1>1 DEF Left, TickHolds
        <3> QED
            BY <2>1, <2>3, <3>2, <3>3, Counts DEF Inv
    <2>5. CASE d # now
        <3>1. Allowed(d)' = Allowed(d)
            BY <1>1, <2>2, <2>5 DEF Allowed, Nudged, Lapsed
        <3>2. Left(d)' <= Left(d) /\ Left(d)' \in 0 .. 2
            BY <1>1, <2>5 DEF Left, TickHolds, RowHolds
        <3> QED
            BY <2>1, <2>3, <3>1, <3>2, Counts DEF Inv
    <2> QED
        BY <2>4, <2>5
<1> QED
    BY <1>2, <1>3 DEF Tally

(* The tick lets go of an occurrence, but the row has it then.             *)
LEMMA TicksTally ==
    ASSUME Inv, Tally, Poll \/ AdvanceFails \/ Disable
    PROVE  Tally'
<1>1. UNCHANGED <<now, firings, nudges, lapses>> /\ now >= now /\ now \in Nat
    BY Constants DEF Poll, AdvanceFails, Disable, history, Inv, TypeOK
<1>2. Asleep.pc = "asleep"
    BY DEF Asleep
<1>3. ASSUME NEW d \in Time \ {Never} PROVE Left(d)' <= Left(d)
    <2>1. CASE Poll
        <3>1. /\ tick.pc = "asleep" /\ tick'.pc = "advancing" /\ tick'.read = row /\ row' = row
              /\ row.exists
            BY <1>2, <2>1 DEF Poll, Due
        <3> QED
            BY <3>1 DEF Left, TickHolds, RowHolds
    <2>2. CASE AdvanceFails
        <3>1. /\ tick.pc = "advancing" /\ tick # Asleep /\ row' = row
              /\ tick'.pc = "disabling" /\ tick'.read = tick.read
            BY <1>2, <2>2, Turned DEF AdvanceFails
        <3> QED
            BY <3>1 DEF Left, TickHolds, RowHolds
    <2>3. CASE Disable
        <3>1. /\ tick.pc = "disabling" /\ tick'.pc = "asleep"
              /\ row'.exists = row.exists /\ row'.next = row.next
            BY <1>2, <2>3, RowTypes DEF Disable, Row, Inv
        <3> QED
            BY <3>1 DEF Left, TickHolds, RowHolds
    <2> QED
        BY <2>1, <2>2, <2>3
<1> QED
    BY <1>1, <1>3, TallyMoves

LEMMA LapseAllows ==
    ASSUME Inv, NEW d, NEW e \in Time, lapses' = Append(lapses, e), Nudged(d)' = Nudged(d)
    PROVE  Allowed(d)' = IF d = e THEN Allowed(d) + 1 ELSE Allowed(d)
<1>1. /\ Len(lapses) + 1 \notin DOMAIN lapses
      /\ DOMAIN lapses' = DOMAIN lapses \union {Len(lapses) + 1}
      /\ \A i \in DOMAIN lapses : lapses'[i] = lapses[i]
      /\ lapses'[Len(lapses) + 1] = e
    BY DEF Inv, TypeOK
<1>2. CASE d = e
    <2>1. Lapsed(d)' = Lapsed(d) \union {Len(lapses) + 1} /\ Len(lapses) + 1 \notin Lapsed(d)
        BY <1>1, <1>2 DEF Lapsed
    <2>2. Cardinality(Lapsed(d)') = Cardinality(Lapsed(d)) + 1
        BY <2>1, FS_AddElement, Counts DEF Inv
    <2> QED
        BY <1>2, <2>2, Counts DEF Inv, Allowed
<1>3. CASE d # e
    <2>1. Lapsed(d)' = Lapsed(d)
        BY <1>1, <1>3 DEF Lapsed
    <2> QED
        BY <1>3, <2>1 DEF Allowed
<1> QED
    BY <1>2, <1>3

(* The next occurrence is to come, and nothing has run for it, or it is a  *)
(* lapse and is counted.                                                   *)
LEMMA AdvanceTallies == ASSUME Inv, Tally, Advance PROVE Tally'
<1>1. /\ tick.pc = "advancing" /\ tick # Asleep /\ tick.read.cron # BadCron
      /\ UNCHANGED <<now, firings, nudges>> /\ Asleep.pc = "asleep"
    BY AdvanceWrites DEF Asleep
<1>2. PICK e \in Nat :
          /\ row' = IF row.exists THEN [row EXCEPT !.next = e] ELSE row
          /\ \/ e > now /\ lapses' = lapses
             \/ e \in Time /\ lapses' = Append(lapses, e)
    BY AdvanceWrites
<1>3. now \in Nat /\ tick.read.next <= now /\ tick.read.next \in Nat
    BY <1>1, ReadTypes, Constants DEF Inv, TypeOK, TickReadsWhatIsDue
<1>4. row'.exists = row.exists /\ (row.exists => row'.next = e)
    BY <1>2, RowTypes DEF Row, Inv
<1>5. ASSUME NEW d \in Time \ {Never}
      PROVE  TickHolds(d)' <=> TickHolds(d)
    <2>1. CASE tick.read.next = Never
        BY <1>1, <2>1 DEF Advance, TickHolds
    <2>2. CASE tick.read.next # Never
        <3>1. tick'.pc = "spawning" /\ tick'.read = tick.read
            BY <1>1, <2>2, Turned DEF Advance
        <3> QED
            BY <1>1, <3>1 DEF TickHolds
    <2> QED
        BY <2>1, <2>2
<1>6. Accounted'
    <2> SUFFICES ASSUME NEW d \in Time \ {Never}
                 PROVE  Cardinality(Fired(d)') + Left(d)' <= Allowed(d)'
        BY DEF Accounted
    <2>1. Fired(d)' = Fired(d) /\ Nudged(d)' = Nudged(d)
        BY <1>1 DEF Fired, Nudged
    <2>2. Cardinality(Fired(d)) + Left(d) <= Allowed(d)
        BY DEF Tally, Accounted
    <2>3. Left(d)' \in 0 .. 2
        BY DEF Left
    <2>4. CASE ~(d = e /\ row.exists)
        <3>1. ~RowHolds(d)'
            BY <1>4, <2>4 DEF RowHolds
        <3>2. Left(d)' <= Left(d)
            BY <1>5, <3>1 DEF Left
        <3>3. Allowed(d)' = Allowed(d) \/ Allowed(d)' = Allowed(d) + 1
            <4>1. CASE lapses' = lapses
                BY <2>1, <4>1 DEF Allowed, Lapsed
            <4>2. CASE e \in Time /\ lapses' = Append(lapses, e)
                BY <2>1, <4>2, LapseAllows
            <4> QED
                BY <1>2, <4>1, <4>2
        <3> QED
            BY <2>1, <2>2, <2>3, <3>2, <3>3, Counts DEF Inv
    <2>5. CASE d = e /\ row.exists /\ e > now /\ lapses' = lapses
        <3>1. \A f \in DOMAIN firings : firings[f].due # d
            <4> SUFFICES ASSUME NEW f \in DOMAIN firings, firings[f].due = d PROVE FALSE
                OBVIOUS
            <4>1. firings[f].due <= now
                BY DEF Tally, RunsAreDue
            <4> QED
                BY <1>3, <2>5, <4>1
        <3>2. Cardinality(Fired(d)) = 0
            BY <3>1, FS_EmptySet DEF Fired
        <3>3. ~TickHolds(d)'
            BY <1>3, <1>5, <2>5 DEF TickHolds
        <3>4. Left(d)' \in {0, 1}
            BY <3>3 DEF Left
        <3>5. Allowed(d)' = Allowed(d)
            BY <2>1, <2>5 DEF Allowed, Lapsed
        <3> QED
            BY <2>1, <3>2, <3>4, <3>5, Counts DEF Inv
    <2>6. CASE d = e /\ e \in Time /\ lapses' = Append(lapses, e)
        <3>1. Allowed(d)' = Allowed(d) + 1
            BY <2>1, <2>6, LapseAllows
        <3>2. Left(d)' <= Left(d) + 1
            BY <1>5 DEF Left
        <3> QED
            BY <2>1, <2>2, <2>3, <3>1, <3>2, Counts DEF Inv
    <2> QED
        BY <1>2, <2>4, <2>5, <2>6
<1>7. RunsAreDue'
    BY <1>1 DEF Tally, RunsAreDue
<1> QED
    BY <1>6, <1>7 DEF Tally

LEMMA SpawnTallies == ASSUME Inv, Tally, Spawn PROVE Tally'
<1> DEFINE new == [pc |-> "starting", due |-> tick.read.next, cron |-> tick.read.cron,
                   seen |-> tick.read.alerted, beside |-> tick.beside,
                   notifies |-> FALSE, stamped |-> Never]
           n == Len(firings) + 1
<1>1. /\ tick.pc = "spawning" /\ tick # Asleep /\ tick'.pc = "asleep"
      /\ UNCHANGED <<now, row, nudges, lapses>> /\ firings' = Append(firings, new)
    BY DEF Spawn, Asleep, history
<1>2. new.due = tick.read.next /\ tick.read.next <= now
    BY <1>1 DEF Inv, TickReadsWhatIsDue
<1> HIDE DEF new
<1>3. /\ n \notin DOMAIN firings /\ DOMAIN firings' = DOMAIN firings \union {n}
      /\ \A f \in DOMAIN firings : firings'[f] = firings[f]
      /\ firings'[n] = new
    BY <1>1 DEF Inv, TypeOK
<1> HIDE DEF n
<1>4. RunsAreDue'
    BY <1>1, <1>2, <1>3 DEF Tally, RunsAreDue
<1>5. Accounted'
    <2> SUFFICES ASSUME NEW d \in Time \ {Never}
                 PROVE  Cardinality(Fired(d)') + Left(d)' <= Allowed(d)'
        BY DEF Accounted
    <2>1. Allowed(d)' = Allowed(d)
        BY <1>1 DEF Allowed, Nudged, Lapsed
    <2>2. Cardinality(Fired(d)) + Left(d) <= Allowed(d)
        BY DEF Tally, Accounted
    <2>3. RowHolds(d)' <=> RowHolds(d)
        BY <1>1 DEF RowHolds
    <2>4. ~TickHolds(d)'
        BY <1>1 DEF TickHolds
    <2>5. CASE d = tick.read.next
        <3>1. Fired(d)' = Fired(d) \union {n} /\ n \notin Fired(d)
            BY <1>2, <1>3, <2>5 DEF Fired
        <3>2. Cardinality(Fired(d)') = Cardinality(Fired(d)) + 1
            BY <3>1, FS_AddElement, Counts DEF Inv
        <3>3. Left(d)' + 1 = Left(d)
            BY <1>1, <2>3, <2>4, <2>5 DEF Left, TickHolds
        <3>4. Left(d)' \in 0 .. 2
            BY DEF Left
        <3> QED
            BY <2>1, <2>2, <3>2, <3>3, <3>4, Counts DEF Inv
    <2>6. CASE d # tick.read.next
        <3>1. Fired(d)' = Fired(d)
            BY <1>2, <1>3, <2>6 DEF Fired
        <3>2. Left(d)' <= Left(d) /\ Left(d)' \in 0 .. 2
            BY <2>3, <2>4 DEF Left
        <3> QED
            BY <2>1, <2>2, <3>1, <3>2, Counts DEF Inv
    <2> QED
        BY <2>5, <2>6
<1> QED
    BY <1>4, <1>5 DEF Tally

(* A task keeps its occurrence and its expression, and changes nothing of  *)
(* the row but the alert.                                                  *)
LEMMA TasksKeepOccurrences ==
    ASSUME Inv, NEW f \in DOMAIN firings, Task(f) \/ StatementFails(f)
    PROVE  /\ UNCHANGED <<now, tick, nudges, edits, lapses>>
           /\ row'.exists = row.exists /\ row'.next = row.next /\ row'.cron = row.cron
           /\ DOMAIN firings' = DOMAIN firings
           /\ \A g \in DOMAIN firings :
                 firings'[g].due = firings[g].due /\ firings'[g].cron = firings[g].cron
<1>1. /\ UNCHANGED <<now, tick, nudges, edits, lapses>>
      /\ row'.exists = row.exists /\ row'.next = row.next /\ row'.cron = row.cron
    <2>1. /\ UNCHANGED <<now, tick, nudges, edits, lapses>>
          /\ row' = row \/ row' = [row EXCEPT !.alerted = now]
        BY DEF Task, StatementFails, Start, Fails, Succeeds, Record, Stamp, Notify, history
    <2> QED
        BY <2>1, RowTypes DEF Inv, Row
<1>2. PICK new : /\ firings' = [firings EXCEPT ![f] = new]
                 /\ new.due = firings[f].due /\ new.cron = firings[f].cron
    <2>1. firings[f] \in Firing
        BY FiringTypes DEF Inv
    <2>2. CASE Start(f) \/ Fails(f) \/ Record(f) \/ Notify(f) \/ StatementFails(f)
        <3>1. PICK pc \in {"executing", "over", "stamping"} :
                  firings' = [firings EXCEPT ![f] = [firings[f] EXCEPT !.pc = pc]]
            BY <2>2 DEF Start, Fails, Record, Notify, StatementFails, Becomes
        <3>2. /\ [firings[f] EXCEPT !.pc = pc].due = firings[f].due
              /\ [firings[f] EXCEPT !.pc = pc].cron = firings[f].cron
            BY <2>1 DEF Firing
        <3> QED
            BY <3>1, <3>2
    <2>3. CASE Succeeds(f)
        <3>1. PICK tells \in BOOLEAN :
                  firings' = [firings EXCEPT ![f] =
                                 [firings[f] EXCEPT !.pc = "recording", !.notifies = tells]]
            BY <2>3 DEF Succeeds, Becomes
        <3> DEFINE run == [firings[f] EXCEPT !.pc = "recording", !.notifies = tells]
        <3>2. run.due = firings[f].due /\ run.cron = firings[f].cron
            BY <2>1 DEF Firing
        <3> QED
            BY <3>1, <3>2
    <2>4. CASE Stamp(f)
        <3> DEFINE over == [firings[f] EXCEPT !.pc = "over"]
                   alerting == [firings[f] EXCEPT !.pc = "notifying", !.stamped = now]
        <3>1. firings' = [firings EXCEPT ![f] = over] \/ firings' = [firings EXCEPT ![f] = alerting]
            BY <2>4 DEF Stamp, Becomes
        <3>2. /\ over.due = firings[f].due /\ over.cron = firings[f].cron
              /\ alerting.due = firings[f].due /\ alerting.cron = firings[f].cron
            BY <2>1 DEF Firing
        <3> QED
            BY <3>1, <3>2
    <2> QED
        BY <2>2, <2>3, <2>4 DEF Task
<1> QED
    BY <1>1, <1>2

LEMMA TasksTally ==
    ASSUME Inv, Tally, NEW f \in DOMAIN firings, Task(f) \/ StatementFails(f)
    PROVE  Tally'
<1>1. now >= now /\ now \in Nat /\ UNCHANGED <<now, tick, nudges, lapses>>
    BY Constants, TasksKeepOccurrences DEF Inv, TypeOK
<1>2. \A d \in Time \ {Never} : Left(d)' <= Left(d)
    BY TasksKeepOccurrences DEF Left, TickHolds, RowHolds
<1> QED
    BY <1>1, <1>2, TasksKeepOccurrences, TallyMoves

(* A crash leaves an occurrence in the row at most.                        *)
LEMMA CrashTallies == ASSUME Inv, Tally, Crash PROVE Tally'
<1>1. /\ tick'.pc = "asleep" /\ UNCHANGED <<now, row, nudges, lapses>> /\ now >= now /\ now \in Nat
      /\ firings' = [f \in DOMAIN firings |-> [firings[f] EXCEPT !.pc = "over"]]
    BY Constants DEF Crash, Asleep, Inv, TypeOK
<1>2. /\ DOMAIN firings' = DOMAIN firings
      /\ \A g \in DOMAIN firings : firings'[g].due = firings[g].due
    BY <1>1, FiringTypes DEF Inv, Firing
<1>3. \A d \in Time \ {Never} : Left(d)' <= Left(d)
    BY <1>1 DEF Left, TickHolds, RowHolds
<1> QED
    BY <1>1, <1>2, <1>3, TallyMoves

(* An occurrence is run at most once, and once more for each request made  *)
(* at its minute and each lapse of the process's clock that wrote it       *)
(* again, whatever ticks, edits, requests, failures and crashes come       *)
(* between reading a due row, moving it on and running it.                 *)
THEOREM FiresOnce == Spec => []OccurrenceFiresOnce
<1>1. SchedulerInit => Tally
    <2> SUFFICES ASSUME SchedulerInit PROVE Tally
        OBVIOUS
    <2>1. /\ DOMAIN firings = {} /\ DOMAIN nudges = {} /\ DOMAIN lapses = {}
          /\ tick.pc = "asleep" /\ row.next = Never
        BY DEF SchedulerInit, Asleep
    <2>2. \A d \in Time \ {Never} : Fired(d) = {} /\ Nudged(d) = {} /\ Lapsed(d) = {} /\ Left(d) = 0
        BY <2>1 DEF Fired, Nudged, Lapsed, Left, TickHolds, RowHolds
    <2>3. \A d \in Time \ {Never} : Cardinality(Fired(d)) = 0 /\ Allowed(d) = 1
        BY <2>2, FS_EmptySet DEF Allowed
    <2> QED
        BY <2>1, <2>2, <2>3 DEF Tally, Accounted, RunsAreDue
<1>2. Inv /\ Tally /\ [SchedulerNext]_vars => Tally'
    <2> SUFFICES ASSUME Inv, Tally, [SchedulerNext]_vars PROVE Tally'
        OBVIOUS
    <2>1. CASE UNCHANGED vars
        BY <2>1
        DEF vars, Tally, Accounted, RunsAreDue, Fired, Allowed, Nudged, Lapsed, Left, TickHolds, RowHolds
    <2>2. CASE Passes \/ RunNow \/ Update \/ ResetNext \/ Remove
        BY <2>2, RequestsTally, RunNowTallies
    <2>3. CASE Ticks
        BY <2>3, TicksTally, AdvanceTallies, SpawnTallies DEF Ticks
    <2>4. CASE \E f \in DOMAIN firings : Task(f) \/ StatementFails(f)
        BY <2>4, TasksTally
    <2>5. CASE Crash
        BY <2>5, CrashTallies
    <2> QED
        BY <2>1, <2>2, <2>3, <2>4, <2>5 DEF SchedulerNext
<1>3. Inv /\ Tally => OccurrenceFiresOnce
    <2> SUFFICES ASSUME Inv, Tally, NEW d \in Time
                 PROVE  Cardinality(Fired(d)) <= Allowed(d)
        BY DEF OccurrenceFiresOnce, Fired, Allowed, Nudged, Lapsed
    <2>1. CASE d = Never
        <3>1. Fired(d) = {}
            BY <2>1, FiringTypes DEF Inv, Fired, Firing
        <3> QED
            BY <3>1, FS_EmptySet, Counts DEF Inv
    <2>2. CASE d # Never
        BY <2>2, Counts DEF Inv, Tally, Accounted
    <2> QED
        BY <2>1, <2>2
<1> QED
    BY <1>1, <1>2, <1>3, Invariance, PTL DEF Spec

----------------------------------------------------------------------------
(* Edits.  A time that was computed from another expression is still to    *)
(* run if the row has it, if the tick holds it, or if the tick is about to *)
(* write it: every edit pays for one such time.  The row's own does not    *)
(* count while the tick is about to overwrite it.                          *)
Leftover(d, c) ==
    /\ c = BadCron \/ d % c # 0
    /\ \A i \in DOMAIN nudges : nudges[i] # d
RowIsOff == row.exists /\ row.next # Never /\ Leftover(row.next, row.cron)
TickIsOff ==
    /\ tick.pc \in {"advancing", "spawning"}
    /\ tick.read.next # Never /\ tick.read.cron # BadCron
    /\ Leftover(tick.read.next, tick.read.cron)
WritesOff ==
    /\ tick.pc = "advancing" /\ tick.read.cron # BadCron
    /\ row.exists /\ row.cron # tick.read.cron
Debt ==
    IF tick.pc = "advancing"
    THEN IF TickIsOff /\ WritesOff THEN 2 ELSE IF TickIsOff \/ WritesOff \/ RowIsOff THEN 1 ELSE 0
    ELSE (IF TickIsOff THEN 1 ELSE 0) + (IF RowIsOff THEN 1 ELSE 0)

Misfires == {f \in DOMAIN firings : Misfired(f)}
EditsPay == Cardinality(Misfires) + Debt <= edits

LEMMA MisfireCounts ==
    ASSUME TypeOK
    PROVE  /\ IsFiniteSet(Misfires) /\ Cardinality(Misfires) \in Nat
           /\ Debt \in 0 .. 2 /\ edits \in Nat
<1>1. firings \in Seq(Firing)
    BY DEF TypeOK
<1>2. DOMAIN firings = 1 .. Len(firings) /\ Len(firings) \in Nat
    BY <1>1
<1>3. IsFiniteSet(DOMAIN firings) /\ Misfires \subseteq DOMAIN firings
    BY <1>2, FS_Interval DEF Misfires
<1>4. IsFiniteSet(Misfires)
    BY <1>3, FS_Subset
<1>5. Debt \in 0 .. 2 /\ edits \in Nat
    BY DEF Debt, TypeOK
<1> QED
    BY <1>4, <1>5, FS_CardinalityType

LEMMA Multiples ==
    ASSUME NEW c \in Nat, c # 0, NEW t \in Nat
    PROVE  NextOccurrence(c, t) % c = 0
<1> DEFINE k == t \div c + 1
<1>1. k \in Nat
    BY Division
<1> HIDE DEF k
<1>2. (k * c) % c = 0
    BY <1>1, SMTT(20)
<1> QED
    BY <1>2 DEF NextOccurrence, k

(* What keeps the runs, their times and their expressions only has to pay  *)
(* for new debts.                                                          *)
LEMMA PayMoves ==
    ASSUME Inv, TypeOK', EditsPay,
           DOMAIN firings' = DOMAIN firings,
           \A f \in DOMAIN firings :
              firings'[f].due = firings[f].due /\ firings'[f].cron = firings[f].cron,
           DOMAIN nudges \subseteq DOMAIN nudges',
           \A i \in DOMAIN nudges : nudges'[i] = nudges[i],
           Debt' + edits <= Debt + edits'
    PROVE  EditsPay'
<1>1. Misfires' \subseteq Misfires
    BY DEF Misfires, Misfired
<1>2. IsFiniteSet(Misfires') /\ Cardinality(Misfires') <= Cardinality(Misfires)
    BY <1>1, MisfireCounts, FS_Subset DEF Inv
<1>3. /\ Cardinality(Misfires) \in Nat /\ Debt \in 0 .. 2 /\ edits \in Nat
    BY MisfireCounts DEF Inv
<1>4. Cardinality(Misfires') \in Nat /\ Debt' \in 0 .. 2 /\ edits' \in Nat
    BY <1>2, FS_CardinalityType DEF Debt, TypeOK
<1> HIDE DEF Misfires, Debt
<1>5. Cardinality(Misfires) + Debt <= edits
    BY DEF EditsPay
<1>6. Cardinality(Misfires') + Debt' <= edits'
    BY <1>2, <1>3, <1>4, <1>5
<1> QED
    BY <1>6 DEF EditsPay

LEMMA Balance ==
    \A old, new \in 0 .. 2, e \in Nat :
        /\ new <= old => new + e <= old + e
        /\ new <= old + 1 => new + e <= old + (e + 1)
OBVIOUS

LEMMA DebtFalls ==
    ASSUME Inv, TypeOK', EditsPay, UNCHANGED <<edits, nudges>>,
           DOMAIN firings' = DOMAIN firings,
           \A f \in DOMAIN firings :
              firings'[f].due = firings[f].due /\ firings'[f].cron = firings[f].cron,
           Debt' <= Debt
    PROVE  EditsPay'
<1>1. Debt \in 0 .. 2 /\ edits \in Nat /\ edits' = edits
    BY MisfireCounts DEF Inv
<1>2. Debt' \in 0 .. 2
    BY DEF Debt
<1>3. Debt' + edits <= Debt + edits'
    BY <1>1, <1>2, Balance, Zenon
<1> QED
    BY <1>3, PayMoves

LEMMA RequestsPay ==
    ASSUME Inv, TypeOK', EditsPay, Passes \/ RunNow \/ Update \/ ResetNext \/ Remove
    PROVE  EditsPay'
<1>0. UNCHANGED <<tick, firings>>
    BY DEF Passes, RunNow, Update, ResetNext, Remove, history
<1>a. edits \in Nat /\ Debt \in 0 .. 2
    BY MisfireCounts DEF Inv
<1>b. Debt' \in 0 .. 2
    BY DEF Debt
<1>1. CASE Passes
    <2>1. Debt' = Debt /\ UNCHANGED <<nudges, edits>>
        BY <1>1 DEF Passes, history, Debt, TickIsOff, WritesOff, RowIsOff, Leftover
    <2> QED
        BY <1>0, <2>1, DebtFalls, MisfireCounts DEF Inv
<1>2. CASE RunNow
    <2>1. /\ nudges' = Append(nudges, now) /\ edits' = edits
          /\ row'.exists = row.exists /\ row'.next = now /\ row'.cron = row.cron
        BY <1>2, RowTypes DEF RunNow, Inv, Row
    <2>2. /\ DOMAIN nudges \subseteq DOMAIN nudges'
          /\ \A i \in DOMAIN nudges : nudges'[i] = nudges[i]
          /\ Len(nudges) + 1 \in DOMAIN nudges' /\ nudges'[Len(nudges) + 1] = now
        BY <2>1 DEF Inv, TypeOK
    <2>3. ~RowIsOff'
        BY <2>1, <2>2 DEF RowIsOff, Leftover
    <2>4. (TickIsOff' => TickIsOff) /\ (WritesOff' => WritesOff)
        BY <1>0, <2>1, <2>2 DEF TickIsOff, WritesOff, Leftover
    <2>5. Debt' <= Debt
        BY <1>0, <2>3, <2>4 DEF Debt
    <2>6. Debt' + edits <= Debt + edits'
        BY <1>a, <1>b, <2>1, <2>5, Balance, Zenon
    <2> QED
        BY <1>0, <2>2, <2>6, PayMoves
<1>3. CASE Update
    <2>1. edits' = edits + 1 /\ UNCHANGED nudges
        BY <1>3 DEF Update
    <2>2. TickIsOff' <=> TickIsOff
        BY <1>0, <2>1 DEF TickIsOff, Leftover
    <2>3. Debt' <= Debt + 1
        BY <1>0, <2>2 DEF Debt
    <2>4. Debt' + edits <= Debt + edits'
        BY <1>a, <1>b, <2>1, <2>3, Balance, Zenon
    <2> QED
        BY <1>0, <2>1, <2>4, PayMoves
<1>4. CASE ResetNext \/ Remove
    <2>1. /\ UNCHANGED <<nudges, edits>>
          /\ row' = row \/ ~row'.exists \/ (row'.next = Never /\ row'.exists = row.exists /\ row'.cron = row.cron)
        BY <1>4, RowTypes DEF ResetNext, Remove, history, Inv, Row
    <2>2. (RowIsOff' => RowIsOff) /\ (WritesOff' => WritesOff) /\ (TickIsOff' <=> TickIsOff)
        BY <1>0, <2>1 DEF RowIsOff, WritesOff, TickIsOff, Leftover
    <2>3. Debt' <= Debt
        BY <1>0, <2>2 DEF Debt
    <2> QED
        BY <1>0, <2>1, <2>3, DebtFalls
<1> QED
    BY <1>1, <1>2, <1>3, <1>4

LEMMA TicksPay ==
    ASSUME Inv, TypeOK', EditsPay, Poll \/ AdvanceFails \/ Disable
    PROVE  EditsPay'
<1>1. UNCHANGED <<now, firings, nudges, edits>>
    BY DEF Poll, AdvanceFails, Disable, history
<1>2. Asleep.pc = "asleep"
    BY DEF Asleep
<1>3. Debt' <= Debt
    <2>1. CASE Poll
        <3>1. /\ tick.pc = "asleep" /\ tick'.pc = "advancing" /\ tick'.read = row /\ row' = row
              /\ row.exists
            BY <1>2, <2>1 DEF Poll, Due
        <3>2. /\ ~TickIsOff /\ ~WritesOff' /\ (TickIsOff' => RowIsOff) /\ (RowIsOff' <=> RowIsOff)
            BY <1>1, <3>1 DEF TickIsOff, WritesOff, RowIsOff, Leftover
        <3> QED
            BY <3>1, <3>2 DEF Debt
    <2>2. CASE AdvanceFails
        <3>1. tick.pc = "advancing" /\ tick # Asleep /\ row' = row /\ tick'.pc = "disabling"
            BY <1>2, <2>2, Turned DEF AdvanceFails
        <3>2. ~TickIsOff' /\ (RowIsOff' <=> RowIsOff)
            BY <1>1, <3>1 DEF TickIsOff, RowIsOff, Leftover
        <3> QED
            BY <3>1, <3>2 DEF Debt
    <2>3. CASE Disable
        <3>1. /\ tick.pc = "disabling" /\ tick'.pc = "asleep"
              /\ row'.exists = row.exists /\ row'.next = row.next /\ row'.cron = row.cron
            BY <1>2, <2>3, RowTypes DEF Disable, Row, Inv
        <3>2. ~TickIsOff' /\ (RowIsOff' <=> RowIsOff)
            BY <1>1, <3>1 DEF TickIsOff, RowIsOff, Leftover
        <3> QED
            BY <3>1, <3>2 DEF Debt
    <2> QED
        BY <2>1, <2>2, <2>3
<1> QED
    BY <1>1, <1>3, DebtFalls

(* What the tick writes is off only if the expression has changed since.   *)
LEMMA AdvancePays == ASSUME Inv, TypeOK', EditsPay, Advance PROVE EditsPay'
<1>1. /\ tick.pc = "advancing" /\ tick # Asleep /\ tick.read.cron # BadCron
      /\ UNCHANGED <<now, firings, nudges, edits>> /\ Asleep.pc = "asleep"
    BY AdvanceWrites DEF Asleep
<1>2. tick.read.cron \in Nat /\ tick.read.cron # 0
    BY <1>1, ReadTypes, Constants
<1>3. PICK next \in Nat :
          /\ next % tick.read.cron = 0
          /\ row' = IF row.exists THEN [row EXCEPT !.next = next] ELSE row
    BY <1>2, AdvanceWrites, Multiples
<1>3a. /\ row'.exists = row.exists /\ row'.cron = row.cron
       /\ row.exists => row'.next = next
    BY <1>3, RowTypes DEF Row, Inv
<1>4. RowIsOff' => WritesOff
    BY <1>1, <1>3, <1>3a DEF RowIsOff, WritesOff, Leftover
<1>5. tick'.pc # "advancing" /\ (TickIsOff' => TickIsOff)
    <2>1. CASE tick.read.next = Never
        BY <1>1, <2>1 DEF Advance, TickIsOff
    <2>2. CASE tick.read.next # Never
        <3>1. tick'.pc = "spawning" /\ tick'.read = tick.read
            BY <1>1, <2>2, Turned DEF Advance
        <3> QED
            BY <1>1, <3>1 DEF TickIsOff, Leftover
    <2> QED
        BY <2>1, <2>2
<1>6. Debt' <= Debt
    BY <1>1, <1>4, <1>5 DEF Debt
<1> QED
    BY <1>1, <1>6, DebtFalls

LEMMA SpawnPays == ASSUME Inv, TypeOK', EditsPay, Spawn PROVE EditsPay'
<1> DEFINE new == [pc |-> "starting", due |-> tick.read.next, cron |-> tick.read.cron,
                   seen |-> tick.read.alerted, beside |-> tick.beside,
                   notifies |-> FALSE, stamped |-> Never]
<1>1. /\ tick.pc = "spawning" /\ tick # Asleep /\ tick'.pc = "asleep"
      /\ UNCHANGED <<now, row, nudges, edits, lapses>> /\ firings' = Append(firings, new)
    BY DEF Spawn, Asleep, history
<1>2. new.due = tick.read.next /\ new.cron = tick.read.cron
    OBVIOUS
<1> HIDE DEF new
<1>3. PICK n : /\ n \notin DOMAIN firings /\ DOMAIN firings' = DOMAIN firings \union {n}
               /\ \A f \in DOMAIN firings : firings'[f] = firings[f]
               /\ firings'[n] = new
    <2>1. LET n == Len(firings) + 1 IN
          /\ n \notin DOMAIN firings /\ DOMAIN firings' = DOMAIN firings \union {n}
          /\ \A f \in DOMAIN firings : firings'[f] = firings[f]
          /\ firings'[n] = new
        BY <1>1 DEF Inv, TypeOK
    <2> QED
        BY <2>1
<1>4. ~TickIsOff' /\ (RowIsOff' <=> RowIsOff)
    BY <1>1 DEF TickIsOff, RowIsOff, Leftover
<1>5. Misfired(n)' <=> TickIsOff
    <2>1. firings'[n].due = tick.read.next /\ firings'[n].cron = tick.read.cron
        BY <1>2, <1>3
    <2>2. tick.read.next # Never /\ tick.read.cron # BadCron
        BY <1>1 DEF Inv, TickReadsWhatIsDue
    <2>3. Misfired(n)' <=> /\ tick.read.next % tick.read.cron # 0
                           /\ \A i \in DOMAIN nudges : nudges[i] # tick.read.next
        BY <1>1, <2>1 DEF Misfired
    <2> QED
        BY <1>1, <2>2, <2>3 DEF TickIsOff, Leftover
<1>6. Cardinality(Misfires) + Debt <= edits
    BY DEF EditsPay
<1>7. /\ n \notin Misfires
      /\ Misfires' = IF Misfired(n)' THEN Misfires \union {n} ELSE Misfires
    <2>1. \A f \in DOMAIN firings : Misfired(f)' <=> Misfired(f)
        BY <1>1, <1>3 DEF Misfired
    <2>2. \A f : f \in Misfires' <=> f \in DOMAIN firings' /\ Misfired(f)'
        BY DEF Misfires
    <2> QED
        BY <1>3, <2>1, <2>2 DEF Misfires
<1>8. CASE TickIsOff
    <2>1. Misfires' = Misfires \union {n} /\ n \notin Misfires
        BY <1>5, <1>7, <1>8
    <2>2. Cardinality(Misfires') = Cardinality(Misfires) + 1
        BY <2>1, FS_AddElement, MisfireCounts DEF Inv
    <2>3. Debt' + 1 = Debt
        BY <1>1, <1>4, <1>8 DEF Debt
    <2>4. Cardinality(Misfires) \in Nat /\ Debt' \in 0 .. 2 /\ edits' = edits /\ edits \in Nat
        BY <1>1, MisfireCounts DEF Inv, Debt
    <2> QED
        BY <1>6, <2>2, <2>3, <2>4 DEF EditsPay
<1>9. CASE ~TickIsOff
    <2>1. Misfires' = Misfires
        BY <1>5, <1>7, <1>9
    <2>2. Debt' = Debt
        BY <1>1, <1>4, <1>9 DEF Debt
    <2> QED
        BY <1>1, <1>6, <2>1, <2>2 DEF EditsPay
<1> QED
    BY <1>8, <1>9

LEMMA TasksPay ==
    ASSUME Inv, TypeOK', EditsPay, NEW f \in DOMAIN firings, Task(f) \/ StatementFails(f)
    PROVE  EditsPay'
<1>1. Debt' = Debt
    BY TasksKeepOccurrences DEF Debt, TickIsOff, WritesOff, RowIsOff, Leftover
<1>2. Debt' <= Debt
    BY <1>1, MisfireCounts DEF Inv
<1> QED
    BY <1>2, TasksKeepOccurrences, DebtFalls

LEMMA CrashPays == ASSUME Inv, TypeOK', EditsPay, Crash PROVE EditsPay'
<1>1. /\ tick'.pc = "asleep" /\ UNCHANGED <<row, nudges, edits>>
      /\ firings' = [f \in DOMAIN firings |-> [firings[f] EXCEPT !.pc = "over"]]
    BY DEF Crash, Asleep
<1>2. /\ DOMAIN firings' = DOMAIN firings
      /\ \A g \in DOMAIN firings :
            firings'[g].due = firings[g].due /\ firings'[g].cron = firings[g].cron
    BY <1>1, FiringTypes DEF Inv, Firing
<1>3. ~TickIsOff' /\ (RowIsOff' <=> RowIsOff)
    BY <1>1 DEF TickIsOff, RowIsOff, Leftover
<1>4. Debt' <= Debt
    BY <1>1, <1>3 DEF Debt
<1> QED
    BY <1>1, <1>2, <1>4, DebtFalls

(* An edit writes the row and resets its next run in two statements, and   *)
(* the tick reads the row and moves it on in two: between them a time of   *)
(* the old expression can survive, but at most one for each edit.          *)
THEOREM MisfiresArePaid == Spec => []AnEditMisfiresOnce
<1>1. SchedulerInit => EditsPay
    <2> SUFFICES ASSUME SchedulerInit PROVE EditsPay
        OBVIOUS
    <2>1. DOMAIN firings = {} /\ tick.pc = "asleep" /\ row.next = Never /\ edits = 0
        BY DEF SchedulerInit, Asleep
    <2>2. Misfires = {} /\ Debt = 0
        BY <2>1 DEF Misfires, Debt, TickIsOff, RowIsOff
    <2>3. Cardinality(Misfires) = 0
        BY <2>2, FS_EmptySet
    <2> QED
        BY <2>1, <2>2, <2>3 DEF EditsPay
<1>2. Inv /\ Inv' /\ EditsPay /\ [SchedulerNext]_vars => EditsPay'
    <2> SUFFICES ASSUME Inv, TypeOK', EditsPay, [SchedulerNext]_vars PROVE EditsPay'
        BY DEF Inv
    <2>1. CASE UNCHANGED vars
        BY <2>1
        DEF vars, EditsPay, Misfires, Misfired, Debt, TickIsOff, WritesOff, RowIsOff, Leftover
    <2>2. CASE Passes \/ RunNow \/ Update \/ ResetNext \/ Remove
        BY <2>2, RequestsPay
    <2>3. CASE Ticks
        BY <2>3, TicksPay, AdvancePays, SpawnPays DEF Ticks
    <2>4. CASE \E f \in DOMAIN firings : Task(f) \/ StatementFails(f)
        BY <2>4, TasksPay
    <2>5. CASE Crash
        BY <2>5, CrashPays
    <2> QED
        BY <2>1, <2>2, <2>3, <2>4, <2>5 DEF SchedulerNext
<1>3. Inv /\ EditsPay => AnEditMisfiresOnce
    BY MisfireCounts DEF Inv, EditsPay, AnEditMisfiresOnce, Misfires
<1> QED
    BY <1>1, <1>2, <1>3, Invariance, PTL DEF Spec
=============================================================================
