------------------------------ MODULE Scheduler ------------------------------
(***************************************************************************)
(* One scheduled query with an alert condition: v2/backend/src/            *)
(* scheduler.rs (the tick, and a task per firing) and the requests of      *)
(* schedules.rs that change its row.                                       *)
(* Time is counted in minutes from 1.  A cron expression is its period in  *)
(* minutes; BadCron is one that cannot be parsed.  Each statement sees the *)
(* row as it is then; between two of them anything else may happen.        *)
(* There are two clocks: the database's, which finds what is due and       *)
(* stamps the row, and the process's, which the next run is computed from  *)
(* and the cooldown is judged by.                                          *)
(***************************************************************************)
EXTENDS Naturals, FiniteSets, Sequences

CONSTANTS
    Cron,       \* periods a schedule may have, BadCron among them
    Cooldown,   \* alertCooldownMin
    Skew,       \* minutes the process's clock may be off the database's
    MaxTime,    \* bound: minutes that pass
    MaxExtras,  \* bound: runs that requests and a slow clock add
    MaxEdits,   \* bound: edits
    MaxFaults   \* bound: statements that fail and crashes of the process

BadCron == 0
Never == 0      \* nextRunAt and lastAlertedAt: NULL

ASSUME SchedulerAssumption ==
    /\ Cron \subseteq Nat
    /\ {Cooldown, Skew, MaxTime, MaxExtras, MaxEdits, MaxFaults} \subseteq Nat
    /\ MaxTime > 0

VARIABLES
    now,      \* the database's clock
    row,      \* the ScheduledQuery row
    edit,     \* "resetting" between the two statements of an edit
    tick,     \* what the tick does, and the row as it read it
    firings,  \* the tasks spawned, in order
    nudges,   \* history: when "run now" was asked for
    edits,    \* history: edits begun
    lapses,   \* history: the times a slow clock wrote that were not to come
    faults

vars == <<now, row, edit, tick, firings, nudges, edits, lapses, faults>>
history == <<nudges, edits, lapses, faults>>

Time == 0 .. MaxTime
Asleep == [pc |-> "asleep"]
Gone == [exists |-> FALSE, enabled |-> FALSE, cron |-> BadCron, next |-> Never, alerted |-> Never]
Row == [exists : BOOLEAN, enabled : BOOLEAN, cron : Cron \union {BadCron}, next : Nat, alerted : Time]
TickState ==
    {Asleep} \union
    [pc : {"advancing", "disabling", "spawning"}, read : Row, beside : SUBSET Nat]
Firing ==
    [pc : {"starting", "executing", "recording", "stamping", "notifying", "over"},
     due : Time \ {Never}, cron : Cron \ {BadCron}, seen : Time, beside : SUBSET Nat,
     notifies : BOOLEAN, stamped : Time]

Extras == Len(nudges) + Len(lapses)
Alive(fs) == {f \in DOMAIN fs : fs[f].pc # "over"}
(* Variants: mistakes the properties would catch stand before what they    *)
(* are mistakes of.                                                        *)
NextOccurrenceInclusive(cron, t) == ((t + cron - 1) \div cron) * cron
NextByInterval(cron, t) == t + cron
NextOccurrence(cron, t) == ((t \div cron) + 1) * cron

SchedulerInit ==
    /\ now = 1
    /\ row \in [exists : {TRUE}, enabled : BOOLEAN, cron : Cron, next : {Never}, alerted : {Never}]
    /\ edit = "none"
    /\ tick = Asleep
    /\ firings = <<>>
    /\ nudges = <<>>
    /\ edits = 0
    /\ lapses = <<>>
    /\ faults = 0

----------------------------------------------------------------------------
(* The requests.                                                           *)
Passes ==
    /\ now < MaxTime
    /\ now' = now + 1
    /\ UNCHANGED <<row, edit, tick, firings, history>>

RunNow ==
    /\ row.exists /\ row.enabled
    /\ Extras < MaxExtras
    /\ row' = [row EXCEPT !.next = now]
    /\ nudges' = Append(nudges, now)
    /\ UNCHANGED <<now, edit, tick, firings, edits, lapses, faults>>

(* An edit writes the row, and then, if it is enabled, has its next run    *)
(* computed anew.                                                          *)
Update ==
    \E c \in Cron, e \in BOOLEAN :
        /\ row.exists
        /\ edit = "none" /\ edits < MaxEdits
        /\ row' = [row EXCEPT !.cron = c, !.enabled = e]
        /\ edit' = IF e THEN "resetting" ELSE "none"
        /\ edits' = edits + 1
        /\ UNCHANGED <<now, tick, firings, nudges, lapses, faults>>

ResetNext ==
    /\ edit = "resetting"
    /\ edit' = "none"
    /\ row' = IF row.exists THEN [row EXCEPT !.next = Never] ELSE row
    /\ UNCHANGED <<now, tick, firings, history>>

Remove ==
    /\ row.exists
    /\ row' = Gone
    /\ UNCHANGED <<now, edit, tick, firings, history>>

----------------------------------------------------------------------------
(* The tick.                                                               *)
Due(r) == r.exists /\ r.enabled /\ (r.next = Never \/ r.next <= now)

Poll ==
    /\ tick = Asleep
    /\ Due(row)
    /\ tick' = [pc |-> "advancing", read |-> row, beside |-> Alive(firings)]
    /\ UNCHANGED <<now, row, edit, firings, history>>

(* What the process may read from its clock.                               *)
ProcessClock == {t \in Time \ {0} : t <= now + Skew /\ now <= t + Skew}

(* The next run is written before this one begins.  By a slow clock it may *)
(* be one that is due already: a lapse.  A row that was never scheduled    *)
(* does not run now.                                                       *)
Moves ==
    \E t \in ProcessClock :
        LET next == NextOccurrence(tick.read.cron, t)
            lapse == t < now /\ next <= now
        IN  /\ tick.pc = "advancing"
            /\ tick.read.cron # BadCron
            /\ row' = IF row.exists THEN [row EXCEPT !.next = next] ELSE row
            /\ lapse => Extras < MaxExtras
            /\ lapses' = IF lapse THEN Append(lapses, next) ELSE lapses
            /\ UNCHANGED <<now, edit, firings, nudges, edits, faults>>
AdvanceRunsAtSight == Moves /\ tick' = [tick EXCEPT !.pc = "spawning"]
AdvanceSkipsLate ==
    Moves /\ tick' = IF tick.read.next < now THEN Asleep ELSE [tick EXCEPT !.pc = "spawning"]
Advance ==
    Moves /\ tick' = IF tick.read.next = Never THEN Asleep ELSE [tick EXCEPT !.pc = "spawning"]

Fault == faults < MaxFaults /\ faults' = faults + 1

AdvanceFails ==
    /\ tick.pc = "advancing"
    /\ \/ tick.read.cron = BadCron /\ UNCHANGED faults
       \/ tick.read.cron # BadCron /\ Fault
    /\ tick' = [tick EXCEPT !.pc = "disabling"]
    /\ UNCHANGED <<now, row, edit, firings, nudges, edits, lapses>>

Disable ==
    /\ tick.pc = "disabling"
    /\ \/ row' = [row EXCEPT !.enabled = FALSE] /\ UNCHANGED faults
       \/ Fault /\ UNCHANGED row
    /\ tick' = Asleep
    /\ UNCHANGED <<now, edit, firings, nudges, edits, lapses>>

Spawn ==
    /\ tick.pc = "spawning"
    /\ firings' = Append(firings,
           [pc |-> "starting", due |-> tick.read.next, cron |-> tick.read.cron,
            seen |-> tick.read.alerted, beside |-> tick.beside,
            notifies |-> FALSE, stamped |-> Never])
    /\ tick' = Asleep
    /\ UNCHANGED <<now, row, edit, history>>

----------------------------------------------------------------------------
(* One execution.                                                          *)
At(f, pc) == f \in DOMAIN firings /\ firings[f].pc = pc
Becomes(f, new) == firings' = [firings EXCEPT ![f] = new]

(* A run cannot be recorded for a schedule that is gone.                   *)
Start(f) ==
    /\ At(f, "starting")
    /\ Becomes(f, [firings[f] EXCEPT !.pc = IF row.exists THEN "executing" ELSE "over"])
    /\ UNCHANGED <<now, row, edit, tick, history>>

(* An error of the query or its time-out.                                  *)
Fails(f) ==
    /\ At(f, "executing")
    /\ Becomes(f, [firings[f] EXCEPT !.pc = "over"])
    /\ UNCHANGED <<now, row, edit, tick, history>>

InCooldownInclusive(f, t) == firings[f].seen # Never /\ t + 1 < firings[f].seen + Cooldown
InCooldown(f, t) == firings[f].seen # Never /\ t < firings[f].seen + Cooldown

Succeeds(f) ==
    \E triggered \in BOOLEAN, t \in ProcessClock :
        /\ At(f, "executing")
        /\ Becomes(f, [firings[f] EXCEPT !.pc = "recording",
                                         !.notifies = triggered /\ ~InCooldown(f, t)])
        /\ UNCHANGED <<now, row, edit, tick, history>>

Record(f) ==
    /\ At(f, "recording")
    /\ Becomes(f, [firings[f] EXCEPT !.pc = "stamping"])
    /\ UNCHANGED <<now, row, edit, tick, history>>

(* The alert is stamped before it is sent.                                 *)
Stamp(f) ==
    /\ At(f, "stamping")
    /\ IF firings[f].notifies
         THEN /\ row' = IF row.exists THEN [row EXCEPT !.alerted = now] ELSE row
              /\ Becomes(f, [firings[f] EXCEPT !.pc = "notifying", !.stamped = now])
         ELSE /\ UNCHANGED row
              /\ Becomes(f, [firings[f] EXCEPT !.pc = "over"])
    /\ UNCHANGED <<now, edit, tick, history>>

Notify(f) ==
    /\ At(f, "notifying")
    /\ Becomes(f, [firings[f] EXCEPT !.pc = "over"])
    /\ UNCHANGED <<now, row, edit, tick, history>>

(* A statement of the task fails, and run_one returns.                     *)
StatementFails(f) ==
    /\ \E pc \in {"starting", "recording", "stamping"} : At(f, pc)
    /\ Fault
    /\ Becomes(f, [firings[f] EXCEPT !.pc = "over"])
    /\ UNCHANGED <<now, row, edit, tick, nudges, edits, lapses>>

(* The process dies with its tick, its tasks and its requests.             *)
Crash ==
    /\ tick # Asleep \/ edit # "none" \/ Alive(firings) # {}
    /\ Fault
    /\ tick' = Asleep
    /\ edit' = "none"
    /\ firings' = [f \in DOMAIN firings |-> [firings[f] EXCEPT !.pc = "over"]]
    /\ UNCHANGED <<now, row, nudges, edits, lapses>>

Task(f) ==
    \/ Start(f) \/ Fails(f) \/ Succeeds(f) \/ Record(f) \/ Stamp(f) \/ Notify(f)
Ticks == Poll \/ Advance \/ AdvanceFails \/ Disable \/ Spawn

SchedulerNext ==
    \/ Passes \/ RunNow \/ Update \/ ResetNext \/ Remove
    \/ Ticks
    \/ \E f \in DOMAIN firings : Task(f) \/ StatementFails(f)
    \/ Crash

Spec == SchedulerInit /\ [][SchedulerNext]_vars

(* The loop ticks every 20 seconds and asks nothing but the database of    *)
(* the scheduler: no task, request or edit has to go on for it.            *)
FairSpec == Spec /\ WF_vars(Ticks)

----------------------------------------------------------------------------
(* Types.  What is never scheduled, or badly, does not fire.               *)
TypeOK ==
    /\ now \in Time \ {0}
    /\ row \in Row
    /\ edit \in {"none", "resetting"}
    /\ tick \in TickState
    /\ firings \in Seq(Firing)
    /\ {nudges, lapses} \subseteq Seq(Time)
    /\ {edits, faults} \subseteq Nat

(* Because nextRunAt is moved on before the run is spawned, an occurrence  *)
(* is run at most once, however the tick, edits, requests and crashes mix; *)
(* a request to run now adds one run, and so does an advance by a clock    *)
(* that was still before the occurrence that had become due.               *)
OccurrenceFiresOnce ==
    \A d \in Time :
        Cardinality({f \in DOMAIN firings : firings[f].due = d}) <=
            1 + Cardinality({i \in DOMAIN nudges : nudges[i] = d})
              + Cardinality({i \in DOMAIN lapses : lapses[i] = d})

(* The cooldown is judged by the row as the tick read it, so it binds a    *)
(* run to the alerts of all runs that were over by then: two alerts within *)
(* the cooldown, less what the clocks differ by, come from runs that       *)
(* overlap.                                                                *)
CooldownUnlessOverlapping ==
    \A f, g \in DOMAIN firings :
        f < g /\ firings[f].stamped # Never /\ firings[g].stamped # Never
        => \/ f \in firings[g].beside
           \/ firings[g].stamped + Skew >= firings[f].stamped + Cooldown

(* A run at a time that neither the expression it was read with nor a      *)
(* request chose is left over from an edit, and an edit leaves at most     *)
(* one: the next time is computed from the row as it is read anew.         *)
Misfired(f) ==
    /\ firings[f].due % firings[f].cron # 0
    /\ \A i \in DOMAIN nudges : nudges[i] # firings[f].due
AnEditMisfiresOnce ==
    Cardinality({f \in DOMAIN firings : Misfired(f)}) <= edits

(* A row that is due is run, unless it is reset, disabled or removed, or   *)
(* something fails.  (A request made while the tick holds a row that was   *)
(* never scheduled is overwritten, and is not due any more.)               *)
HoldsFirstSight == tick.pc = "advancing" /\ tick.read.next = Never
WhatIsDueFires ==
    (Due(row) /\ row.next # Never /\ ~HoldsFirstSight)
    ~> (tick.pc = "spawning" \/ row.next = Never \/ ~row.enabled \/ ~row.exists \/ faults > 0)

----------------------------------------------------------------------------
(* "Err means the cron itself is unusable" (advance): the tick disables a  *)
(* schedule for its expression only.  Not so: the error may be of the      *)
(* statement that writes nextRunAt.                                        *)
DisabledForItsCron == tick.pc = "disabling" => tick.read.cron = BadCron
=============================================================================
