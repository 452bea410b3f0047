------------------------------- MODULE Billing -------------------------------
(***************************************************************************)
(* Payments of one workspace: checkout, the provider's link, the webhook   *)
(* and verify-on-return that reconcile it, and the daily sweep.            *)
(* v2/backend/src/billing.rs and backend/src/billing/ (v1) differ in the   *)
(* transaction only: v2 reads its rows FOR UPDATE, v1 with plain SELECTs.  *)
(* A transaction sees the rows as committed when each statement runs, and  *)
(* its own writes appear at its commit; a row it wrote, or read FOR        *)
(* UPDATE, makes others who want that row wait until it ends.              *)
(***************************************************************************)
EXTENDS Naturals, FiniteSets

CONSTANTS
    Attempt,    \* PaymentAttempt rows
    Handler,    \* requests that may reconcile at a time
    NoHandler,
    RowLocks,   \* TRUE in v2: SELECT ... FOR UPDATE
    Personal,   \* the workspace got its trial at sign-up
    Period,     \* days a payment buys
    Trial,      \* days of a trial
    Grace,      \* GRACE_DAYS
    MaxDay,     \* bound: days that pass
    MaxAborts   \* bound: transactions lost to a crash or a dropped connection

ASSUME BillingAssumption ==
    /\ NoHandler \notin Handler
    /\ {RowLocks, Personal} \subseteq BOOLEAN
    /\ {Period, Trial} \subseteq Nat \ {0}
    /\ {Grace, MaxDay, MaxAborts} \subseteq Nat

VARIABLES
    day,
    status,       \* status[a]: of the row, "none" before checkout
    providerRef,  \* attempts whose link id is stored; their customer has the URL
    checkout,     \* checkout[a]: what the checkout request does next
    link,         \* link[a]: the provider's state of it
    notices,      \* <<a, s>>: webhooks the provider sends, any number of times
    sub,          \* the Subscription row
    call,         \* call[h]: a webhook or verify request
    attLock,      \* attLock[a]: whose transaction locks the attempt's row
    subLock,      \* and the subscription's
    aborts

rows == <<status, sub>>
locks == <<attLock, subLock>>
provider == <<link, notices>>
checkouts == <<providerRef, checkout>>
vars == <<day, status, providerRef, checkout, link, notices, sub, call, attLock, subLock, aborts>>

LinkState == {"open", "paid", "mispaid", "failed"}
Labels == {"none", "TRIALING", "ACTIVE", "PAST_DUE", "SUSPENDED"}
Pc == {"idle", "fetching", "begun", "marking", "reading", "upserting", "failing"}
Idle == [pc |-> "idle"]
Call ==
    {Idle} \union
    [pc : Pc \ {"idle"}, att : Attempt, says : LinkState, at : Nat, base : Nat]

Later(x, y) == IF x > y THEN x ELSE y

BillingInit ==
    /\ day = 1
    /\ status = [a \in Attempt |-> "none"]
    /\ providerRef = {}
    /\ checkout = [a \in Attempt |-> "idle"]
    /\ link = [a \in Attempt |-> "none"]
    /\ notices = {}
    /\ sub = [label |-> "none", end |-> 0]
    /\ call = [h \in Handler |-> Idle]
    /\ attLock = [a \in Attempt |-> NoHandler]
    /\ subLock = NoHandler
    /\ aborts = 0

----------------------------------------------------------------------------
(* Sign-up and log-in give a personal workspace its trial, once.           *)
StartTrial ==
    /\ Personal
    /\ sub.label = "none"
    /\ subLock = NoHandler
    /\ sub' = [label |-> "TRIALING", end |-> day + Trial]
    /\ UNCHANGED <<day, status, checkouts, provider, call, locks, aborts>>

(* checkout: the attempt is recorded before the provider is asked.         *)
Checkout(a) ==
    /\ status[a] = "none"
    /\ Personal => sub.label # "none"
    /\ status' = [status EXCEPT ![a] = "PENDING"]
    /\ checkout' = [checkout EXCEPT ![a] = "linking"]
    /\ UNCHANGED <<day, providerRef, provider, sub, call, locks, aborts>>

LinkMade(a) ==
    /\ checkout[a] = "linking"
    /\ link[a] = "none"
    /\ link' = [link EXCEPT ![a] = "open"]
    /\ checkout' = [checkout EXCEPT ![a] = "storing"]
    /\ UNCHANGED <<day, status, providerRef, notices, sub, call, locks, aborts>>

(* An error or a lost answer: the link may exist, its URL reaches nobody.  *)
LinkRefused(a) ==
    /\ checkout[a] = "linking"
    /\ link' \in {link, [link EXCEPT ![a] = "open"]}
    /\ status' = [status EXCEPT ![a] = "FAILED"]
    /\ checkout' = [checkout EXCEPT ![a] = "done"]
    /\ UNCHANGED <<day, providerRef, notices, sub, call, locks, aborts>>

StoreRef(a) ==
    /\ checkout[a] = "storing"
    /\ providerRef' = providerRef \union {a}
    /\ checkout' = [checkout EXCEPT ![a] = "done"]
    /\ UNCHANGED <<day, status, provider, sub, call, locks, aborts>>

----------------------------------------------------------------------------
(* The provider: a customer who has the URL pays, exactly or not, or the   *)
(* payment fails; a paid order may be returned.  Each change is notified.  *)
LinkMoves(a) ==
    \E s \in LinkState :
        /\ \/ link[a] = "open" /\ s = "failed"
           \/ link[a] = "open" /\ a \in providerRef /\ s \in {"paid", "mispaid"}
           \/ link[a] = "paid" /\ s = "failed"
        /\ link' = [link EXCEPT ![a] = s]
        /\ notices' = notices \union {<<a, s>>}
        /\ UNCHANGED <<day, rows, checkouts, call, locks, aborts>>

DayPasses ==
    /\ day < MaxDay
    /\ day' = day + 1
    /\ UNCHANGED <<rows, checkouts, provider, call, locks, aborts>>

----------------------------------------------------------------------------
CallIs(h, c) == call' = [call EXCEPT ![h] = c]
Begun(a, s) == [pc |-> "begun", att |-> a, says |-> s, at |-> 0, base |-> 0]

(* The amount guard takes a webhook without a total for one that matches.  *)
HeardInWrongUnit(s) == IF s = "paid" THEN {"mispaid"} ELSE {s}
Heard(s) == IF s = "mispaid" THEN {"paid", "mispaid"} ELSE {s}

(* wayl_webhook: the attempt is found by our reference, or by the id of    *)
(* its link; an id that checkout has not stored yet is ignored, which is   *)
(* the same as a notice not sent yet.                                      *)
Webhook(h, a, s) ==
    /\ call[h] = Idle
    /\ <<a, s>> \in notices
    /\ \E said \in Heard(s) : CallIs(h, Begun(a, said))
    /\ UNCHANGED <<day, rows, checkouts, provider, locks, aborts>>

(* verify_return: only of a pending attempt, from the provider's answer.   *)
VerifyReturn(h, a) ==
    /\ call[h] = Idle
    /\ status[a] = "PENDING"
    /\ CallIs(h, [Begun(a, "open") EXCEPT !.pc = "fetching"])
    /\ UNCHANGED <<day, rows, checkouts, provider, locks, aborts>>

(* Nothing is done on an error, nor with a link without a total.           *)
GotLink(h) ==
    /\ call[h].pc = "fetching"
    /\ \/ CallIs(h, Idle)
       \/ link[call[h].att] # "none" /\ CallIs(h, Begun(call[h].att, link[call[h].att]))
    /\ UNCHANGED <<day, rows, checkouts, provider, locks, aborts>>

----------------------------------------------------------------------------
Free(lock, h) == lock \in {NoHandler, h}
LocksAttempt(h) == attLock' = [attLock EXCEPT ![call[h].att] = h]
Released(h) ==
    /\ attLock' = [a \in Attempt |-> IF attLock[a] = h THEN NoHandler ELSE attLock[a]]
    /\ subLock' = IF subLock = h THEN NoHandler ELSE subLock

(* The first SELECT waits for a row somebody else is settling, in v2.      *)
ReadsAtOnce(h) == TRUE
MayRead(h) == RowLocks => Free(attLock[call[h].att], h)

(* reconcile: what it does with the attempt as read, which it locks if it  *)
(* is to change it; "now" is taken here.                                   *)
ReadFresh(h) ==
    LET a == call[h].att
        said == call[h].says
        settles == status[a] = "PENDING" /\ said \in {"paid", "failed"}
    IN
    /\ call[h].pc = "begun"
    /\ MayRead(h)
    /\ IF settles
       THEN /\ CallIs(h, [call[h] EXCEPT !.pc = IF said = "paid" THEN "marking" ELSE "failing",
                                         !.at = day])
            /\ IF RowLocks THEN LocksAttempt(h) ELSE UNCHANGED attLock
       ELSE CallIs(h, Idle) /\ UNCHANGED attLock
    /\ UNCHANGED <<day, rows, checkouts, provider, subLock, aborts>>

MarkPaid(h) ==
    /\ call[h].pc = "marking"
    /\ Free(attLock[call[h].att], h)
    /\ LocksAttempt(h)
    /\ CallIs(h, [call[h] EXCEPT !.pc = "reading"])
    /\ UNCHANGED <<day, rows, checkouts, provider, subLock, aborts>>

NeverLocked == FALSE
LockedForUpdate == RowLocks /\ sub.label # "none"

(* base = max(existing.periodEnd, now); no row, nothing to lock.           *)
ReadSubscription(h) ==
    /\ call[h].pc = "reading"
    /\ CallIs(h, [call[h] EXCEPT !.pc = "upserting", !.base = Later(sub.end, call[h].at)])
    /\ IF LockedForUpdate
       THEN Free(subLock, h) /\ subLock' = h
       ELSE UNCHANGED subLock
    /\ UNCHANGED <<day, rows, checkouts, provider, attLock, aborts>>

ExtendedAsPaid(h) == [label |-> "PAID", end |-> call[h].base + Period]
ExtendedKeepsLapse(h) ==
    [label |-> IF sub.label = "PAST_DUE" THEN "PAST_DUE" ELSE "ACTIVE",
     end |-> call[h].base + Period]
Extended(h) == [label |-> "ACTIVE", end |-> call[h].base + Period]

(* The upsert and the commit.                                              *)
Settle(h) ==
    /\ call[h].pc = "upserting"
    /\ Free(subLock, h)
    /\ status' = [status EXCEPT ![call[h].att] = "PAID"]
    /\ sub' = Extended(h)
    /\ Released(h)
    /\ CallIs(h, Idle)
    /\ UNCHANGED <<day, checkouts, provider, aborts>>

MarkFailed(h) ==
    /\ call[h].pc = "failing"
    /\ Free(attLock[call[h].att], h)
    /\ status' = [status EXCEPT ![call[h].att] = "FAILED"]
    /\ Released(h)
    /\ CallIs(h, Idle)
    /\ UNCHANGED <<day, sub, checkouts, provider, aborts>>

(* A transaction that does not reach its commit writes nothing.            *)
Abort(h) ==
    /\ aborts < MaxAborts
    /\ call[h] # Idle
    /\ aborts' = aborts + 1
    /\ Released(h)
    /\ CallIs(h, Idle)
    /\ UNCHANGED <<day, rows, checkouts, provider>>

Reconcile(h) ==
    \/ ReadFresh(h) \/ MarkPaid(h) \/ ReadSubscription(h) \/ Settle(h) \/ MarkFailed(h)

----------------------------------------------------------------------------
(* BillingLifecycleService.sweep: two statements, each checked on the row  *)
(* as it is once no transaction holds it.  A trial has plan FREE.          *)
Lapsed == subLock = NoHandler /\ sub.label = "ACTIVE" /\ sub.end < day
PastGrace == subLock = NoHandler /\ sub.label = "PAST_DUE" /\ sub.end + Grace < day

Sweep ==
    /\ \/ Lapsed /\ sub' = [sub EXCEPT !.label = "PAST_DUE"]
       \/ PastGrace /\ sub' = [sub EXCEPT !.label = "SUSPENDED"]
    /\ UNCHANGED <<day, status, checkouts, provider, call, locks, aborts>>

----------------------------------------------------------------------------
Next ==
    \/ StartTrial \/ DayPasses \/ Sweep
    \/ \E a \in Attempt :
          \/ Checkout(a) \/ LinkMade(a) \/ LinkRefused(a) \/ StoreRef(a) \/ LinkMoves(a)
    \/ \E h \in Handler :
          \/ Reconcile(h) \/ GotLink(h) \/ Abort(h)
          \/ \E a \in Attempt : VerifyReturn(h, a) \/ \E s \in LinkState : Webhook(h, a, s)

Spec == BillingInit /\ [][Next]_vars

(* A request that started goes on, and the provider sends the notice of a  *)
(* payment again until it was received.                                    *)
FairSpec ==
    /\ Spec
    /\ \A h \in Handler : WF_vars(Reconcile(h) \/ GotLink(h))
    /\ \A a \in Attempt : SF_vars(\E h \in Handler : Webhook(h, a, "paid"))

----------------------------------------------------------------------------
TypeOK ==
    /\ day \in Nat /\ aborts \in Nat
    /\ status \in [Attempt -> {"none", "PENDING", "PAID", "FAILED"}]
    /\ providerRef \subseteq Attempt
    /\ checkout \in [Attempt -> {"idle", "linking", "storing", "done"}]
    /\ link \in [Attempt -> LinkState \union {"none"}]
    /\ notices \subseteq Attempt \X LinkState
    /\ sub \in [label : Labels, end : Nat]
    /\ call \in [Handler -> Call]
    /\ attLock \in [Attempt -> Handler \union {NoHandler}]
    /\ subLock \in Handler \union {NoHandler}

(* isEntitled: "access expire[s] exactly at periodEnd": while the period   *)
(* is open, no sweep has taken the entitlement away.                       *)
OpenPeriodIsEntitled ==
    sub.end > day => sub.label \notin {"PAST_DUE", "SUSPENDED"}

(* reconcile, "Already terminal": an attempt that was settled stays so,    *)
(* whatever notices come late, again or out of order.                      *)
TerminalIsFinal ==
    [][\A a \in Attempt : status[a] \in {"PAID", "FAILED"} => status'[a] = status[a]]_vars

(* "Idempotent reconcile", "Stack a renewal on top of an unexpired period":*)
(* whatever interleaves, a payment is credited once and in full.           *)
Ledger == INSTANCE PaymentLedger
    WITH credited <- {a \in Attempt : status[a] = "PAID"}, end <- sub.end

EachPaymentIsCreditedOnce == Ledger!Spec

(* A payment is settled in the end, whoever crashed or came late.          *)
PaymentsSettle ==
    \A a \in Attempt : link[a] = "paid" ~> status[a] \in {"PAID", "FAILED"}
=============================================================================
