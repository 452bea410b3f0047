---------------------------- MODULE BillingProofs ----------------------------
(***************************************************************************)
(* Theorems about Billing, for any number of payments and of requests that *)
(* reconcile them at a time, and any lengths of periods.                   *)
(***************************************************************************)
EXTENDS Billing, TLAPS

Busy == [pc : Pc \ {"idle"}, att : Attempt, says : LinkState, at : Nat, base : Nat]

LEMMA BusyCall ==
    ASSUME TypeOK, NEW h \in Handler, call[h].pc # "idle"
    PROVE  call[h] \in Busy
  BY DEF TypeOK, Call, Busy, Idle

LEMMA NextCall ==
    ASSUME TypeOK, NEW h \in Handler, NEW c \in Busy \union {Idle}, CallIs(h, c)
    PROVE  /\ call' \in [Handler -> Call]
           /\ call'[h] = c
           /\ \A g \in Handler \ {h} : call'[g] = call[g]
  BY DEF TypeOK, Call, Busy, CallIs

LEMMA BegunIsBusy ==
    ASSUME NEW a \in Attempt, NEW s \in LinkState
    PROVE  Begun(a, s) \in Busy /\ [Begun(a, s) EXCEPT !.pc = "fetching"] \in Busy
  BY DEF Begun, Busy, Pc

LEMMA LaterIsEither ==
    ASSUME NEW x \in Nat, NEW y \in Nat
    PROVE  Later(x, y) \in Nat /\ Later(x, y) >= x /\ Later(x, y) >= y
  BY DEF Later

LEMMA InitTypeOK == BillingInit => TypeOK
  BY BillingAssumption DEF BillingInit, TypeOK, Call, Labels, Idle

(* Every step keeps the types.                                             *)
LEMMA StepTypeOK == TypeOK /\ [Next]_vars => TypeOK'
  <1> SUFFICES ASSUME TypeOK, [Next]_vars PROVE TypeOK'
    OBVIOUS
  <1> USE BillingAssumption
  <1>1. CASE UNCHANGED vars
    BY <1>1 DEF TypeOK, vars
  <1>2. CASE StartTrial
    BY <1>2 DEF TypeOK, StartTrial, checkouts, provider, locks, Labels
  <1>3. CASE DayPasses
    BY <1>3 DEF TypeOK, DayPasses, rows, checkouts, provider, locks
  <1>4. CASE Sweep
    BY <1>4 DEF TypeOK, Sweep, checkouts, provider, locks, Labels
  <1>5. ASSUME NEW a \in Attempt,
               Checkout(a) \/ LinkMade(a) \/ LinkRefused(a) \/ StoreRef(a) \/ LinkMoves(a)
        PROVE  TypeOK'
    BY <1>5 DEF TypeOK, Checkout, LinkMade, LinkRefused, StoreRef, LinkMoves, rows, checkouts,
                provider, locks, LinkState
  <1>6. ASSUME NEW h \in Handler, NEW a \in Attempt,
               VerifyReturn(h, a) \/ \E s \in LinkState : Webhook(h, a, s)
        PROVE  TypeOK'
    <2>1. PICK c \in Busy : CallIs(h, c)
      BY <1>6, BegunIsBusy DEF VerifyReturn, Webhook, Heard, LinkState
    <2> QED
      BY <1>6, <2>1, NextCall DEF VerifyReturn, Webhook, TypeOK, rows, checkouts, provider, locks
  <1>7. ASSUME NEW h \in Handler, GotLink(h)
        PROVE  TypeOK'
    <2>1. call[h] \in Busy
      BY <1>7, BusyCall DEF GotLink
    <2>2. PICK c \in Busy \union {Idle} : CallIs(h, c)
      BY <1>7, <2>1, BegunIsBusy DEF GotLink, TypeOK, Busy
    <2> QED
      BY <1>7, <2>2, NextCall DEF GotLink, TypeOK, rows, checkouts, provider, locks
  <1>8. ASSUME NEW h \in Handler, ReadFresh(h) \/ MarkPaid(h) \/ ReadSubscription(h)
        PROVE  TypeOK'
    <2>1. call[h] \in Busy
      BY <1>8, BusyCall DEF ReadFresh, MarkPaid, ReadSubscription
    <2>2. Later(sub.end, call[h].at) \in Nat
      BY <2>1, LaterIsEither DEF Busy, TypeOK
    <2>3. \E c \in Busy \union {Idle} : CallIs(h, c)
      BY <1>8, <2>1, <2>2 DEF ReadFresh, MarkPaid, ReadSubscription, Busy, Pc, TypeOK
    <2>4. PICK c \in Busy \union {Idle} : CallIs(h, c)
      BY <2>3
    <2>5. call' \in [Handler -> Call]
      BY <2>4, NextCall
    <2>6. attLock' \in [Attempt -> Handler \union {NoHandler}] /\ subLock' \in Handler \union {NoHandler}
      BY <1>8, <2>1 DEF ReadFresh, MarkPaid, ReadSubscription, LocksAttempt, TypeOK, Busy
    <2> QED
      BY <1>8, <2>5, <2>6 DEF ReadFresh, MarkPaid, ReadSubscription, TypeOK, rows, checkouts, provider
  <1>9. ASSUME NEW h \in Handler, Settle(h) \/ MarkFailed(h) \/ Abort(h)
        PROVE  TypeOK'
    <2>1. call' \in [Handler -> Call]
      BY <1>9, NextCall DEF Settle, MarkFailed, Abort
    <2>2. attLock' \in [Attempt -> Handler \union {NoHandler}] /\ subLock' \in Handler \union {NoHandler}
      BY <1>9 DEF Settle, MarkFailed, Abort, Released, TypeOK
    <2>3. CASE Settle(h)
      <3>1. call[h] \in Busy
        BY <2>3, BusyCall DEF Settle
      <3> QED
        BY <2>1, <2>2, <2>3, <3>1 DEF Settle, Extended, TypeOK, Busy, Labels, checkouts, provider
    <2>4. CASE MarkFailed(h)
      BY <2>1, <2>2, <2>4, BusyCall DEF MarkFailed, TypeOK, Busy, checkouts, provider
    <2>5. CASE Abort(h)
      BY <2>1, <2>2, <2>5 DEF Abort, TypeOK, rows, checkouts, provider
    <2> QED
      BY <1>9, <2>3, <2>4, <2>5
  <1> QED
    BY <1>1, <1>2, <1>3, <1>4, <1>5, <1>6, <1>7, <1>8, <1>9 DEF Next, Reconcile

(* The rows and requests of billing keep their types.                      *)
THEOREM TypeCorrect == Spec => []TypeOK
  BY InitTypeOK, StepTypeOK, PTL DEF Spec

----------------------------------------------------------------------------
Settling == {"marking", "reading", "upserting", "failing"}

(* A link exists only of an attempt that was recorded, and after checkout  *)
(* let go of it; whoever settles an attempt heard of its link.             *)
LinksAreKnown ==
    /\ \A a \in Attempt : status[a] = "none" => link[a] = "none"
    /\ \A a \in Attempt : checkout[a] = "linking" => status[a] = "PENDING" /\ link[a] = "none"
    /\ \A n \in notices : link[n[1]] # "none"
    /\ \A h \in Handler :
          call[h].pc \in Settling \union {"begun"} => link[call[h].att] # "none"

(* Whoever settles an attempt holds its row, which waits to be settled.    *)
SettlersHoldTheirAttempt ==
    \A h \in Handler : call[h].pc \in Settling =>
        /\ attLock[call[h].att] = h
        /\ status[call[h].att] = "PENDING"
        /\ call[h].at <= day

(* No attempt without a Subscription row.                                  *)
RowComesFirst ==
    /\ sub.label = "none" => sub.end = 0
    /\ \A a \in Attempt : status[a] # "none" => sub.label # "none"

(* The end of the period a settler has read is still the row's.            *)
BasesAreCurrent ==
    \A h \in Handler : call[h].pc = "upserting" =>
        subLock = h /\ call[h].base = Later(sub.end, call[h].at)

LapsesAreOver == sub.label \in {"PAST_DUE", "SUSPENDED"} => sub.end < day

LEMMA StepLinksAreKnown ==
    ASSUME TypeOK, LinksAreKnown, SettlersHoldTheirAttempt, [Next]_vars
    PROVE  LinksAreKnown'
  <1> DEFINE Known(h) == call[h].pc \in Settling \union {"begun"} => link[call[h].att] # "none"
  <1>1. CASE UNCHANGED vars
    BY <1>1 DEF LinksAreKnown, vars
  <1>2. CASE StartTrial \/ DayPasses \/ Sweep
    BY <1>2 DEF LinksAreKnown, StartTrial, DayPasses, Sweep, rows, checkouts, provider, locks
  <1>3. ASSUME NEW a \in Attempt,
               Checkout(a) \/ LinkMade(a) \/ LinkRefused(a) \/ StoreRef(a) \/ LinkMoves(a)
        PROVE  LinksAreKnown'
    <2>1. call' = call /\ \A b \in Attempt : link[b] # "none" => link'[b] # "none"
      BY <1>3 DEF Checkout, LinkMade, LinkRefused, StoreRef, LinkMoves, TypeOK, provider, LinkState
    <2>2. \A h \in Handler : Known(h)'
      BY <2>1, BusyCall DEF LinksAreKnown, Busy, Settling, TypeOK
    <2>3. \A n \in notices' : link'[n[1]] # "none"
      BY <1>3, <2>1 DEF LinksAreKnown, Checkout, LinkMade, LinkRefused, StoreRef, LinkMoves, TypeOK,
                        provider, LinkState
    <2>4. /\ \A b \in Attempt : status'[b] = "none" => link'[b] = "none"
          /\ \A b \in Attempt : checkout'[b] = "linking" => status'[b] = "PENDING" /\ link'[b] = "none"
      BY <1>3 DEF LinksAreKnown, Checkout, LinkMade, LinkRefused, StoreRef, LinkMoves, TypeOK,
                  provider, rows, checkouts
    <2> QED
      BY <2>2, <2>3, <2>4 DEF LinksAreKnown
  <1>4. ASSUME NEW h \in Handler, NEW a \in Attempt,
               VerifyReturn(h, a) \/ \E s \in LinkState : Webhook(h, a, s)
        PROVE  LinksAreKnown'
    <2>a. ASSUME VerifyReturn(h, a)
          PROVE  Known(h)'
      <3>1. call'[h] = [Begun(a, "open") EXCEPT !.pc = "fetching"]
        BY <2>a, NextCall, BegunIsBusy DEF VerifyReturn, LinkState
      <3> QED
        BY <3>1 DEF Settling, Begun
    <2>b. ASSUME NEW s \in LinkState, Webhook(h, a, s)
          PROVE  Known(h)'
      <3>1. link[a] # "none"
        BY <2>b DEF Webhook, LinksAreKnown
      <3>2. PICK said \in LinkState : CallIs(h, Begun(a, said))
        BY <2>b DEF Webhook, Heard, LinkState
      <3>3. call'[h] = Begun(a, said) /\ link' = link
        BY <2>b, <3>2, NextCall, BegunIsBusy DEF Webhook, provider
      <3> QED
        BY <3>1, <3>3 DEF Begun
    <2>1. Known(h)'
      BY <1>4, <2>a, <2>b
    <2>2. \A g \in Handler \ {h} : call'[g] = call[g]
      BY <1>4 DEF VerifyReturn, Webhook, CallIs, TypeOK
    <2>3. UNCHANGED <<rows, checkouts, provider>>
      BY <1>4 DEF VerifyReturn, Webhook
    <2>4. \A g \in Handler : Known(g)'
      BY <2>1, <2>2, <2>3 DEF LinksAreKnown, provider
    <2> QED
      BY <2>3, <2>4 DEF LinksAreKnown, rows, checkouts, provider
  <1>5. ASSUME NEW h \in Handler, GotLink(h)
        PROVE  LinksAreKnown'
    <2>1. Known(h)'
      <3>1. \/ call'[h] = Idle
            \/ link[call[h].att] # "none" /\ call'[h] = Begun(call[h].att, link[call[h].att])
        BY <1>5 DEF GotLink, CallIs, TypeOK
      <3> QED
        BY <1>5, <3>1 DEF GotLink, Begun, Idle, Settling, provider
    <2>2. \A g \in Handler \ {h} : call'[g] = call[g]
      BY <1>5 DEF GotLink, CallIs, TypeOK
    <2> QED
      BY <1>5, <2>1, <2>2 DEF GotLink, LinksAreKnown, rows, checkouts, provider
  <1>6. ASSUME NEW h \in Handler, Reconcile(h) \/ Abort(h)
        PROVE  LinksAreKnown'
    <2>1. UNCHANGED <<checkouts, provider>>
      BY <1>6 DEF Reconcile, ReadFresh, MarkPaid, ReadSubscription, Settle, MarkFailed, Abort
    <2>2. \A g \in Handler \ {h} : call'[g] = call[g]
      BY <1>6 DEF Reconcile, ReadFresh, MarkPaid, ReadSubscription, Settle, MarkFailed, Abort, CallIs, TypeOK
    <2>3. \/ call'[h] = Idle
          \/ call[h].pc \in Settling \union {"begun"} /\ call'[h].att = call[h].att
      <3>1. CASE ReadFresh(h) \/ MarkPaid(h) \/ ReadSubscription(h)
        <4>1. call[h] \in Busy
          BY <3>1, BusyCall DEF ReadFresh, MarkPaid, ReadSubscription
        <4>2. call[h].pc \in Settling \union {"begun"}
          BY <3>1 DEF ReadFresh, MarkPaid, ReadSubscription, Settling
        <4>3. CASE ReadFresh(h)
          <5>1. \/ CallIs(h, Idle)
                \/ \E p \in Pc : CallIs(h, [call[h] EXCEPT !.pc = p, !.at = day])
            BY <4>3 DEF ReadFresh, Pc
          <5>2. ASSUME NEW p \in Pc
                PROVE  [call[h] EXCEPT !.pc = p, !.at = day].att = call[h].att
            BY <4>1 DEF Busy
          <5>3. PICK c : CallIs(h, c) /\ (c = Idle \/ c.att = call[h].att)
            BY <5>1, <5>2
          <5>4. call'[h] = c
            BY <5>3 DEF CallIs, TypeOK
          <5> QED
            BY <4>2, <5>3, <5>4
        <4>4. CASE MarkPaid(h)
          BY <4>1, <4>2, <4>4 DEF MarkPaid, CallIs, TypeOK, Busy
        <4>5. CASE ReadSubscription(h)
          BY <4>1, <4>2, <4>5 DEF ReadSubscription, CallIs, TypeOK, Busy
        <4> QED
          BY <3>1, <4>3, <4>4, <4>5
      <3>2. CASE Settle(h) \/ MarkFailed(h) \/ Abort(h)
        <4>1. CallIs(h, Idle)
          BY <3>2 DEF Settle, MarkFailed, Abort
        <4> QED
          BY <4>1 DEF CallIs, TypeOK
      <3> QED
        BY <1>6, <3>1, <3>2 DEF Reconcile
    <2>4. Known(h)'
      BY <2>1, <2>3 DEF Idle, Settling, LinksAreKnown, provider
    <2>5. \/ status' = status
          \/ \E v \in {"PAID", "FAILED"} :
                call[h].pc \in Settling /\ status' = [status EXCEPT ![call[h].att] = v]
      BY <1>6 DEF Reconcile, ReadFresh, MarkPaid, ReadSubscription, Settle, MarkFailed, Abort, rows, Settling
    <2>6. \A b \in Attempt : checkout[b] = "linking" => status'[b] = status[b]
      BY <2>5, BusyCall DEF LinksAreKnown, TypeOK, Busy, Settling
    <2>7. \A b \in Attempt : status'[b] = "none" => status[b] = "none"
      BY <2>5, BusyCall DEF TypeOK
    <2>8. \A g \in Handler : Known(g)'
      BY <2>1, <2>2, <2>4 DEF LinksAreKnown, provider
    <2> QED
      BY <2>1, <2>6, <2>7, <2>8 DEF LinksAreKnown, checkouts, provider
  <1> QED
    BY <1>1, <1>2, <1>3, <1>4, <1>5, <1>6 DEF Next

(* What a request does to the others and to the attempts they settle.      *)
LEMMA OthersAreLeftAlone ==
    ASSUME TypeOK, RowLocks, SettlersHoldTheirAttempt,
           NEW h \in Handler, Reconcile(h) \/ Abort(h),
           NEW g \in Handler \ {h}, call[g].pc \in Settling
    PROVE  /\ call'[g] = call[g]
           /\ attLock'[call[g].att] = g
           /\ status'[call[g].att] = "PENDING"
  <1> DEFINE a == call[g].att
             b == call[h].att
  <1>1. a \in Attempt /\ attLock[a] = g /\ status[a] = "PENDING"
    BY BusyCall DEF SettlersHoldTheirAttempt, Settling, Busy
  <1>2. call'[g] = call[g]
    BY DEF Reconcile, ReadFresh, MarkPaid, ReadSubscription, Settle, MarkFailed, Abort, CallIs, TypeOK
  <1>3. call[h].pc \in Settling => b # a
    BY <1>1 DEF SettlersHoldTheirAttempt
  <1>4. CASE ReadFresh(h) \/ MarkPaid(h) \/ ReadSubscription(h)
    <2>1. attLock' = attLock \/ (b # a /\ attLock' = [attLock EXCEPT ![b] = h])
      BY <1>1, <1>3, <1>4, BillingAssumption
         DEF ReadFresh, MarkPaid, ReadSubscription, MayRead, Free, LocksAttempt, Settling
    <2> QED
      BY <1>1, <1>2, <1>4, <2>1 DEF ReadFresh, MarkPaid, ReadSubscription, rows, TypeOK
  <1>5. CASE Settle(h) \/ MarkFailed(h) \/ Abort(h)
    <2>1. attLock'[a] = g
      BY <1>1, <1>5 DEF Settle, MarkFailed, Abort, Released
    <2>2. \/ status' = status
          \/ \E v : b # a /\ status' = [status EXCEPT ![b] = v]
      BY <1>3, <1>5 DEF Settle, MarkFailed, Abort, Settling, rows
    <2> QED
      BY <1>1, <1>2, <2>1, <2>2 DEF TypeOK
  <1> QED
    BY <1>4, <1>5 DEF Reconcile

(* A request before its transaction settles nothing.                       *)
Begins(h) == \E a \in Attempt : VerifyReturn(h, a) \/ \E s \in LinkState : Webhook(h, a, s)

LEMMA BeginnersSettleNothing ==
    ASSUME TypeOK, NEW h \in Handler, GotLink(h) \/ Begins(h), NEW g \in Handler
    PROVE  call'[g] = call[g] \/ call'[g].pc \notin Settling
  <1>1. CASE g # h
    BY <1>1 DEF GotLink, Begins, VerifyReturn, Webhook, CallIs, TypeOK
  <1>2. ASSUME g = h, GotLink(h)
        PROVE  call'[h].pc \notin Settling
    BY <1>2 DEF GotLink, CallIs, TypeOK, Begun, Idle, Settling
  <1>3. ASSUME g = h, NEW a \in Attempt, VerifyReturn(h, a)
        PROVE  call'[h].pc \notin Settling
    <2>1. call'[h] = [Begun(a, "open") EXCEPT !.pc = "fetching"]
      BY <1>3, NextCall, BegunIsBusy DEF VerifyReturn, LinkState
    <2> QED
      BY <2>1 DEF Begun, Settling
  <1>4. ASSUME g = h, NEW a \in Attempt, NEW s \in LinkState, Webhook(h, a, s)
        PROVE  call'[h].pc \notin Settling
    BY <1>4 DEF Webhook, CallIs, TypeOK, Begun, Settling
  <1> QED
    BY <1>1, <1>2, <1>3, <1>4 DEF Begins

(* How a transaction that credits a payment goes on.                       *)
LEMMA PaidCallGoesOn ==
    ASSUME TypeOK, NEW h \in Handler, MarkPaid(h) \/ ReadSubscription(h)
    PROVE  /\ call'[h].at = call[h].at /\ call'[h].att = call[h].att
           /\ MarkPaid(h) => call'[h].pc = "reading"
           /\ ReadSubscription(h) => call'[h].base = Later(sub.end, call[h].at)
  <1>1. call[h] \in Busy
    BY BusyCall DEF MarkPaid, ReadSubscription
  <1>2. CASE MarkPaid(h)
    <2>1. call'[h] = [call[h] EXCEPT !.pc = "reading"]
      BY <1>2 DEF MarkPaid, CallIs, TypeOK
    <2> QED
      BY <1>1, <1>2, <2>1 DEF Busy, MarkPaid, ReadSubscription
  <1>3. CASE ReadSubscription(h)
    <2>1. call'[h] = [call[h] EXCEPT !.pc = "upserting", !.base = Later(sub.end, call[h].at)]
      BY <1>3 DEF ReadSubscription, CallIs, TypeOK
    <2> QED
      BY <1>1, <1>3, <2>1 DEF Busy, MarkPaid, ReadSubscription
  <1> QED
    BY <1>2, <1>3

LEMMA StepSettlersHold ==
    ASSUME TypeOK, RowLocks, LinksAreKnown, SettlersHoldTheirAttempt, [Next]_vars
    PROVE  SettlersHoldTheirAttempt'
  <1> DEFINE Holds(h) == call[h].pc \in Settling =>
                 attLock[call[h].att] = h /\ status[call[h].att] = "PENDING" /\ call[h].at <= day
  <1> SUFFICES ASSUME NEW g \in Handler PROVE Holds(g)'
    BY DEF SettlersHoldTheirAttempt
  <1>a. Holds(g)
    BY DEF SettlersHoldTheirAttempt
  <1>b. call[g].pc \in Settling => call[g] \in Busy /\ link[call[g].att] # "none"
    BY BusyCall DEF Settling, LinksAreKnown
  <1>1. CASE UNCHANGED vars
    BY <1>1, <1>a DEF vars
  <1>2. CASE StartTrial \/ DayPasses \/ Sweep
    <2>1. UNCHANGED <<status, call, attLock>> /\ day' \in Nat /\ day' >= day
      BY <1>2 DEF StartTrial, DayPasses, Sweep, rows, locks, TypeOK
    <2> QED
      BY <1>a, <1>b, <2>1 DEF TypeOK, Busy
  <1>3. ASSUME NEW a \in Attempt,
               Checkout(a) \/ LinkMade(a) \/ LinkRefused(a) \/ StoreRef(a) \/ LinkMoves(a)
        PROVE  Holds(g)'
    <2>1. UNCHANGED <<day, call, attLock>>
      BY <1>3 DEF Checkout, LinkMade, LinkRefused, StoreRef, LinkMoves, locks
    <2>2. status' = status \/ (link[a] = "none" /\ \E v : status' = [status EXCEPT ![a] = v])
      BY <1>3 DEF Checkout, LinkMade, LinkRefused, StoreRef, LinkMoves, rows, LinksAreKnown
    <2> QED
      BY <1>a, <1>b, <2>1, <2>2 DEF TypeOK, Busy
  <1>4. ASSUME NEW h \in Handler, GotLink(h) \/ Begins(h)
        PROVE  Holds(g)'
    <2>1. UNCHANGED <<day, status, attLock>>
      BY <1>4 DEF GotLink, Begins, VerifyReturn, Webhook, rows, locks
    <2>2. call'[g] = call[g] \/ call'[g].pc \notin Settling
      BY <1>4, BeginnersSettleNothing
    <2> QED
      BY <1>a, <2>1, <2>2
  <1>5. ASSUME NEW h \in Handler, Reconcile(h) \/ Abort(h)
        PROVE  Holds(g)'
    <2>0. day' = day
      BY <1>5 DEF Reconcile, ReadFresh, MarkPaid, ReadSubscription, Settle, MarkFailed, Abort
    <2>1. CASE g # h
      <3>1. call'[g] = call[g]
        BY <1>5, <2>1 DEF Reconcile, ReadFresh, MarkPaid, ReadSubscription, Settle, MarkFailed, Abort,
                          CallIs, TypeOK
      <3> QED
        BY <1>5, <1>a, <2>0, <2>1, <3>1, OthersAreLeftAlone
    <2>2. CASE g = h /\ ReadFresh(h)
      <3>1. CASE CallIs(h, Idle)
        BY <2>2, <3>1 DEF CallIs, TypeOK, Idle, Settling
      <3>2. CASE ~CallIs(h, Idle)
        <4>1. call[h] \in Busy
          BY <2>2, BusyCall DEF ReadFresh
        <4>2. \E p \in Pc : CallIs(h, [call[h] EXCEPT !.pc = p, !.at = day])
          BY <2>2, <3>2 DEF ReadFresh, Pc
        <4>3. attLock' = [attLock EXCEPT ![call[h].att] = h] /\ status[call[h].att] = "PENDING"
          BY <2>2, <3>2 DEF ReadFresh, LocksAttempt
        <4>4. call'[h].at = day /\ call'[h].att = call[h].att
          BY <4>1, <4>2 DEF CallIs, TypeOK, Busy
        <4> QED
          BY <2>0, <2>2, <4>1, <4>3, <4>4 DEF TypeOK, Busy, ReadFresh, rows
      <3> QED
        BY <3>1, <3>2
    <2>3. CASE g = h /\ (MarkPaid(h) \/ ReadSubscription(h))
      <3>1. call[h].pc \in Settling
        BY <2>3 DEF MarkPaid, ReadSubscription, Settling
      <3>2. call'[h].at = call[h].at /\ call'[h].att = call[h].att
        BY <2>3, PaidCallGoesOn
      <3>3. attLock' = attLock \/ attLock' = [attLock EXCEPT ![call[h].att] = h]
        BY <2>3 DEF MarkPaid, ReadSubscription, LocksAttempt
      <3>4. status' = status
        BY <2>3 DEF MarkPaid, ReadSubscription, rows
      <3> QED
        BY <1>a, <1>b, <2>0, <2>3, <3>1, <3>2, <3>3, <3>4 DEF TypeOK, Busy
    <2>4. CASE g = h /\ (Settle(h) \/ MarkFailed(h) \/ Abort(h))
      <3>1. CallIs(h, Idle)
        BY <2>4 DEF Settle, MarkFailed, Abort
      <3> QED
        BY <2>4, <3>1 DEF CallIs, TypeOK, Idle, Settling
    <2> QED
      BY <1>5, <2>1, <2>2, <2>3, <2>4 DEF Reconcile
  <1> QED
    BY <1>1, <1>2, <1>3, <1>4, <1>5 DEF Next, Begins
LEMMA StepRowComesFirst ==
    ASSUME TypeOK, RowLocks, Personal, LinksAreKnown, SettlersHoldTheirAttempt, RowComesFirst,
           [Next]_vars
    PROVE  RowComesFirst'
  <1>1. CASE UNCHANGED vars
    BY <1>1 DEF RowComesFirst, vars
  <1>2. CASE StartTrial \/ DayPasses \/ Sweep
    BY <1>2 DEF RowComesFirst, StartTrial, DayPasses, Sweep, Lapsed, PastGrace, TypeOK, rows
  <1>3. ASSUME NEW a \in Attempt,
               Checkout(a) \/ LinkMade(a) \/ LinkRefused(a) \/ StoreRef(a) \/ LinkMoves(a)
        PROVE  RowComesFirst'
    <2>1. sub' = sub
      BY <1>3 DEF Checkout, LinkMade, LinkRefused, StoreRef, LinkMoves, rows
    <2>2. \/ status' = status
          \/ sub.label # "none"
      BY <1>3 DEF Checkout, LinkMade, LinkRefused, StoreRef, LinkMoves, rows, RowComesFirst,
                  LinksAreKnown
    <2> QED
      BY <2>1, <2>2 DEF RowComesFirst
  <1>4. ASSUME NEW h \in Handler, GotLink(h) \/ Begins(h)
        PROVE  RowComesFirst'
    BY <1>4 DEF GotLink, Begins, VerifyReturn, Webhook, rows, RowComesFirst
  <1>5. ASSUME NEW h \in Handler, Reconcile(h) \/ Abort(h)
        PROVE  RowComesFirst'
    <2>1. CASE ReadFresh(h) \/ MarkPaid(h) \/ ReadSubscription(h) \/ Abort(h)
      BY <2>1 DEF ReadFresh, MarkPaid, ReadSubscription, Abort, rows, RowComesFirst
    <2>2. CASE Settle(h)
      BY <2>2 DEF Settle, Extended, RowComesFirst
    <2>3. CASE MarkFailed(h)
      <3>1. call[h].att \in Attempt /\ status[call[h].att] = "PENDING"
        BY <2>3, BusyCall DEF MarkFailed, SettlersHoldTheirAttempt, Settling, Busy
      <3> QED
        BY <2>3, <3>1 DEF MarkFailed, RowComesFirst
    <2> QED
      BY <1>5, <2>1, <2>2, <2>3 DEF Reconcile
  <1> QED
    BY <1>1, <1>2, <1>3, <1>4, <1>5 DEF Next, Begins

LEMMA StepBasesAreCurrent ==
    ASSUME TypeOK, RowLocks, Personal, SettlersHoldTheirAttempt, RowComesFirst, BasesAreCurrent,
           [Next]_vars
    PROVE  BasesAreCurrent'
  <1> DEFINE Current(h) == call[h].pc = "upserting" =>
                 subLock = h /\ call[h].base = Later(sub.end, call[h].at)
  <1> SUFFICES ASSUME NEW g \in Handler PROVE Current(g)'
    BY DEF BasesAreCurrent
  <1>a. Current(g)
    BY DEF BasesAreCurrent
  <1>1. CASE UNCHANGED vars
    BY <1>1, <1>a DEF vars, Later
  <1>2. CASE StartTrial \/ Sweep
    <2>1. subLock = NoHandler /\ call' = call
      BY <1>2 DEF StartTrial, Sweep, Lapsed, PastGrace
    <2> QED
      BY <1>a, <2>1, BillingAssumption
  <1>3. CASE DayPasses
    BY <1>3, <1>a DEF DayPasses, rows, locks, Later
  <1>4. ASSUME NEW a \in Attempt,
               Checkout(a) \/ LinkMade(a) \/ LinkRefused(a) \/ StoreRef(a) \/ LinkMoves(a)
        PROVE  Current(g)'
    <2>1. UNCHANGED <<sub, call, subLock>>
      BY <1>4 DEF Checkout, LinkMade, LinkRefused, StoreRef, LinkMoves, rows, locks
    <2> QED
      BY <1>a, <2>1 DEF Later
  <1>5. ASSUME NEW h \in Handler, GotLink(h) \/ Begins(h)
        PROVE  Current(g)'
    <2>1. UNCHANGED <<sub, subLock>>
      BY <1>5 DEF GotLink, Begins, VerifyReturn, Webhook, rows, locks
    <2>2. call'[g] = call[g] \/ call'[g].pc # "upserting"
      BY <1>5, BeginnersSettleNothing DEF Settling
    <2> QED
      BY <1>a, <2>1, <2>2 DEF Later
  <1>6. ASSUME NEW h \in Handler, Reconcile(h) \/ Abort(h), g # h
        PROVE  Current(g)'
    <2>1. call'[g] = call[g]
      BY <1>6 DEF Reconcile, ReadFresh, MarkPaid, ReadSubscription, Settle, MarkFailed, Abort,
                  CallIs, TypeOK
    <2> SUFFICES ASSUME call[g].pc = "upserting"
                 PROVE  subLock' = g /\ call[g].base = Later(sub'.end, call[g].at)
      BY <2>1 DEF Later
    <2>2. subLock = g
      BY <1>a
    <2>3. sub' = sub
      BY <1>6, <2>2, BillingAssumption
         DEF Reconcile, ReadFresh, MarkPaid, ReadSubscription, Settle, MarkFailed, Abort, Free, rows
    <2>4. subLock' = g
      BY <1>6, <2>2, BillingAssumption
         DEF Reconcile, ReadFresh, MarkPaid, ReadSubscription, Settle, MarkFailed, Abort, Free, Released
    <2> QED
      BY <1>a, <2>3, <2>4 DEF Later
  <1>7. ASSUME ReadSubscription(g)
        PROVE  Current(g)'
    <2>1. call[g].att \in Attempt /\ status[call[g].att] = "PENDING"
      BY <1>7, BusyCall DEF ReadSubscription, SettlersHoldTheirAttempt, Settling, Busy
    <2>2. sub' = sub /\ subLock' = g
      BY <1>7, <2>1 DEF ReadSubscription, LockedForUpdate, RowComesFirst, rows
    <2> QED
      BY <1>7, <2>2, PaidCallGoesOn DEF Later
  <1>8. ASSUME ReadFresh(g) \/ MarkPaid(g) \/ Settle(g) \/ MarkFailed(g) \/ Abort(g)
        PROVE  Current(g)'
    <2>1. call'[g].pc # "upserting"
      <3>1. CASE ReadFresh(g)
        <4>1. call[g] \in Busy
          BY <3>1, BusyCall DEF ReadFresh
        <4>2. \/ CallIs(g, Idle)
              \/ \E p \in {"marking", "failing"} : CallIs(g, [call[g] EXCEPT !.pc = p, !.at = day])
          BY <3>1 DEF ReadFresh
        <4>3. \/ call'[g] = Idle
              \/ \E p \in {"marking", "failing"} : call'[g] = [call[g] EXCEPT !.pc = p, !.at = day]
          BY <4>2 DEF CallIs, TypeOK
        <4>4. ASSUME NEW p \in {"marking", "failing"},
                     call'[g] = [call[g] EXCEPT !.pc = p, !.at = day]
              PROVE  call'[g].pc = p
          BY <4>1, <4>4 DEF Busy
        <4>5. CASE call'[g] = Idle
          BY <4>5 DEF Idle
        <4> QED
          BY <4>3, <4>4, <4>5
      <3>2. CASE MarkPaid(g)
        BY <3>2, PaidCallGoesOn
      <3>3. CASE Settle(g) \/ MarkFailed(g) \/ Abort(g)
        BY <3>3 DEF Settle, MarkFailed, Abort, CallIs, TypeOK, Idle
      <3> QED
        BY <1>8, <3>1, <3>2, <3>3
    <2> QED
      BY <2>1
  <1> QED
    BY <1>1, <1>2, <1>3, <1>4, <1>5, <1>6, <1>7, <1>8 DEF Next, Begins, Reconcile

LEMMA StepLapsesAreOver ==
    ASSUME TypeOK, LapsesAreOver, [Next]_vars
    PROVE  LapsesAreOver'
  <1>1. CASE UNCHANGED <<sub, day>>
    BY <1>1 DEF LapsesAreOver
  <1>2. CASE StartTrial \/ DayPasses \/ Sweep
    BY <1>2 DEF LapsesAreOver, StartTrial, DayPasses, Sweep, Lapsed, PastGrace, TypeOK, rows
  <1>3. ASSUME NEW h \in Handler, Settle(h)
        PROVE  LapsesAreOver'
    BY <1>3 DEF LapsesAreOver, Settle, Extended
  <1>4. ASSUME NEW h \in Handler,
               ReadFresh(h) \/ MarkPaid(h) \/ ReadSubscription(h) \/ MarkFailed(h) \/ Abort(h)
        PROVE  UNCHANGED <<sub, day>>
    BY <1>4 DEF ReadFresh, MarkPaid, ReadSubscription, MarkFailed, Abort, rows
  <1>5. ASSUME NEW h \in Handler, GotLink(h) \/ Begins(h)
        PROVE  UNCHANGED <<sub, day>>
    BY <1>5 DEF GotLink, Begins, VerifyReturn, Webhook, rows
  <1>6. ASSUME NEW a \in Attempt,
               Checkout(a) \/ LinkMade(a) \/ LinkRefused(a) \/ StoreRef(a) \/ LinkMoves(a)
        PROVE  UNCHANGED <<sub, day>>
    BY <1>6 DEF Checkout, LinkMade, LinkRefused, StoreRef, LinkMoves, rows
  <1> QED
    BY <1>1, <1>2, <1>3, <1>4, <1>5, <1>6 DEF Next, Begins, Reconcile, vars

(* isEntitled: no sweep takes an entitlement away while the period that    *)
(* was paid for is open, whatever it interleaves with; in v1 as in v2.     *)
THEOREM OpenPeriodsAreEntitled == Spec => []OpenPeriodIsEntitled
  <1>1. BillingInit => LapsesAreOver
    BY DEF BillingInit, LapsesAreOver
  <1>2. TypeOK /\ LapsesAreOver => OpenPeriodIsEntitled
    BY DEF TypeOK, LapsesAreOver, OpenPeriodIsEntitled
  <1>3. TypeOK /\ LapsesAreOver /\ [Next]_vars => LapsesAreOver'
    BY StepLapsesAreOver
  <1> QED
    BY <1>1, <1>2, <1>3, TypeCorrect, PTL DEF Spec

----------------------------------------------------------------------------
(* The row locks of v2: a settled attempt is not settled again.            *)
HeldInv == TypeOK /\ LinksAreKnown /\ SettlersHoldTheirAttempt

LEMMA HeldInvHolds == RowLocks => (Spec => []HeldInv)
  <1> SUFFICES ASSUME RowLocks PROVE Spec => []HeldInv
    OBVIOUS
  <1>1. BillingInit => HeldInv
    BY InitTypeOK DEF BillingInit, HeldInv, LinksAreKnown, SettlersHoldTheirAttempt, Settling, Idle
  <1>2. HeldInv /\ [Next]_vars => HeldInv'
    BY StepTypeOK, StepLinksAreKnown, StepSettlersHold DEF HeldInv
  <1> QED
    BY <1>1, <1>2, PTL DEF Spec

(* What a step does to the attempts: nothing, or it settles a pending one, *)
(* or checkout records one.                                                *)
LEMMA OneAttemptMoves ==
    ASSUME HeldInv, [Next]_vars
    PROVE  \/ status' = status
           \/ \E a \in Attempt : status[a] = "none" /\ status' = [status EXCEPT ![a] = "PENDING"]
           \/ \E a \in Attempt : status[a] = "PENDING" /\ status' = [status EXCEPT ![a] = "FAILED"]
           \/ \E h \in Handler : Settle(h) /\ status[call[h].att] = "PENDING"
  <1>1. CASE UNCHANGED vars
    BY <1>1 DEF vars
  <1>2. CASE StartTrial \/ DayPasses \/ Sweep
    BY <1>2 DEF StartTrial, DayPasses, Sweep, rows
  <1>3. ASSUME NEW a \in Attempt,
               Checkout(a) \/ LinkMade(a) \/ LinkRefused(a) \/ StoreRef(a) \/ LinkMoves(a)
        PROVE  \/ status' = status
               \/ status[a] = "none" /\ status' = [status EXCEPT ![a] = "PENDING"]
               \/ status[a] = "PENDING" /\ status' = [status EXCEPT ![a] = "FAILED"]
    BY <1>3 DEF Checkout, LinkMade, LinkRefused, StoreRef, LinkMoves, rows, HeldInv, LinksAreKnown
  <1>4. ASSUME NEW h \in Handler, GotLink(h) \/ Begins(h)
        PROVE  status' = status
    BY <1>4 DEF GotLink, Begins, VerifyReturn, Webhook, rows
  <1>5. ASSUME NEW h \in Handler,
               ReadFresh(h) \/ MarkPaid(h) \/ ReadSubscription(h) \/ Abort(h)
        PROVE  status' = status
    BY <1>5 DEF ReadFresh, MarkPaid, ReadSubscription, Abort, rows
  <1>6. ASSUME NEW h \in Handler, Settle(h) \/ MarkFailed(h)
        PROVE  call[h].att \in Attempt /\ status[call[h].att] = "PENDING"
    BY <1>6, BusyCall DEF Settle, MarkFailed, HeldInv, SettlersHoldTheirAttempt, Settling, Busy
  <1>7. ASSUME NEW h \in Handler, MarkFailed(h)
        PROVE  status' = [status EXCEPT ![call[h].att] = "FAILED"]
    BY <1>7 DEF MarkFailed
  <1> QED
    BY <1>1, <1>2, <1>3, <1>4, <1>5, <1>6, <1>7 DEF Next, Begins, Reconcile

(* reconcile, "Already terminal": with the row locks of v2 no notice that  *)
(* comes late, twice at once or out of order changes a settled attempt.    *)
THEOREM SettledStaysSettled == RowLocks => (Spec => TerminalIsFinal)
  <1> SUFFICES ASSUME RowLocks PROVE Spec => TerminalIsFinal
    OBVIOUS
  <1> DEFINE Final == \A a \in Attempt : status[a] \in {"PAID", "FAILED"} => status'[a] = status[a]
  <1>1. HeldInv /\ [Next]_vars => [Final]_vars
    <2> SUFFICES ASSUME HeldInv, [Next]_vars PROVE Final
      OBVIOUS
    <2>1. ASSUME NEW h \in Handler, Settle(h), status[call[h].att] = "PENDING"
          PROVE  Final
      BY <2>1 DEF Settle, HeldInv, TypeOK
    <2>2. ASSUME NEW b \in Attempt, NEW v, status[b] \in {"none", "PENDING"},
                 status' = [status EXCEPT ![b] = v]
          PROVE  Final
      BY <2>2 DEF HeldInv, TypeOK
    <2> QED
      BY <2>1, <2>2, OneAttemptMoves
  <1> QED
    BY <1>1, HeldInvHolds, PTL DEF Spec, TerminalIsFinal

----------------------------------------------------------------------------
(* With a Subscription row from sign-up on, v2 credits each payment once   *)
(* and in full.                                                            *)
CreditInv == HeldInv /\ RowComesFirst /\ BasesAreCurrent

LEMMA CreditInvHolds == RowLocks /\ Personal => (Spec => []CreditInv)
  <1> SUFFICES ASSUME RowLocks, Personal PROVE Spec => []CreditInv
    OBVIOUS
  <1>1. BillingInit => RowComesFirst /\ BasesAreCurrent
    BY DEF BillingInit, RowComesFirst, BasesAreCurrent, Idle
  <1>2. CreditInv /\ [Next]_vars => (RowComesFirst /\ BasesAreCurrent)'
    BY StepRowComesFirst, StepBasesAreCurrent DEF CreditInv, HeldInv
  <1> QED
    BY <1>1, <1>2, HeldInvHolds, PTL DEF Spec, CreditInv

(* Every step of billing is one of the ledger, or moves nothing in it.     *)
LEMMA StepIsLedgers ==
    ASSUME CreditInv, [Next]_vars
    PROVE  [Ledger!Next]_(Ledger!vars)
  <1> DEFINE credited == {a \in Attempt : status[a] = "PAID"}
  <1>1. ASSUME NEW h \in Handler, Settle(h), status[call[h].att] = "PENDING"
        PROVE  Ledger!Next
    <2> DEFINE b == call[h].att
    <2>1. b \in Attempt /\ call[h].at \in 0..day
      BY <1>1, BusyCall
         DEF Settle, CreditInv, HeldInv, SettlersHoldTheirAttempt, Settling, TypeOK, Busy
    <2>2. b \notin credited /\ credited' = credited \union {b}
      BY <1>1, <2>1 DEF Settle, CreditInv, HeldInv, TypeOK
    <2>3. sub'.end = Later(sub.end, call[h].at) + Period /\ day' = day
      BY <1>1 DEF Settle, Extended, CreditInv, BasesAreCurrent
    <2>4. Later(sub.end, call[h].at) = Ledger!Later(sub.end, call[h].at)
      BY DEF Later, Ledger!Later
    <2>5. \E start \in 0..day : sub'.end = Ledger!Later(sub.end, start) + Period
      BY <2>1, <2>3, <2>4
    <2> HIDE DEF b, credited
    <2> QED
      BY <2>1, <2>2, <2>3, <2>5 DEF Ledger!Next, Ledger!Credit, credited
  <1>2. CASE credited' = credited
    <2>1. CASE UNCHANGED vars
      BY <1>2, <2>1 DEF vars, Ledger!vars
    <2>2. CASE StartTrial
      <3>1. sub.end = 0 /\ sub'.end \in Nat \ {0} /\ day' = day
        BY <2>2, BillingAssumption
           DEF StartTrial, CreditInv, HeldInv, RowComesFirst, TypeOK
      <3> QED
        BY <1>2, <3>1 DEF Ledger!Next, Ledger!TrialStarts
    <2>3. CASE DayPasses
      BY <1>2, <2>3 DEF DayPasses, rows, Ledger!Next, Ledger!DayPasses
    <2>4. CASE Sweep
      BY <1>2, <2>4 DEF Sweep, CreditInv, HeldInv, TypeOK, Ledger!vars
    <2>5. ASSUME NEW a \in Attempt,
                 Checkout(a) \/ LinkMade(a) \/ LinkRefused(a) \/ StoreRef(a) \/ LinkMoves(a)
          PROVE  UNCHANGED <<day, sub>>
      BY <2>5 DEF Checkout, LinkMade, LinkRefused, StoreRef, LinkMoves, rows
    <2>6. ASSUME NEW h \in Handler, GotLink(h) \/ Begins(h)
          PROVE  UNCHANGED <<day, sub>>
      BY <2>6 DEF GotLink, Begins, VerifyReturn, Webhook, rows
    <2>7. ASSUME NEW h \in Handler,
                 ReadFresh(h) \/ MarkPaid(h) \/ ReadSubscription(h) \/ MarkFailed(h) \/ Abort(h)
          PROVE  UNCHANGED <<day, sub>>
      BY <2>7 DEF ReadFresh, MarkPaid, ReadSubscription, MarkFailed, Abort, rows
    <2>8. ASSUME NEW h \in Handler, Settle(h)
          PROVE  FALSE
      <3>1. call[h].att \in Attempt /\ status[call[h].att] = "PENDING"
        BY <2>8, BusyCall DEF Settle, CreditInv, HeldInv, SettlersHoldTheirAttempt, Settling, Busy
      <3>2. call[h].att \in credited'
        BY <2>8, <3>1 DEF Settle, CreditInv, HeldInv, TypeOK
      <3> QED
        BY <1>2, <3>1, <3>2
    <2>9. CASE UNCHANGED <<day, sub>>
      BY <1>2, <2>9 DEF Ledger!vars
    <2> QED
      BY <2>1, <2>2, <2>3, <2>4, <2>5, <2>6, <2>7, <2>8, <2>9 DEF Next, Begins, Reconcile
  <1>3. ASSUME NEW b \in Attempt, NEW v \in {"PENDING", "FAILED"}, status[b] # "PAID",
               status' = [status EXCEPT ![b] = v]
        PROVE  credited' = credited
    BY <1>3 DEF CreditInv, HeldInv, TypeOK
  <1>4. HeldInv
    BY DEF CreditInv
  <1> QED
    BY <1>1, <1>2, <1>3, <1>4, OneAttemptMoves

(* "Idempotent reconcile", "Stack a renewal on top of an unexpired         *)
(* period": with v2's row locks and a Subscription row from sign-up on,    *)
(* however webhooks, returning customers, crashes and the sweep            *)
(* interleave, each payment is credited once and in full.                  *)
THEOREM PaymentsAreCreditedOnce == RowLocks /\ Personal => (Spec => EachPaymentIsCreditedOnce)
  <1> SUFFICES ASSUME RowLocks, Personal PROVE Spec => EachPaymentIsCreditedOnce
    OBVIOUS
  <1>1. BillingInit => Ledger!Init
    BY DEF BillingInit, Ledger!Init
  <1>2. CreditInv /\ [Next]_vars => [Ledger!Next]_(Ledger!vars)
    BY StepIsLedgers
  <1> QED
    BY <1>1, <1>2, CreditInvHolds, PTL DEF Spec, EachPaymentIsCreditedOnce, Ledger!Spec
=============================================================================
