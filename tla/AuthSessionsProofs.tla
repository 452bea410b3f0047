------------------------- MODULE AuthSessionsProofs -------------------------
(***************************************************************************)
(* What AuthSessions promises, for any number of requests, tokens, links   *)
(* and sweeps.                                                             *)
(***************************************************************************)
EXTENDS AuthSessions, TLAPS

(* Requests and rows refer to rows that exist.                             *)
RefersToIssued ==
    /\ \A q \in Request : At(q, "issuing") => req[q].token \in Issued \union {None}
    /\ \A q \in Request : At(q, "retiring") => req[q].token \in Issued
    /\ \A n \in Issued : token[n].from \in Issued \union {None}

(* Two rotations of one token have met; and so has one that is still to    *)
(* issue, if there is a successor.                                         *)
RotationsMeet ==
    /\ \A p, q \in Request :
          /\ p # q /\ req[p].token = req[q].token /\ req[p].token # None
          /\ req[p].pc \in {"issuing", "retiring"} /\ req[q].pc \in {"issuing", "retiring"}
          => req[p].token \in contested
    /\ \A q \in Request :
          At(q, "issuing") /\ req[q].token # None /\ Successors(req[q].token) # {}
          => req[q].token \in contested \union torn

(* What is about to be issued is as old as its login, or known to be.      *)
IssuesAreSpared ==
    \A q \in Request :
        At(q, "issuing") /\ req[q].since # sweeps => req[q].late \/ req[q].token \in spared

ResetsMeet ==
    /\ \A p, q \in Request :
          p # q /\ At(p, "resetting") /\ At(q, "resetting") /\ req[p].link = req[q].link
          => req[p].link \in shared
    /\ \A q \in Request :
          At(q, "resetting") /\ resets[req[q].link] > 0 => req[q].link \in shared

LinksMeet ==
    ~crowded =>
        /\ \A p, q \in Request : At(p, "linking") /\ At(q, "linking") => p = q
        /\ (\E q \in Request : At(q, "linking")) => \A l \in Link : link[l] # "open"

LEMMA IsNeverAToken == None \notin Token /\ None \notin Link
BY AuthAssumption

LEMMA RowTypes ==
    /\ NoToken \in TokenRow /\ Idle \in RequestState
    /\ \A r \in TokenRow : [r EXCEPT !.state = "revoked"] \in TokenRow
    /\ \A r \in RequestState :
          /\ r.token \in Token \union {None} /\ r.since \in Nat /\ r.link \in Link \union {None}
          /\ r.late \in BOOLEAN
          /\ [r EXCEPT !.late = TRUE] \in RequestState
          /\ [r EXCEPT !.late = TRUE].pc = r.pc
          /\ [r EXCEPT !.pc = "retiring"] \in RequestState
BY DEF NoToken, TokenRow, RequestState, Idle

LEMMA TypeInit == AuthInit => TypeOK
<1> SUFFICES ASSUME AuthInit PROVE TypeOK
    OBVIOUS
<1>1. token \in [Token -> TokenRow] /\ req \in [Request -> RequestState]
    BY RowTypes DEF AuthInit
<1>2. link \in [Link -> {"none", "open", "consumed"}] /\ resets \in [Link -> Nat]
    BY DEF AuthInit
<1>3. \A q \in Request : ~At(q, "retiring") /\ ~At(q, "resetting")
    BY DEF AuthInit, At, Idle
<1>4. \A l \in Link : ~(resets[l] > 0)
    BY DEF AuthInit
<1> QED
    BY <1>1, <1>2, <1>3, <1>4 DEF AuthInit, TypeOK

(* The part of TypeOK that is about requests.                              *)
ReqOK ==
    /\ req \in [Request -> RequestState]
    /\ \A q \in Request : At(q, "retiring") => req[q].token \in Token
    /\ \A q \in Request : At(q, "resetting") => req[q].link \in Link

LEMMA SweepsType ==
    ASSUME TypeOK, NEW q \in Request, NEW kept \in Token \union {None}, Sweeps(q, kept)
    PROVE  /\ token' \in [Token -> TokenRow] /\ sweeps' \in Nat
           /\ ReqOK' /\ spared' \subseteq Token
           /\ contested' = contested /\ torn' = torn
<1>1. \A t \in Token : Swept(kept)[t] \in TokenRow
    BY RowTypes DEF Swept, TypeOK, ReqOK
<1>2. token' \in [Token -> TokenRow]
    BY <1>1 DEF Sweeps, Swept
<1>3. \A o \in Request :
          req'[o] = IF o = q THEN Idle
                    ELSE IF At(o, "issuing") THEN [req[o] EXCEPT !.late = TRUE] ELSE req[o]
    BY DEF Sweeps
<1>4. \A o \in Request : req'[o] \in RequestState
    BY ZenonT(40), <1>3, RowTypes DEF TypeOK, ReqOK
<1>5. \A o \in Request : req'[o].pc \in {"retiring", "resetting"} => req'[o] = req[o]
    <2>1. Idle.pc = "idle" /\ \A o \in Request : req[o] \in RequestState
        BY DEF Idle, TypeOK
    <2> SUFFICES ASSUME NEW o \in Request, req'[o].pc \in {"retiring", "resetting"}
                 PROVE  req'[o] = req[o]
        OBVIOUS
    <2>2. o # q /\ req'[o] = IF At(o, "issuing") THEN [req[o] EXCEPT !.late = TRUE] ELSE req[o]
        BY <1>3, <2>1
    <2>3. ~At(o, "issuing")
        <3> SUFFICES ASSUME At(o, "issuing") PROVE FALSE
            OBVIOUS
        <3>1. req'[o].pc = req[o].pc /\ req[o].pc = "issuing"
            BY <2>1, <2>2, RowTypes DEF At
        <3> QED
            BY <3>1
    <2> QED
        BY <2>2, <2>3
<1>6. ReqOK'
    BY <1>4, <1>5 DEF Sweeps, ReqOK, TypeOK, At
<1> QED
    BY <1>2, <1>6 DEF Sweeps, TypeOK

LEMMA TypeStep == TypeOK /\ [AuthNext]_vars => TypeOK'
<1> SUFFICES ASSUME TypeOK, [AuthNext]_vars PROVE TypeOK'
    OBVIOUS
<1> USE DEF ofTokens, ofLinks
<1>0. ASSUME NEW q \in Request, NEW new \in RequestState, req' = [req EXCEPT ![q] = new],
             new.pc = "retiring" => new.token \in Token,
             new.pc = "resetting" => new.link \in Link
      PROVE  ReqOK'
    <2>1. \A o \in Request : req'[o] = IF o = q THEN new ELSE req[o]
        BY <1>0 DEF TypeOK
    <2> QED
        BY <1>0, <2>1 DEF TypeOK, ReqOK, At
<1>a. ASSUME NEW q \in Request, Ends(q) PROVE ReqOK'
    <2>1. Idle.pc = "idle"
        BY DEF Idle
    <2> QED
        BY <1>0, <1>a, <2>1, RowTypes DEF Ends
<1>b. ASSUME NEW t \in Token, token' = RevokedOnly(t) PROVE token' \in [Token -> TokenRow]
    BY <1>b, RowTypes DEF RevokedOnly, TypeOK, ReqOK
<1>1. ASSUME NEW q \in Request, Login(q) PROVE TypeOK'
    <2> DEFINE new == [Idle EXCEPT !.pc = "issuing", !.since = sweeps]
    <2>1. new \in RequestState /\ new.pc = "issuing"
        BY DEF Idle, RequestState, TypeOK
    <2> QED
        BY <1>0, <1>1, <2>1 DEF Login, Begins, TypeOK, ReqOK
<1>2. ASSUME NEW q \in Request, Retire(q) PROVE TypeOK'
    <2>1. token' \in [Token -> TokenRow]
        <3>1. [token[req[q].token] EXCEPT !.state = "revoked"] \in TokenRow \/ req[q].token \notin Token
            BY RowTypes DEF TypeOK
        <3> QED
            BY <1>2, <3>1 DEF Retire, Retired, RevokedOnly, TypeOK
    <2> QED
        BY <1>2, <1>a, <2>1 DEF Retire, TypeOK, ReqOK
<1>3. ASSUME NEW q \in Request, Alarm(q) PROVE TypeOK'
    BY <1>3, SweepsType DEF Alarm, TypeOK, ReqOK
<1>4. ASSUME NEW q \in Request, Change(q) PROVE TypeOK'
    <2>1. req[q].token \in Token \union {None}
        BY RowTypes DEF TypeOK
    <2> QED
        BY <1>4, <2>1, SweepsType DEF Change, TypeOK, ReqOK
<1>5. ASSUME NEW q \in Request, Reset(q) PROVE TypeOK'
    <2> DEFINE l == req[q].link
    <2>0. l \in Link
        BY <1>5 DEF Reset, TypeOK
    <2>1. Sweeps(q, None) /\ link' = Consumed(l) /\ resets' = [resets EXCEPT ![l] = @ + 1]
        BY <1>5 DEF Reset
    <2>2. link' \in [Link -> {"none", "open", "consumed"}] /\ resets' \in [Link -> Nat]
        <3>1. Consumed(l) \in [Link -> {"none", "open", "consumed"}]
            BY DEF Consumed, TypeOK
        <3> QED
            BY <2>1, <3>1, <2>0 DEF TypeOK
    <2>3. \A k \in Link : resets'[k] > 0 => link'[k] = "consumed"
        BY <2>0, <2>1 DEF Consumed, TypeOK
    <2> QED
        BY <1>5, <2>1, <2>2, <2>3, SweepsType DEF Reset, TypeOK, ReqOK
<1>6. ASSUME NEW q \in Request, RequestReset(q) PROVE TypeOK'
    <2> DEFINE new == [Idle EXCEPT !.pc = "linking"]
    <2>1. new \in RequestState /\ new.pc = "linking"
        BY DEF Idle, RequestState
    <2> QED
        BY <1>0, <1>6, <2>1 DEF RequestReset, Begins, TypeOK, ReqOK
<1>7. ASSUME NEW q \in Request, Dies(q) PROVE TypeOK'
    <2>1. torn' \subseteq Token
        BY <1>7 DEF Dies, TypeOK
    <2> QED
        BY <1>7, <1>a, <2>1 DEF Dies, TypeOK, ReqOK
<1>8. ASSUME NEW q \in Request, NEW t \in Token, Refresh(q, t) PROVE TypeOK'
    <2> DEFINE new == [Idle EXCEPT !.pc = "issuing", !.token = t, !.since = token[t].since]
               bad == [Idle EXCEPT !.pc = "alarmed"]
    <2>1. /\ new \in RequestState /\ new.pc = "issuing"
          /\ bad \in RequestState /\ bad.pc = "alarmed"
        BY DEF Idle, RequestState, TypeOK, TokenRow
    <2>2. req' = [req EXCEPT ![q] = new] \/ req' = [req EXCEPT ![q] = bad]
        BY <1>8 DEF Refresh, Begins
    <2>3. ReqOK'
        BY <1>0, <2>1, <2>2
    <2> QED
        BY <1>8, <2>3 DEF Refresh, TypeOK, ReqOK
<1>9. ASSUME NEW q \in Request, NEW t \in Token, Issue(q, t) PROVE TypeOK'
    <2>1. /\ [state |-> "live", from |-> req[q].token, since |-> req[q].since] \in TokenRow
          /\ [req[q] EXCEPT !.pc = "retiring"] \in RequestState
        BY RowTypes DEF TypeOK, TokenRow
    <2>2. ReqOK'
        <3>1. CASE req[q].token = None
            BY <1>9, <1>a, <3>1 DEF Issue
        <3>2. CASE req[q].token # None
            <4> DEFINE new == [req[q] EXCEPT !.pc = "retiring"]
            <4>1. req[q] \in RequestState
                BY DEF TypeOK
            <4>2. new \in RequestState /\ new.pc = "retiring" /\ new.token = req[q].token
                BY <2>1, <4>1 DEF RequestState
            <4>3. new.token \in Token
                BY <3>2, <4>1, <4>2, RowTypes
            <4>4. req' = [req EXCEPT ![q] = new]
                BY <1>9, <3>2 DEF Issue
            <4> QED
                BY <1>0, <4>2, <4>3, <4>4
        <3> QED
            BY <3>1, <3>2
    <2> QED
        BY <1>9, <2>1, <2>2 DEF Issue, TypeOK, ReqOK
<1>10. ASSUME NEW q \in Request, NEW k \in Token \union {None}, RevokeAllOthers(q, k) PROVE TypeOK'
    BY <1>10, SweepsType DEF RevokeAllOthers, TypeOK, ReqOK
<1>11. ASSUME NEW q \in Request, NEW k \in Token \union {None}, ChangePassword(q, k) PROVE TypeOK'
    <2> DEFINE new == [Idle EXCEPT !.pc = "changing", !.token = k]
    <2>1. new \in RequestState /\ new.pc = "changing"
        BY DEF Idle, RequestState
    <2> QED
        BY <1>0, <1>11, <2>1 DEF ChangePassword, Begins, TypeOK, ReqOK
<1>12. ASSUME NEW q \in Request, NEW l \in Link, MakeLink(q, l) PROVE TypeOK'
    BY <1>12, <1>a DEF MakeLink, TypeOK, ReqOK
<1>13. ASSUME NEW q \in Request, NEW l \in Link, CompleteReset(q, l) PROVE TypeOK'
    <2> DEFINE new == [Idle EXCEPT !.pc = "resetting", !.link = l]
    <2>1. new \in RequestState /\ new.pc = "resetting" /\ new.link = l
        BY DEF Idle, RequestState
    <2> QED
        BY <1>0, <1>13, <2>1 DEF CompleteReset, Begins, TypeOK, ReqOK
<1>14. ASSUME NEW t \in Token, Revoke(t) PROVE TypeOK'
    BY <1>14, <1>b DEF Revoke, TypeOK, At
<1>15. CASE UNCHANGED vars
    BY <1>15 DEF vars, TypeOK, At
<1> QED
    BY <1>1, <1>2, <1>3, <1>4, <1>5, <1>6, <1>7, <1>8, <1>9, <1>10, <1>11, <1>12, <1>13, <1>14, <1>15
    DEF AuthNext, Issued

(* Rows keep their types through every interleaving of requests.           *)
THEOREM TypeCorrect == Spec => []TypeOK
BY TypeInit, TypeStep, PTL DEF Spec

----------------------------------------------------------------------------
LEMMA ReqMoves ==
    ASSUME TypeOK, NEW q \in Request, NEW new, req' = [req EXCEPT ![q] = new]
    PROVE  \A o \in Request : req'[o] = IF o = q THEN new ELSE req[o]
BY DEF TypeOK

LEMMA ReqEnds ==
    ASSUME TypeOK, NEW q \in Request, Ends(q)
    PROVE  \A o \in Request : IF o = q THEN req'[o].pc = "idle" ELSE req'[o] = req[o]
<1>1. Idle.pc = "idle"
    BY DEF Idle
<1> QED
    BY <1>1 DEF Ends, TypeOK

LEMMA SweepsMoves ==
    ASSUME TypeOK, NEW q \in Request, NEW kept \in Token \union {None}, Sweeps(q, kept)
    PROVE  /\ sweeps' = sweeps + 1 /\ contested' = contested /\ torn' = torn
           /\ \A t \in Token :
                 /\ token'[t].from = token[t].from /\ token'[t].since = token[t].since
                 /\ token'[t].state = "none" <=> token[t].state = "none"
                 /\ token'[t].state = "live" => token[t].state = "live" /\ t \in spared'
           /\ \A o \in Request : req'[o].pc # "idle" =>
                 /\ o # q
                 /\ req'[o].pc = req[o].pc /\ req'[o].token = req[o].token
                 /\ req'[o].link = req[o].link
                 /\ req'[o].pc = "issuing" => req'[o].late
           /\ \A o \in Request : o # q => req'[o].pc = req[o].pc /\ req'[o].token = req[o].token
<1>1. \A t \in Token :
          token'[t] = IF Live(t) /\ t # kept THEN [token[t] EXCEPT !.state = "revoked"] ELSE token[t]
    BY DEF Sweeps, Swept
<1>2. \A t \in Token : token[t] \in TokenRow
    BY DEF TypeOK
<1>3. ASSUME NEW t \in Token
      PROVE  /\ token'[t].from = token[t].from /\ token'[t].since = token[t].since
             /\ token'[t].state = "none" <=> token[t].state = "none"
             /\ token'[t].state = "live" => token[t].state = "live" /\ t \in spared'
    <2>1. CASE Live(t) /\ t # kept
        <3>1. token'[t] = [token[t] EXCEPT !.state = "revoked"] /\ token[t].state = "live"
            BY <1>1, <2>1 DEF Live
        <3> QED
            BY <3>1, <1>2 DEF TokenRow
    <2>2. CASE ~(Live(t) /\ t # kept)
        <3>1. token'[t] = token[t]
            BY <1>1, <2>2
        <3>2. Live(t) => t \in spared'
            BY <2>2 DEF Sweeps
        <3> QED
            BY <3>1, <3>2 DEF Live
    <2> QED
        BY <2>1, <2>2
<1>4. \A o \in Request :
          req'[o] = IF o = q THEN Idle
                    ELSE IF At(o, "issuing") THEN [req[o] EXCEPT !.late = TRUE] ELSE req[o]
    BY DEF Sweeps
<1>5. Idle.pc = "idle" /\ \A o \in Request : req[o] \in RequestState
    BY DEF Idle, TypeOK
<1>6. ASSUME NEW o \in Request, o # q
      PROVE  /\ req'[o].pc = req[o].pc /\ req'[o].token = req[o].token
             /\ req'[o].link = req[o].link
             /\ req'[o].pc = "issuing" => req'[o].late
    <2>1. CASE At(o, "issuing")
        <3>1. req'[o] = [req[o] EXCEPT !.late = TRUE]
            BY <1>4, <1>6, <2>1
        <3> QED
            BY <3>1, <1>5 DEF RequestState
    <2>2. CASE ~At(o, "issuing")
        BY <1>4, <1>6, <2>2 DEF At
    <2> QED
        BY <2>1, <2>2
<1> QED
    BY <1>3, <1>4, <1>5, <1>6 DEF Sweeps

----------------------------------------------------------------------------
(* Tokens.  What every step but a refresh and an issue does to them.       *)
TokenInv == RefersToIssued /\ RotationsMeet /\ RotatedTokensAreRetired /\ ForksComeFromOverlaps

LEMMA NoNewTokens ==
    ASSUME TypeOK, TokenInv,
           \A t \in Token :
              /\ token'[t].from = token[t].from
              /\ token'[t].state = "none" <=> token[t].state = "none"
              /\ token'[t].state = "live" => token[t].state = "live",
           contested' = contested, torn \subseteq torn',
           \A q \in Request :
              /\ req'[q].pc \in {"issuing", "retiring"} =>
                    \/ req'[q].pc = req[q].pc /\ req'[q].token = req[q].token
                    \/ req'[q].pc = "issuing" /\ req'[q].token = None
              /\ req[q].pc = "retiring" /\ req'[q].pc # "retiring" =>
                    req[q].token \in torn' \/ token'[req[q].token].state # "live"
              /\ req[q].pc = "retiring" /\ req'[q].pc = "retiring" => req'[q].token = req[q].token
    PROVE  TokenInv'
<1>1. Issued' = Issued /\ \A t \in Token : Live(t)' => Live(t)
    BY DEF Issued, Live
<1>2. \A t \in Token : Successors(t)' = Successors(t)
    BY <1>1 DEF Successors, Issued
<1>3. RefersToIssued'
    BY <1>1 DEF TokenInv, RefersToIssued, At, Issued
<1>4. RotationsMeet'
    <2>1. ASSUME NEW q \in Request, req'[q].pc \in {"issuing", "retiring"}, req'[q].token # None
          PROVE  req'[q].pc = req[q].pc /\ req'[q].token = req[q].token
        BY <2>1
    <2>2. ASSUME NEW q \in Request, NEW t, At(q, "issuing")', t = req'[q].token, t # None,
                 Successors(t)' # {}
          PROVE  t \in contested' \union torn'
        <3>1. At(q, "issuing") /\ t = req[q].token
            BY <2>1, <2>2 DEF At
        <3>2. t \in Token
            BY <2>2, <3>1 DEF TokenInv, RefersToIssued, Issued
        <3>3. Successors(t) # {}
            BY <1>2, <2>2, <3>2
        <3> QED
            BY <2>2, <3>1, <3>3 DEF TokenInv, RotationsMeet
    <2>3. ASSUME NEW p \in Request, NEW q \in Request, p # q, req'[p].token = req'[q].token,
                 req'[p].token # None, req'[p].pc \in {"issuing", "retiring"},
                 req'[q].pc \in {"issuing", "retiring"}
          PROVE  req'[p].token \in contested'
        BY <2>1, <2>3 DEF TokenInv, RotationsMeet
    <2>4. \A q \in Request :
              At(q, "issuing")' /\ (req[q].token)' # None /\ Successors((req[q].token))' # {} =>
                  (req[q].token)' \in contested' \union torn'
        BY <2>2
    <2> QED
        BY <2>3, <2>4 DEF RotationsMeet
<1>5. RotatedTokensAreRetired'
    <2> SUFFICES ASSUME NEW t \in Token, Live(t)', Successors(t)' # {}
                 PROVE  t \in torn' \/ \E q \in Request : At(q, "retiring")' /\ req'[q].token = t
        BY DEF RotatedTokensAreRetired
    <2>1. t \in torn \/ \E q \in Request : At(q, "retiring") /\ req[q].token = t
        BY <1>1, <1>2 DEF TokenInv, RotatedTokensAreRetired
    <2> QED
        BY <2>1 DEF At, Live
<1>6. ForksComeFromOverlaps'
    BY <1>2 DEF TokenInv, ForksComeFromOverlaps
<1> QED
    BY <1>3, <1>4, <1>5, <1>6 DEF TokenInv

LEMMA RefreshKeeps ==
    ASSUME TypeOK, TokenInv, NEW q \in Request, NEW t \in Token, Refresh(q, t)
    PROVE  TokenInv'
<1> DEFINE new == [Idle EXCEPT !.pc = "issuing", !.token = t, !.since = token[t].since]
           bad == [Idle EXCEPT !.pc = "alarmed"]
<1>1. token' = token /\ torn' = torn /\ At(q, "idle") /\ t \in Issued
    BY DEF Refresh, Begins
<1>2. CASE ~Refreshable(t)
    <2>1. req' = [req EXCEPT ![q] = bad] /\ contested' = contested
        BY <1>2 DEF Refresh, Begins
    <2>2. bad.pc = "alarmed"
        BY DEF Idle
    <2>3. \A o \in Request : req'[o] = IF o = q THEN bad ELSE req[o]
        BY <2>1, ReqMoves
    <2> QED
        BY <1>1, <2>1, <2>2, <2>3, NoNewTokens DEF At
<1>3. CASE Refreshable(t)
    <2>1. /\ req' = [req EXCEPT ![q] = new]
          /\ contested' = IF Rotates(t) = {} THEN contested ELSE contested \union {t}
        BY <1>3 DEF Refresh, Begins
    <2>2. new.pc = "issuing" /\ new.token = t
        BY DEF Idle
    <2>3. \A o \in Request : req'[o] = IF o = q THEN new ELSE req[o]
        BY <2>1, ReqMoves
    <2>4. Issued' = Issued /\ \A u \in Token : Successors(u)' = Successors(u) /\ Live(u)' = Live(u)
        BY <1>1 DEF Issued, Successors, Live
    <2>5. RefersToIssued'
        BY <1>1, <2>2, <2>3, <2>4 DEF TokenInv, RefersToIssued, At
    <2>6. RotationsMeet'
        <3>1. ASSUME NEW p \in Request, p # q, req[p].pc \in {"issuing", "retiring"}, req[p].token = t
              PROVE  t \in contested'
            BY <2>1, <3>1 DEF Rotates
        <3>2. Successors(t) # {} => t \in contested' \union torn'
            <4>1. ASSUME Successors(t) # {}, t \notin torn PROVE t \in contested'
                <5>1. PICK p \in Request : At(p, "retiring") /\ req[p].token = t
                    BY <1>3, <4>1 DEF TokenInv, RotatedTokensAreRetired, Refreshable
                <5> QED
                    BY <1>1, <3>1, <5>1 DEF At
            <4> QED
                BY <4>1, <1>1
        <3>3. ASSUME NEW p \in Request, NEW u, At(p, "issuing")', u = req'[p].token, u # None,
                     Successors(u)' # {}
              PROVE  u \in contested' \union torn'
            <4>1. CASE p = q
                <5>1. u = t
                    BY <2>2, <2>3, <3>3, <4>1
                <5> QED
                    BY <2>4, <3>2, <3>3, <5>1
            <4>2. CASE p # q
                <5>1. At(p, "issuing") /\ u = req[p].token
                    BY <2>3, <3>3, <4>2 DEF At
                <5>2. u \in Token
                    BY <3>3, <5>1 DEF TokenInv, RefersToIssued, Issued
                <5>3. Successors(u) # {}
                    BY <2>4, <3>3, <5>2
                <5>4. u \in contested \union torn
                    BY <3>3, <5>1, <5>3 DEF TokenInv, RotationsMeet
                <5> QED
                    BY <1>1, <2>1, <5>4
            <4> QED
                BY <4>1, <4>2
        <3>4. ASSUME NEW p \in Request, NEW o \in Request, p # o, req'[p].token = req'[o].token,
                     req'[p].token # None, req'[p].pc \in {"issuing", "retiring"},
                     req'[o].pc \in {"issuing", "retiring"}
              PROVE  req'[p].token \in contested'
            <4>1. CASE p = q
                BY <2>2, <2>3, <3>1, <3>4, <4>1
            <4>2. CASE o = q
                BY ZenonT(40), <2>2, <2>3, <3>1, <3>4, <4>2
            <4>3. CASE p # q /\ o # q
                BY <2>1, <2>3, <3>4, <4>3 DEF TokenInv, RotationsMeet
            <4> QED
                BY <4>1, <4>2, <4>3
        <3> QED
            BY <3>3, <3>4 DEF RotationsMeet
    <2>7. RotatedTokensAreRetired'
        BY <1>1, <2>3, <2>4 DEF TokenInv, RotatedTokensAreRetired, At
    <2>8. ForksComeFromOverlaps'
        BY <1>1, <2>1, <2>4 DEF TokenInv, ForksComeFromOverlaps
    <2> QED
        BY <2>5, <2>6, <2>7, <2>8 DEF TokenInv
<1> QED
    BY <1>2, <1>3

LEMMA IssueKeeps ==
    ASSUME TypeOK, TokenInv, NEW q \in Request, NEW n \in Token, Issue(q, n),
           NEW from, from = req[q].token
    PROVE  TokenInv'
<1> DEFINE new == [state |-> "live", from |-> from, since |-> req[q].since]
<1>1. /\ At(q, "issuing") /\ n \notin Issued /\ token' = [token EXCEPT ![n] = new]
      /\ contested' = contested /\ torn' = torn
    BY DEF Issue
<1>2. from \in Issued \union {None} /\ from # n
    BY <1>1, IsNeverAToken DEF TokenInv, RefersToIssued
<1>3. new.state = "live" /\ new.from = from
    OBVIOUS
<1>4. \A t \in Token : token'[t] = IF t = n THEN new ELSE token[t]
    BY <1>1 DEF TypeOK
<1>5. Issued' = Issued \union {n}
    BY <1>3, <1>4 DEF Issued
<1>6. /\ \A t \in Token : t # from => Successors(t)' = Successors(t)
      /\ from \in Token => Successors(from)' = Successors(from) \union {n}
    <2>1. \A m \in Issued' : token'[m].from = IF m = n THEN from ELSE token[m].from
        BY <1>3, <1>4 DEF Issued
    <2>2. ASSUME NEW t \in Token, t # from PROVE Successors(t)' = Successors(t)
        BY <1>1, <1>5, <2>1, <2>2 DEF Successors
    <2>3. ASSUME from \in Token PROVE Successors(from)' = Successors(from) \union {n}
        <3>1. \A m \in Issued' : token'[m].from = from <=> m = n \/ token[m].from = from
            BY <1>1, <2>1
        <3> QED
            BY <1>5, <3>1 DEF Successors
    <2> QED
        BY <2>2, <2>3
<1>7. Successors(n)' = {}
    <2>1. Successors(n) = {}
        BY <1>1, IsNeverAToken DEF TokenInv, RefersToIssued, Successors
    <2> QED
        BY <1>2, <1>6, <2>1
<1>8. \A o \in Request :
          IF o = q
            THEN IF from = None THEN req'[o].pc = "idle"
                 ELSE req'[o].pc = "retiring" /\ req'[o].token = from
            ELSE req'[o] = req[o]
    <2>1. CASE from = None
        BY <2>1, ReqEnds DEF Issue
    <2>2. CASE from # None
        <3> DEFINE then == [req[q] EXCEPT !.pc = "retiring"]
        <3>1. req' = [req EXCEPT ![q] = then]
            BY <2>2 DEF Issue
        <3>2. then.pc = "retiring" /\ then.token = from
            BY DEF TypeOK, RequestState
        <3> HIDE DEF then
        <3>3. \A o \in Request : req'[o] = IF o = q THEN then ELSE req[o]
            BY <3>1, ReqMoves
        <3> QED
            BY <2>2, <3>2, <3>3
    <2> QED
        BY <2>1, <2>2
<1>9. RefersToIssued'
    <2>1. ASSUME NEW o \in Request, At(o, "issuing")' PROVE (req[o].token \in Issued \union {None})'
        BY <1>5, <1>8, <2>1 DEF TokenInv, RefersToIssued, At
    <2>2. ASSUME NEW o \in Request, At(o, "retiring")' PROVE (req[o].token \in Issued)'
        BY <1>2, <1>5, <1>8, <2>2 DEF TokenInv, RefersToIssued, At
    <2>3. ASSUME NEW m \in Issued' PROVE (token[m].from \in Issued \union {None})'
        <3>1. m \in Token
            BY DEF Issued
        <3> QED
            BY <1>2, <1>3, <1>4, <1>5, <3>1 DEF TokenInv, RefersToIssued
    <2> QED
        BY <2>1, <2>2, <2>3 DEF RefersToIssued
<1>10. RotationsMeet'
    <2>1. ASSUME NEW o \in Request, req'[o].pc \in {"issuing", "retiring"}
          PROVE  req'[o].token = req[o].token /\ req[o].pc \in {"issuing", "retiring"}
        BY <1>1, <1>8, <2>1 DEF At
    <2>2. ASSUME NEW p \in Request, NEW o \in Request, p # o, req'[p].token = req'[o].token,
                 req'[p].token # None, req'[p].pc \in {"issuing", "retiring"},
                 req'[o].pc \in {"issuing", "retiring"}
          PROVE  req'[p].token \in contested'
        BY <1>1, <2>1, <2>2 DEF TokenInv, RotationsMeet
    <2>3. ASSUME NEW p \in Request, NEW u, At(p, "issuing")', u = req'[p].token, u # None,
                 Successors(u)' # {}
          PROVE  u \in contested' \union torn'
        <3>1. p # q /\ At(p, "issuing") /\ u = req[p].token
            BY <1>8, <2>3 DEF At
        <3>2. u \in Token
            BY <2>3, <3>1 DEF TokenInv, RefersToIssued, Issued
        <3>3. CASE u = from
            BY <1>1, <2>3, <3>1, <3>3 DEF TokenInv, RotationsMeet, At
        <3>4. CASE u # from
            BY <1>1, <1>6, <2>3, <3>1, <3>2, <3>4 DEF TokenInv, RotationsMeet
        <3> QED
            BY <3>3, <3>4
    <2>4. \A o \in Request :
              At(o, "issuing")' /\ (req[o].token)' # None /\ Successors((req[o].token))' # {} =>
                  (req[o].token)' \in contested' \union torn'
        BY <2>3
    <2> QED
        BY <2>2, <2>4 DEF RotationsMeet
<1>11. RotatedTokensAreRetired'
    <2> SUFFICES ASSUME NEW t \in Token, Live(t)', Successors(t)' # {}
                 PROVE  t \in torn' \/ \E o \in Request : At(o, "retiring")' /\ req'[o].token = t
        BY DEF RotatedTokensAreRetired
    <2>1. t # n /\ token'[t] = token[t]
        BY <1>4, <1>7
    <2>2. CASE t = from
        BY <1>8, <2>2, IsNeverAToken DEF At
    <2>3. CASE t # from
        <3>1. t \in torn \/ \E o \in Request : At(o, "retiring") /\ req[o].token = t
            BY <1>6, <2>1, <2>3 DEF TokenInv, RotatedTokensAreRetired, Live
        <3> QED
            BY <1>1, <1>8, <3>1 DEF At
    <2> QED
        BY <2>2, <2>3
<1>12. ForksComeFromOverlaps'
    <2> SUFFICES ASSUME NEW t \in Token, NEW i \in Successors(t)', NEW j \in Successors(t)', i # j
                 PROVE  t \in contested' \union torn'
        BY DEF ForksComeFromOverlaps
    <2>1. CASE t # from
        BY <1>1, <1>6, <2>1 DEF TokenInv, ForksComeFromOverlaps
    <2>2. CASE t = from
        <3>1. i \in Successors(t) \/ j \in Successors(t)
            BY <1>6, <2>2
        <3> QED
            BY <1>1, <2>2, <3>1, IsNeverAToken DEF TokenInv, RotationsMeet
    <2> QED
        BY <2>1, <2>2
<1> QED
    BY <1>9, <1>10, <1>11, <1>12 DEF TokenInv

LEMMA SweepsKeep ==
    ASSUME TypeOK, TokenInv, NEW q \in Request, NEW kept \in Token \union {None}, Sweeps(q, kept),
           req[q].pc # "retiring"
    PROVE  TokenInv'
<1>1. \A o \in Request : req[o].pc = "retiring" => req'[o].pc = "retiring" /\ req'[o].token = req[o].token
    BY SweepsMoves
<1> QED
    BY <1>1, SweepsMoves, NoNewTokens

LEMMA TokenStep == TypeOK /\ TokenInv /\ [AuthNext]_vars => TokenInv'
<1> SUFFICES ASSUME TypeOK, TokenInv, [AuthNext]_vars PROVE TokenInv'
    OBVIOUS
<1> USE DEF ofTokens, ofLinks
(* A request that was not rotating begins something that is no rotation.   *)
<1>a. ASSUME NEW q \in Request, NEW begun, Begins(q, begun), token' = token, contested' = contested,
             torn' = torn,
             \/ begun.pc \notin {"issuing", "retiring"}
             \/ begun.pc = "issuing" /\ begun.token = None
      PROVE  TokenInv'
    <2>1. req[q].pc = "idle" /\ \A o \in Request : req'[o] = IF o = q THEN begun ELSE req[o]
        BY <1>a, ReqMoves DEF Begins, At
    <2> QED
        BY <1>a, <2>1, NoNewTokens
(* One that was not retiring a token ends.                                 *)
<1>b. ASSUME NEW q \in Request, Ends(q), token' = token, contested' = contested, torn \subseteq torn',
             At(q, "retiring") => req[q].token \in torn'
      PROVE  TokenInv'
    <2>1. \A o \in Request : IF o = q THEN req'[o].pc = "idle" ELSE req'[o] = req[o]
        BY <1>b, ReqEnds
    <2> QED
        BY <1>b, <2>1, NoNewTokens DEF At
(* A token is revoked.                                                     *)
<1>c. ASSUME NEW t \in Token, token' = RevokedOnly(t)
      PROVE  /\ \A u \in Token :
                    /\ token'[u].from = token[u].from
                    /\ token'[u].state = "none" <=> token[u].state = "none" /\ u # t
                    /\ token'[u].state = "live" => token[u].state = "live"
             /\ token'[t].state = "revoked"
    <2>1. \A u \in Token : token[u] \in TokenRow
        BY DEF TypeOK
    <2>2. \A u \in Token :
              token'[u] = IF u = t THEN [token[t] EXCEPT !.state = "revoked"] ELSE token[u]
        BY <1>c DEF RevokedOnly, TypeOK
    <2>3. /\ [token[t] EXCEPT !.state = "revoked"].state = "revoked"
          /\ [token[t] EXCEPT !.state = "revoked"].from = token[t].from
        BY <2>1 DEF TokenRow
    <2> QED
        BY <2>2, <2>3
<1>1. ASSUME NEW q \in Request, Login(q) PROVE TokenInv'
    <2> DEFINE new == [Idle EXCEPT !.pc = "issuing", !.since = sweeps]
    <2>1. new.pc = "issuing" /\ new.token = None
        BY DEF Idle
    <2> QED
        BY <1>1, <1>a, <2>1 DEF Login
<1>2. ASSUME NEW q \in Request, Retire(q) PROVE TokenInv'
    <2> DEFINE t == req[q].token
    <2>1. t \in Token /\ token[t].state # "none" /\ token' = RevokedOnly(t)
        BY <1>2 DEF Retire, Retired, TokenInv, RefersToIssued, Issued
    <2>2. \A o \in Request : IF o = q THEN req'[o].pc = "idle" ELSE req'[o] = req[o]
        BY <1>2, ReqEnds DEF Retire
    <2>3. contested' = contested /\ torn' = torn
        BY <1>2 DEF Retire
    <2> HIDE DEF t
    <2>4. \A u \in Token :
              /\ token'[u].from = token[u].from
              /\ token'[u].state = "none" <=> token[u].state = "none"
              /\ token'[u].state = "live" => token[u].state = "live"
        BY <1>c, <2>1
    <2>5. token'[req[q].token].state # "live"
        BY <1>c, <2>1 DEF t
    <2> QED
        BY <2>2, <2>3, <2>4, <2>5, NoNewTokens
<1>3. ASSUME NEW q \in Request, Alarm(q) PROVE TokenInv'
    BY <1>3, SweepsKeep DEF Alarm, At
<1>4. ASSUME NEW q \in Request, Change(q) PROVE TokenInv'
    <2>1. req[q].token \in Token \union {None}
        BY RowTypes DEF TypeOK
    <2> QED
        BY <1>4, <2>1, SweepsKeep DEF Change, At
<1>5. ASSUME NEW q \in Request, Reset(q) PROVE TokenInv'
    BY <1>5, SweepsKeep DEF Reset, At
<1>6. ASSUME NEW q \in Request, RequestReset(q) PROVE TokenInv'
    <2> DEFINE new == [Idle EXCEPT !.pc = "linking"]
    <2>1. new.pc \notin {"issuing", "retiring"}
        BY DEF Idle
    <2>2. Begins(q, new) /\ token' = token /\ contested' = contested /\ torn' = torn
        BY <1>6 DEF RequestReset
    <2> HIDE DEF new
    <2>3. \A o \in Request : req'[o] = IF o = q THEN new ELSE req[o]
        BY <2>2, ReqMoves DEF Begins
    <2> QED
        BY <2>1, <2>2, <2>3, NoNewTokens DEF Begins, At
<1>7. ASSUME NEW q \in Request, Dies(q) PROVE TokenInv'
    BY <1>7, <1>b DEF Dies
<1>8. ASSUME NEW q \in Request, NEW t \in Token, Refresh(q, t) PROVE TokenInv'
    BY <1>8, RefreshKeeps
<1>9. ASSUME NEW q \in Request, NEW t \in Token, Issue(q, t) PROVE TokenInv'
    BY <1>9, IssueKeeps
<1>10. ASSUME NEW q \in Request, NEW k \in Token \union {None}, RevokeAllOthers(q, k) PROVE TokenInv'
    BY <1>10, SweepsKeep DEF RevokeAllOthers, At
<1>11. ASSUME NEW q \in Request, NEW k \in Token \union {None}, ChangePassword(q, k) PROVE TokenInv'
    <2> DEFINE new == [Idle EXCEPT !.pc = "changing", !.token = k]
    <2>1. new.pc \notin {"issuing", "retiring"}
        BY DEF Idle
    <2>2. Begins(q, new) /\ token' = token /\ contested' = contested /\ torn' = torn
        BY <1>11 DEF ChangePassword
    <2> HIDE DEF new
    <2>3. \A o \in Request : req'[o] = IF o = q THEN new ELSE req[o]
        BY <2>2, ReqMoves DEF Begins
    <2> QED
        BY <2>1, <2>2, <2>3, NoNewTokens DEF Begins, At
<1>12. ASSUME NEW q \in Request, NEW l \in Link, MakeLink(q, l) PROVE TokenInv'
    BY <1>12, <1>b DEF MakeLink, At
<1>13. ASSUME NEW q \in Request, NEW l \in Link, CompleteReset(q, l) PROVE TokenInv'
    <2> DEFINE new == [Idle EXCEPT !.pc = "resetting", !.link = l]
    <2>1. new.pc \notin {"issuing", "retiring"}
        BY DEF Idle
    <2>2. Begins(q, new) /\ token' = token /\ contested' = contested /\ torn' = torn
        BY <1>13 DEF CompleteReset
    <2> HIDE DEF new
    <2>3. \A o \in Request : req'[o] = IF o = q THEN new ELSE req[o]
        BY <2>2, ReqMoves DEF Begins
    <2> QED
        BY <2>1, <2>2, <2>3, NoNewTokens DEF Begins, At
<1>14. ASSUME NEW t \in Token, Revoke(t) PROVE TokenInv'
    <2>1. token' = RevokedOnly(t) /\ token[t].state # "none"
        BY <1>14 DEF Revoke, Live
    <2>2. \A u \in Token :
              /\ token'[u].from = token[u].from
              /\ token'[u].state = "none" <=> token[u].state = "none"
              /\ token'[u].state = "live" => token[u].state = "live"
        BY <1>c, <2>1
    <2> QED
        BY <1>14, <2>2, NoNewTokens DEF Revoke
<1>15. CASE UNCHANGED vars
    BY <1>15, NoNewTokens DEF vars
<1> QED
    BY <1>1, <1>2, <1>3, <1>4, <1>5, <1>6, <1>7, <1>8, <1>9, <1>10, <1>11, <1>12, <1>13, <1>14, <1>15
    DEF AuthNext, Issued

LEMMA TokenInit == AuthInit => TokenInv
<1> SUFFICES ASSUME AuthInit PROVE TokenInv
    OBVIOUS
<1>1. Issued = {} /\ \A q \in Request : req[q].pc = "idle"
    BY DEF AuthInit, Issued, NoToken, Idle
<1>2. \A t \in Token : Successors(t) = {}
    BY <1>1 DEF Successors
<1> QED
    BY <1>1, <1>2 DEF TokenInv, RefersToIssued, RotationsMeet, RotatedTokensAreRetired,
                      ForksComeFromOverlaps, At

(* A token that has a successor works only while its refresh goes on, or   *)
(* after that refresh died.                                                *)
THEOREM RotatedAreRetired == Spec => []RotatedTokensAreRetired
<1>1. TypeOK /\ TokenInv /\ [AuthNext]_vars => (TypeOK /\ TokenInv)'
    BY TypeStep, TokenStep
<1>2. TokenInv => RotatedTokensAreRetired
    BY DEF TokenInv
<1> QED
    BY <1>1, <1>2, TypeInit, TokenInit, PTL DEF Spec

(* A login's line of tokens forks only where two refreshes overlapped, or  *)
(* one died half-way.                                                      *)
THEOREM ForksAreOverlaps == Spec => []ForksComeFromOverlaps
<1>1. TypeOK /\ TokenInv /\ [AuthNext]_vars => (TypeOK /\ TokenInv)'
    BY TypeStep, TokenStep
<1>2. TokenInv => ForksComeFromOverlaps
    BY DEF TokenInv
<1> QED
    BY <1>1, <1>2, TypeInit, TokenInit, PTL DEF Spec

----------------------------------------------------------------------------
(* Sweeps.                                                                 *)
SpareInv == SurvivorsWereSpared /\ IssuesAreSpared

LEMMA NoSweep ==
    ASSUME SpareInv, sweeps' = sweeps, spared \subseteq spared',
           \A t \in Token :
              token'[t].state = "live" /\ token'[t].since # sweeps =>
                 \/ token[t].state = "live" /\ token'[t].since = token[t].since
                 \/ t \in spared',
           \A q \in Request :
              req'[q].pc = "issuing" /\ req'[q].since # sweeps =>
                 \/ req'[q] = req[q]
                 \/ req'[q].token \in spared'
    PROVE  SpareInv'
BY DEF SpareInv, SurvivorsWereSpared, IssuesAreSpared, Live, At

LEMMA SweepsSpare ==
    ASSUME TypeOK, SpareInv, NEW q \in Request, NEW kept \in Token \union {None}, Sweeps(q, kept)
    PROVE  SpareInv'
BY SweepsMoves DEF SpareInv, SurvivorsWereSpared, IssuesAreSpared, Live, At

LEMMA SpareStep == TypeOK /\ SpareInv /\ [AuthNext]_vars => SpareInv'
<1> SUFFICES ASSUME TypeOK, SpareInv, [AuthNext]_vars PROVE SpareInv'
    OBVIOUS
<1> USE DEF ofTokens, ofLinks
<1>a. ASSUME NEW t \in Token, token' = RevokedOnly(t)
      PROVE  \A u \in Token :
                token'[u].state = "live" => token[u].state = "live" /\ token'[u].since = token[u].since
    <2>1. \A u \in Token :
              token'[u] = IF u = t THEN [token[t] EXCEPT !.state = "revoked"] ELSE token[u]
        BY <1>a DEF RevokedOnly, TypeOK
    <2>2. [token[t] EXCEPT !.state = "revoked"].state = "revoked"
        BY DEF TypeOK, TokenRow
    <2> QED
        BY <2>1, <2>2
<1>1. ASSUME NEW q \in Request, Login(q) PROVE SpareInv'
    <2> DEFINE new == [Idle EXCEPT !.pc = "issuing", !.since = sweeps]
    <2>1. new.since = sweeps
        BY DEF Idle
    <2>2. req' = [req EXCEPT ![q] = new] /\ UNCHANGED <<token, sweeps, spared>>
        BY <1>1 DEF Login, Begins
    <2> HIDE DEF new
    <2>3. \A o \in Request : req'[o] = IF o = q THEN new ELSE req[o]
        BY <2>2, ReqMoves
    <2> QED
        BY <2>1, <2>2, <2>3, NoSweep
<1>2. ASSUME NEW q \in Request, Retire(q) PROVE SpareInv'
    <2>1. req[q].token \in Token /\ token' = RevokedOnly(req[q].token)
        BY <1>2 DEF Retire, Retired, TypeOK
    <2>2. \A o \in Request : IF o = q THEN req'[o].pc = "idle" ELSE req'[o] = req[o]
        BY <1>2, ReqEnds DEF Retire
    <2>3. UNCHANGED <<sweeps, spared>>
        BY <1>2 DEF Retire
    <2> QED
        BY <1>a, <2>1, <2>2, <2>3, NoSweep
<1>3. ASSUME NEW q \in Request, Alarm(q) PROVE SpareInv'
    BY <1>3, SweepsSpare DEF Alarm
<1>4. ASSUME NEW q \in Request, Change(q) PROVE SpareInv'
    <2>1. req[q].token \in Token \union {None}
        BY RowTypes DEF TypeOK
    <2> QED
        BY <1>4, <2>1, SweepsSpare DEF Change
<1>5. ASSUME NEW q \in Request, Reset(q) PROVE SpareInv'
    BY <1>5, SweepsSpare DEF Reset
<1>6. ASSUME NEW q \in Request, RequestReset(q) PROVE SpareInv'
    <2> DEFINE new == [Idle EXCEPT !.pc = "linking"]
    <2>1. new.pc # "issuing"
        BY DEF Idle
    <2>2. req' = [req EXCEPT ![q] = new] /\ UNCHANGED <<token, sweeps, spared>>
        BY <1>6 DEF RequestReset, Begins
    <2> HIDE DEF new
    <2>3. \A o \in Request : req'[o] = IF o = q THEN new ELSE req[o]
        BY <2>2, ReqMoves
    <2> QED
        BY <2>1, <2>2, <2>3, NoSweep
<1>7. ASSUME NEW q \in Request, Dies(q) PROVE SpareInv'
    <2>1. \A o \in Request : IF o = q THEN req'[o].pc = "idle" ELSE req'[o] = req[o]
        BY <1>7, ReqEnds DEF Dies
    <2> QED
        BY <1>7, <2>1, NoSweep DEF Dies
<1>8. ASSUME NEW q \in Request, NEW t \in Token, Refresh(q, t) PROVE SpareInv'
    <2> DEFINE new == [Idle EXCEPT !.pc = "issuing", !.token = t, !.since = token[t].since]
               bad == [Idle EXCEPT !.pc = "alarmed"]
    <2>1. new.token = t /\ new.since = token[t].since /\ bad.pc # "issuing"
        BY DEF Idle
    <2>2. \/ Live(t) /\ req' = [req EXCEPT ![q] = new]
          \/ req' = [req EXCEPT ![q] = bad]
        BY <1>8 DEF Refresh, Begins, Refreshable
    <2>3. Live(t) /\ token[t].since # sweeps => t \in spared
        BY DEF SpareInv, SurvivorsWereSpared
    <2>4. UNCHANGED <<token, sweeps, spared>>
        BY <1>8 DEF Refresh
    <2> HIDE DEF new, bad
    <2>5. \/ Live(t) /\ \A o \in Request : req'[o] = IF o = q THEN new ELSE req[o]
          \/ \A o \in Request : req'[o] = IF o = q THEN bad ELSE req[o]
        BY <2>2, ReqMoves
    <2> QED
        BY <2>1, <2>3, <2>4, <2>5, NoSweep
<1>9. ASSUME NEW q \in Request, NEW n \in Token, Issue(q, n) PROVE SpareInv'
    <2> DEFINE new == [state |-> "live", from |-> req[q].token, since |-> req[q].since]
    <2>1. new.since = req[q].since
        OBVIOUS
    <2>2. /\ At(q, "issuing") /\ sweeps' = sweeps /\ token' = [token EXCEPT ![n] = new]
          /\ spared' = IF req[q].late \/ req[q].token \in spared THEN spared \union {n} ELSE spared
        BY <1>9 DEF Issue
    <2> HIDE DEF new
    <2>3. \A t \in Token : token'[t] = IF t = n THEN new ELSE token[t]
        BY <2>2 DEF TypeOK
    <2>4. req[q].since # sweeps => n \in spared'
        BY <2>2 DEF SpareInv, IssuesAreSpared
    <2>5. \A o \in Request : IF o = q THEN req'[o].pc # "issuing" ELSE req'[o] = req[o]
        <3>1. CASE req[q].token = None
            BY <1>9, <3>1, ReqEnds DEF Issue
        <3>2. CASE req[q].token # None
            <4> DEFINE then == [req[q] EXCEPT !.pc = "retiring"]
            <4>1. req' = [req EXCEPT ![q] = then]
                BY <1>9, <3>2 DEF Issue
            <4>2. then.pc # "issuing"
                BY DEF TypeOK, RequestState
            <4> HIDE DEF then
            <4>3. \A o \in Request : req'[o] = IF o = q THEN then ELSE req[o]
                BY <4>1, ReqMoves
            <4> QED
                BY <4>2, <4>3
        <3> QED
            BY <3>1, <3>2
    <2> QED
        BY <2>1, <2>2, <2>3, <2>4, <2>5, NoSweep
<1>10. ASSUME NEW q \in Request, NEW k \in Token \union {None}, RevokeAllOthers(q, k) PROVE SpareInv'
    BY <1>10, SweepsSpare DEF RevokeAllOthers
<1>11. ASSUME NEW q \in Request, NEW k \in Token \union {None}, ChangePassword(q, k) PROVE SpareInv'
    <2> DEFINE new == [Idle EXCEPT !.pc = "changing", !.token = k]
    <2>1. new.pc # "issuing"
        BY DEF Idle
    <2>2. req' = [req EXCEPT ![q] = new] /\ UNCHANGED <<token, sweeps, spared>>
        BY <1>11 DEF ChangePassword, Begins
    <2> HIDE DEF new
    <2>3. \A o \in Request : req'[o] = IF o = q THEN new ELSE req[o]
        BY <2>2, ReqMoves
    <2> QED
        BY <2>1, <2>2, <2>3, NoSweep
<1>12. ASSUME NEW q \in Request, NEW l \in Link, MakeLink(q, l) PROVE SpareInv'
    <2>1. \A o \in Request : IF o = q THEN req'[o].pc = "idle" ELSE req'[o] = req[o]
        BY <1>12, ReqEnds DEF MakeLink
    <2> QED
        BY <1>12, <2>1, NoSweep DEF MakeLink
<1>13. ASSUME NEW q \in Request, NEW l \in Link, CompleteReset(q, l) PROVE SpareInv'
    <2> DEFINE new == [Idle EXCEPT !.pc = "resetting", !.link = l]
    <2>1. new.pc # "issuing"
        BY DEF Idle
    <2>2. req' = [req EXCEPT ![q] = new] /\ UNCHANGED <<token, sweeps, spared>>
        BY <1>13 DEF CompleteReset, Begins
    <2> HIDE DEF new
    <2>3. \A o \in Request : req'[o] = IF o = q THEN new ELSE req[o]
        BY <2>2, ReqMoves
    <2> QED
        BY <2>1, <2>2, <2>3, NoSweep
<1>14. ASSUME NEW t \in Token, Revoke(t) PROVE SpareInv'
    <2>1. token' = RevokedOnly(t) /\ UNCHANGED <<req, sweeps, spared>>
        BY <1>14 DEF Revoke
    <2> QED
        BY <1>a, <2>1, NoSweep
<1>15. CASE UNCHANGED vars
    BY <1>15, NoSweep DEF vars
<1> QED
    BY <1>1, <1>2, <1>3, <1>4, <1>5, <1>6, <1>7, <1>8, <1>9, <1>10, <1>11, <1>12, <1>13, <1>14, <1>15
    DEF AuthNext, Issued

LEMMA SpareInit == AuthInit => SpareInv
BY DEF AuthInit, SpareInv, SurvivorsWereSpared, IssuesAreSpared, NoToken, Idle, Live, At

(* After a sweep nothing of an older login works but what the sweep kept,  *)
(* what it overtook, and what descends from these.                         *)
THEOREM SweepsAreComplete == Spec => []SurvivorsWereSpared
<1>1. TypeOK /\ SpareInv /\ [AuthNext]_vars => (TypeOK /\ SpareInv)'
    BY TypeStep, SpareStep
<1>2. SpareInv => SurvivorsWereSpared
    BY DEF SpareInv
<1> QED
    BY <1>1, <1>2, TypeInit, SpareInit, PTL DEF Spec

----------------------------------------------------------------------------
(* Reset links.                                                            *)
LinkInv == ResetsMeet /\ LinksMeet /\ LinksAreUsedOnce

LEMMA NoNewReset ==
    ASSUME LinkInv, UNCHANGED ofLinks,
           \A q \in Request :
              /\ req'[q].pc = "resetting" => req[q].pc = "resetting" /\ req'[q].link = req[q].link
              /\ req'[q].pc = "linking" => req[q].pc = "linking"
    PROVE  LinkInv'
<1>1. UNCHANGED <<link, resets, shared, crowded>>
    BY DEF ofLinks
<1>2. ResetsMeet'
    BY <1>1 DEF LinkInv, ResetsMeet, At
<1>3. LinksMeet'
    BY <1>1 DEF LinkInv, LinksMeet, At
<1>4. LinksAreUsedOnce'
    BY <1>1 DEF LinkInv, LinksAreUsedOnce
<1> QED
    BY <1>2, <1>3, <1>4 DEF LinkInv

LEMMA RequestResetKeeps ==
    ASSUME TypeOK, LinkInv, NEW q \in Request, RequestReset(q)
    PROVE  LinkInv'
<1> DEFINE new == [Idle EXCEPT !.pc = "linking"]
<1>1. new.pc = "linking"
    BY DEF Idle
<1>2. /\ At(q, "idle") /\ req' = [req EXCEPT ![q] = new] /\ UNCHANGED <<resets, shared>>
      /\ link' = [l \in Link |-> IF link[l] = "open" THEN "consumed" ELSE link[l]]
      /\ crowded' = (crowded \/ \E o \in Request : At(o, "linking"))
    BY DEF RequestReset, Begins
<1> HIDE DEF new
<1>3. \A o \in Request : req'[o] = IF o = q THEN new ELSE req[o]
    BY <1>2, ReqMoves
<1>4. \A l \in Link : link'[l] # "open"
    BY <1>2
<1>5. ResetsMeet'
    BY <1>1, <1>2, <1>3 DEF LinkInv, ResetsMeet, At
<1>6. LinksMeet'
    <2>1. ~crowded' => \A o \in Request : ~At(o, "linking")
        BY <1>2
    <2>2. ~crowded' => \A o \in Request : At(o, "linking")' => o = q
        BY <2>1, <1>3 DEF At
    <2> QED
        BY <1>4, <2>2 DEF LinksMeet
<1>7. LinksAreUsedOnce'
    BY <1>2, <1>4 DEF LinkInv, LinksAreUsedOnce
<1> QED
    BY <1>5, <1>6, <1>7 DEF LinkInv

LEMMA MakeLinkKeeps ==
    ASSUME TypeOK, LinkInv, NEW q \in Request, NEW l \in Link, MakeLink(q, l)
    PROVE  LinkInv'
<1>1. /\ At(q, "linking") /\ link' = [link EXCEPT ![l] = "open"]
      /\ UNCHANGED <<resets, shared, crowded>>
    BY DEF MakeLink
<1>2. \A o \in Request : IF o = q THEN req'[o].pc = "idle" ELSE req'[o] = req[o]
    BY ReqEnds DEF MakeLink
<1>3. \A k \in Link : link'[k] = IF k = l THEN "open" ELSE link[k]
    BY <1>1 DEF TypeOK
<1>4. ResetsMeet'
    BY <1>1, <1>2 DEF LinkInv, ResetsMeet, At
<1>5. ~crowded => \A o \in Request : ~At(o, "linking")'
    BY <1>1, <1>2 DEF LinkInv, LinksMeet, At
<1>6. LinksMeet'
    BY <1>1, <1>5 DEF LinksMeet
<1>7. ~crowded => \A k \in Link : k # l => link'[k] # "open"
    BY <1>1, <1>3 DEF LinkInv, LinksMeet
<1>8. LinksAreUsedOnce'
    BY <1>1, <1>7 DEF LinkInv, LinksAreUsedOnce
<1> QED
    BY <1>4, <1>6, <1>8 DEF LinkInv

LEMMA CompleteResetKeeps ==
    ASSUME TypeOK, LinkInv, NEW q \in Request, NEW l \in Link, CompleteReset(q, l)
    PROVE  LinkInv'
<1> DEFINE new == [Idle EXCEPT !.pc = "resetting", !.link = l]
<1>1. new.pc = "resetting" /\ new.link = l
    BY DEF Idle
<1>2. /\ Usable(l) /\ At(q, "idle") /\ req' = [req EXCEPT ![q] = new]
      /\ UNCHANGED <<link, resets, crowded>>
      /\ shared' = IF \E o \in Request : At(o, "resetting") /\ req[o].link = l
                     THEN shared \union {l} ELSE shared
    BY DEF CompleteReset, Begins
<1> HIDE DEF new
<1>3. \A o \in Request : req'[o] = IF o = q THEN new ELSE req[o]
    BY <1>2, ReqMoves
<1>4. ~(resets[l] > 0)
    BY <1>2 DEF TypeOK, Usable
<1>5. ResetsMeet'
    <2>1. ASSUME NEW o \in Request, o # q, At(o, "resetting"), req[o].link = l PROVE l \in shared'
        BY <1>2, <2>1
    <2>2. ASSUME NEW p \in Request, NEW o \in Request, p # o, At(p, "resetting")', At(o, "resetting")',
                 req'[p].link = req'[o].link
          PROVE  req'[p].link \in shared'
        <3>1. CASE p = q \/ o = q
            BY <1>1, <1>3, <2>1, <2>2, <3>1 DEF At
        <3>2. CASE p # q /\ o # q
            BY <1>2, <1>3, <2>2, <3>2 DEF LinkInv, ResetsMeet, At
        <3> QED
            BY <3>1, <3>2
    <2>3. ASSUME NEW o \in Request, At(o, "resetting")', NEW k, k = req'[o].link, resets[k] > 0
          PROVE  k \in shared'
        <3>1. o # q
            BY <1>1, <1>3, <1>4, <2>3
        <3> QED
            BY <1>2, <1>3, <2>3, <3>1 DEF LinkInv, ResetsMeet, At
    <2> QED
        BY <1>2, <2>2, <2>3 DEF ResetsMeet
<1>6. LinksMeet'
    BY <1>1, <1>2, <1>3 DEF LinkInv, LinksMeet, At
<1>7. LinksAreUsedOnce'
    BY <1>2 DEF LinkInv, LinksAreUsedOnce
<1> QED
    BY <1>5, <1>6, <1>7 DEF LinkInv

LEMMA ResetKeeps ==
    ASSUME TypeOK, LinkInv, NEW q \in Request, Reset(q), NEW l, l = req[q].link
    PROVE  LinkInv'
<1>1. /\ At(q, "resetting") /\ link' = Consumed(l) /\ resets' = [resets EXCEPT ![l] = @ + 1]
      /\ UNCHANGED <<shared, crowded>> /\ Sweeps(q, None)
    BY DEF Reset
<1>2. l \in Link
    BY <1>1 DEF TypeOK
<1>3. /\ \A k \in Link : link'[k] = IF k = l THEN "consumed" ELSE link[k]
      /\ \A k \in Link : resets'[k] = IF k = l THEN resets[k] + 1 ELSE resets[k]
    BY <1>1, <1>2 DEF Consumed, TypeOK
<1>4. \A o \in Request : req'[o].pc \in {"resetting", "linking"} =>
          o # q /\ req'[o].pc = req[o].pc /\ req'[o].link = req[o].link
    BY <1>1, SweepsMoves
<1>5. ResetsMeet'
    <2>1. ASSUME NEW o \in Request, At(o, "resetting")', NEW k, k = req'[o].link, resets'[k] > 0
          PROVE  k \in shared
        <3>1. o # q /\ At(o, "resetting") /\ k = req[o].link
            BY <1>4, <2>1 DEF At
        <3>2. k \in Link
            BY <3>1 DEF TypeOK
        <3>3. CASE k = l
            BY <1>1, <3>1, <3>3 DEF LinkInv, ResetsMeet
        <3>4. CASE k # l
            <4>1. resets[k] > 0
                BY <1>3, <2>1, <3>2, <3>4
            <4> QED
                BY <3>1, <4>1 DEF LinkInv, ResetsMeet
        <3> QED
            BY <3>3, <3>4
    <2>2. ASSUME NEW p \in Request, NEW o \in Request, p # o, At(p, "resetting")', At(o, "resetting")',
                 req'[p].link = req'[o].link
          PROVE  req'[p].link \in shared
        BY <1>4, <2>2 DEF LinkInv, ResetsMeet, At
    <2> QED
        BY <1>1, <2>1, <2>2 DEF ResetsMeet
<1>6. LinksMeet'
    BY <1>1, <1>3, <1>4 DEF LinkInv, LinksMeet, At
<1>7. LinksAreUsedOnce'
    <2>1. ASSUME NEW k \in Link, resets'[k] > 1 PROVE k \in shared
        <3>1. CASE k = l
            <4>1. resets[l] \in Nat /\ resets[l] + 1 > 1
                BY <1>2, <1>3, <2>1, <3>1 DEF TypeOK
            <4>2. resets[l] > 0
                BY <4>1
            <4> QED
                BY <1>1, <3>1, <4>2 DEF LinkInv, ResetsMeet
        <3>2. CASE k # l
            BY <1>3, <2>1, <3>2 DEF LinkInv, LinksAreUsedOnce
        <3> QED
            BY <3>1, <3>2
    <2> QED
        BY <1>1, <1>3, <2>1 DEF LinkInv, LinksAreUsedOnce
<1> QED
    BY <1>5, <1>6, <1>7 DEF LinkInv

LEMMA LinkStep == TypeOK /\ LinkInv /\ [AuthNext]_vars => LinkInv'
<1> SUFFICES ASSUME TypeOK, LinkInv, [AuthNext]_vars PROVE LinkInv'
    OBVIOUS
<1> USE DEF ofTokens
<1>a. ASSUME NEW q \in Request, NEW kept \in Token \union {None}, Sweeps(q, kept), UNCHANGED ofLinks
      PROVE  LinkInv'
    BY <1>a, SweepsMoves, NoNewReset
<1>b. ASSUME NEW q \in Request, Ends(q), UNCHANGED ofLinks PROVE LinkInv'
    BY <1>b, ReqEnds, NoNewReset
<1>1. ASSUME NEW q \in Request, Login(q) PROVE LinkInv'
    <2> DEFINE new == [Idle EXCEPT !.pc = "issuing", !.since = sweeps]
    <2>1. new.pc \notin {"resetting", "linking"}
        BY DEF Idle
    <2>2. req' = [req EXCEPT ![q] = new] /\ UNCHANGED ofLinks
        BY <1>1 DEF Login, Begins
    <2> HIDE DEF new
    <2>3. \A o \in Request : req'[o] = IF o = q THEN new ELSE req[o]
        BY <2>2, ReqMoves
    <2> QED
        BY <2>1, <2>2, <2>3, NoNewReset
<1>2. ASSUME NEW q \in Request, Retire(q) PROVE LinkInv'
    BY <1>2, <1>b DEF Retire
<1>3. ASSUME NEW q \in Request, Alarm(q) PROVE LinkInv'
    BY <1>3, <1>a DEF Alarm
<1>4. ASSUME NEW q \in Request, Change(q) PROVE LinkInv'
    <2>1. req[q].token \in Token \union {None}
        BY RowTypes DEF TypeOK
    <2> QED
        BY <1>4, <1>a, <2>1 DEF Change
<1>5. ASSUME NEW q \in Request, Reset(q) PROVE LinkInv'
    BY <1>5, ResetKeeps
<1>6. ASSUME NEW q \in Request, RequestReset(q) PROVE LinkInv'
    BY <1>6, RequestResetKeeps
<1>7. ASSUME NEW q \in Request, Dies(q) PROVE LinkInv'
    BY <1>7, <1>b DEF Dies
<1>8. ASSUME NEW q \in Request, NEW t \in Token, Refresh(q, t) PROVE LinkInv'
    <2> DEFINE new == [Idle EXCEPT !.pc = "issuing", !.token = t, !.since = token[t].since]
               bad == [Idle EXCEPT !.pc = "alarmed"]
    <2>1. new.pc \notin {"resetting", "linking"} /\ bad.pc \notin {"resetting", "linking"}
        BY DEF Idle
    <2>2. /\ req' = [req EXCEPT ![q] = new] \/ req' = [req EXCEPT ![q] = bad]
          /\ UNCHANGED ofLinks
        BY <1>8 DEF Refresh, Begins
    <2> HIDE DEF new, bad
    <2>3. \/ \A o \in Request : req'[o] = IF o = q THEN new ELSE req[o]
          \/ \A o \in Request : req'[o] = IF o = q THEN bad ELSE req[o]
        BY <2>2, ReqMoves
    <2> QED
        BY <2>1, <2>2, <2>3, NoNewReset
<1>9. ASSUME NEW q \in Request, NEW n \in Token, Issue(q, n) PROVE LinkInv'
    <2>1. CASE req[q].token = None
        BY <1>9, <1>b, <2>1 DEF Issue
    <2>2. CASE req[q].token # None
        <3> DEFINE then == [req[q] EXCEPT !.pc = "retiring"]
        <3>1. req' = [req EXCEPT ![q] = then] /\ UNCHANGED ofLinks
            BY <1>9, <2>2 DEF Issue
        <3>2. then.pc \notin {"resetting", "linking"}
            BY DEF TypeOK, RequestState
        <3> HIDE DEF then
        <3>3. \A o \in Request : req'[o] = IF o = q THEN then ELSE req[o]
            BY <3>1, ReqMoves
        <3> QED
            BY <3>1, <3>2, <3>3, NoNewReset
    <2> QED
        BY <2>1, <2>2
<1>10. ASSUME NEW q \in Request, NEW k \in Token \union {None}, RevokeAllOthers(q, k) PROVE LinkInv'
    BY <1>10, <1>a DEF RevokeAllOthers
<1>11. ASSUME NEW q \in Request, NEW k \in Token \union {None}, ChangePassword(q, k) PROVE LinkInv'
    <2> DEFINE new == [Idle EXCEPT !.pc = "changing", !.token = k]
    <2>1. new.pc \notin {"resetting", "linking"}
        BY DEF Idle
    <2>2. req' = [req EXCEPT ![q] = new] /\ UNCHANGED ofLinks
        BY <1>11 DEF ChangePassword, Begins
    <2> HIDE DEF new
    <2>3. \A o \in Request : req'[o] = IF o = q THEN new ELSE req[o]
        BY <2>2, ReqMoves
    <2> QED
        BY <2>1, <2>2, <2>3, NoNewReset
<1>12. ASSUME NEW q \in Request, NEW l \in Link, MakeLink(q, l) PROVE LinkInv'
    BY <1>12, MakeLinkKeeps
<1>13. ASSUME NEW q \in Request, NEW l \in Link, CompleteReset(q, l) PROVE LinkInv'
    BY <1>13, CompleteResetKeeps
<1>14. ASSUME NEW t \in Token, Revoke(t) PROVE LinkInv'
    BY <1>14, NoNewReset DEF Revoke
<1>15. CASE UNCHANGED vars
    BY <1>15, NoNewReset DEF vars, ofLinks
<1> QED
    BY <1>1, <1>2, <1>3, <1>4, <1>5, <1>6, <1>7, <1>8, <1>9, <1>10, <1>11, <1>12, <1>13, <1>14, <1>15
    DEF AuthNext, Issued

LEMMA LinkInit == AuthInit => LinkInv
<1> SUFFICES ASSUME AuthInit PROVE LinkInv
    OBVIOUS
<1>1. \A q \in Request : req[q].pc = "idle"
    BY DEF AuthInit, Idle
<1>2. \A l \in Link : link[l] = "none" /\ ~(resets[l] > 1)
    BY DEF AuthInit
<1> QED
    BY <1>1, <1>2 DEF LinkInv, ResetsMeet, LinksMeet, LinksAreUsedOnce, At

(* A link resets twice only if both resets had read it before either was   *)
(* done; two links are open only if two requests for one met.              *)
THEOREM LinksWorkOnce == Spec => []LinksAreUsedOnce
<1>1. TypeOK /\ LinkInv /\ [AuthNext]_vars => (TypeOK /\ LinkInv)'
    BY TypeStep, LinkStep
<1>2. LinkInv => LinksAreUsedOnce
    BY DEF LinkInv
<1> QED
    BY <1>1, <1>2, TypeInit, LinkInit, PTL DEF Spec
=============================================================================
