---------------------------- MODULE AuthSessions ----------------------------
(***************************************************************************)
(* The sessions of one user: refresh tokens (auth.service.ts) and password *)
(* reset links (password-reset.service.ts).  A request is a sequence of    *)
(* statements on the rows, hashes between them take long, and only what is *)
(* in one $transaction happens at once.                                    *)
(***************************************************************************)
EXTENDS Naturals

CONSTANTS
    Request,    \* requests served at a time
    None,
    MaxTokens,  \* bound: tokens issued
    MaxLinks,   \* bound: reset links made
    MaxSweeps,  \* bound: times that all sessions, or all others, are ended
    MaxFaults   \* bound: requests that die half-way

Token == 1 .. MaxTokens
Link == 1 .. MaxLinks

ASSUME AuthAssumption ==
    /\ MaxTokens \in Nat /\ MaxLinks \in Nat
    /\ MaxSweeps \in Nat /\ MaxFaults \in Nat
    /\ None \notin Token \union Link

VARIABLES
    token,     \* RefreshToken rows: state, the token rotated, the sweep of its login
    link,      \* PasswordReset rows
    sweeps,    \* history: sweeps so far
    req,
    spared,    \* history: tokens a sweep kept, or overtook, and their successors
    contested, \* history: tokens read for a refresh while another one went on
    torn,      \* history: tokens whose refresh died before it retired them
    resets,    \* history: resets done with each link
    shared,    \* history: links read while another reset with it went on
    crowded,   \* history: two requests for a link met
    faults

vars == <<token, link, sweeps, req, spared, contested, torn, resets, shared, crowded, faults>>
ofTokens == <<token, sweeps, spared, contested, torn>>
ofLinks == <<link, resets, shared, crowded>>

Idle == [pc |-> "idle", token |-> None, since |-> 0, link |-> None, late |-> FALSE]
NoToken == [state |-> "none", from |-> None, since |-> 0]

AuthInit ==
    /\ token = [t \in Token |-> NoToken]
    /\ link = [l \in Link |-> "none"]
    /\ sweeps = 0
    /\ req = [q \in Request |-> Idle]
    /\ spared = {} /\ contested = {} /\ torn = {}
    /\ resets = [l \in Link |-> 0]
    /\ shared = {} /\ crowded = FALSE
    /\ faults = 0

Issued == {t \in Token : token[t].state # "none"}
Live(t) == token[t].state = "live"
At(q, pc) == req[q].pc = pc
Begins(q, new) == At(q, "idle") /\ req' = [req EXCEPT ![q] = new]
Ends(q) == req' = [req EXCEPT ![q] = Idle]

----------------------------------------------------------------------------
(* login: the password is verified, long before the token is issued; or    *)
(* another provider has vouched for the user (issueSessionForUser).        *)
Login(q) ==
    /\ Begins(q, [Idle EXCEPT !.pc = "issuing", !.since = sweeps])
    /\ UNCHANGED <<ofTokens, ofLinks, faults>>

(* refresh: an unrevoked token is rotated: the next is issued, then this   *)
(* one retired.  One that is revoked ends all sessions.                    *)
Rotates(t) == {q \in Request : req[q].pc \in {"issuing", "retiring"} /\ req[q].token = t}
RefreshableOnceIssued(t) == t \in Issued
Refreshable(t) == Live(t)

Refresh(q, t) ==
    /\ t \in Issued
    /\ \/ /\ Refreshable(t)
          /\ Begins(q, [Idle EXCEPT !.pc = "issuing", !.token = t, !.since = token[t].since])
          /\ contested' = IF Rotates(t) = {} THEN contested ELSE contested \union {t}
       \/ /\ ~Refreshable(t)
          /\ Begins(q, [Idle EXCEPT !.pc = "alarmed"])
          /\ UNCHANGED contested
    /\ UNCHANGED <<token, sweeps, spared, torn, ofLinks, faults>>

Issue(q, t) ==
    LET from == req[q].token IN
    /\ At(q, "issuing")
    /\ t \notin Issued /\ \A u \in Token : u < t => u \in Issued
    /\ token' = [token EXCEPT ![t] = [state |-> "live", from |-> from, since |-> req[q].since]]
    /\ spared' = IF req[q].late \/ from \in spared THEN spared \union {t} ELSE spared
    /\ IF from = None THEN Ends(q) ELSE req' = [req EXCEPT ![q].pc = "retiring"]
    /\ UNCHANGED <<sweeps, contested, torn, ofLinks, faults>>

RevokedOnly(t) == [token EXCEPT ![t].state = "revoked"]
ReplacedOnly(t) == token
Retired(t) == RevokedOnly(t)
Retire(q) ==
    /\ At(q, "retiring")
    /\ token' = Retired(req[q].token)
    /\ Ends(q)
    /\ UNCHANGED <<sweeps, spared, contested, torn, ofLinks, faults>>

(* logout, and the revocation of one session from the list.                *)
Revoke(t) ==
    /\ Live(t)
    /\ token' = RevokedOnly(t)
    /\ UNCHANGED <<sweeps, req, spared, contested, torn, ofLinks, faults>>

----------------------------------------------------------------------------
(* A sweep ends every session but the one kept, if any.  It overtakes the  *)
(* requests that have been let in and have not issued their token yet.     *)
SweptButTheLatest(kept) ==
    [t \in Token |->
        IF Live(t) /\ t # kept /\ \E u \in Token : u > t /\ Live(u)
          THEN [token[t] EXCEPT !.state = "revoked"] ELSE token[t]]
Swept(kept) ==
    [t \in Token |->
        IF Live(t) /\ t # kept THEN [token[t] EXCEPT !.state = "revoked"] ELSE token[t]]

Sweeps(q, kept) ==
    /\ sweeps < MaxSweeps
    /\ sweeps' = sweeps + 1
    /\ token' = Swept(kept)
    /\ spared' = spared \union ({kept} \intersect {t \in Token : Live(t)})
    /\ req' = [o \in Request |->
           IF o = q THEN Idle
           ELSE IF At(o, "issuing") THEN [req[o] EXCEPT !.late = TRUE] ELSE req[o]]
    /\ UNCHANGED <<contested, torn>>

Alarm(q) ==
    /\ At(q, "alarmed")
    /\ Sweeps(q, None)
    /\ UNCHANGED <<ofLinks, faults>>

RevokeAllOthers(q, kept) ==
    /\ At(q, "idle")
    /\ Sweeps(q, kept)
    /\ UNCHANGED <<ofLinks, faults>>

(* changePassword: the old password is verified, the new one hashed; then  *)
(* it is stored and the other sessions swept, in one transaction.          *)
ChangePassword(q, kept) ==
    /\ Begins(q, [Idle EXCEPT !.pc = "changing", !.token = kept])
    /\ UNCHANGED <<ofTokens, ofLinks, faults>>

Change(q) ==
    /\ At(q, "changing")
    /\ Sweeps(q, req[q].token)
    /\ UNCHANGED <<ofLinks, faults>>

----------------------------------------------------------------------------
(* requestReset: outstanding links are used up, and one is made.           *)
RequestReset(q) ==
    /\ Begins(q, [Idle EXCEPT !.pc = "linking"])
    /\ link' = [l \in Link |-> IF link[l] = "open" THEN "consumed" ELSE link[l]]
    /\ crowded' = (crowded \/ \E o \in Request : At(o, "linking"))
    /\ UNCHANGED <<ofTokens, resets, shared, faults>>

MakeLink(q, l) ==
    /\ At(q, "linking")
    /\ link[l] = "none" /\ \A k \in Link : k < l => link[k] # "none"
    /\ link' = [link EXCEPT ![l] = "open"]
    /\ Ends(q)
    /\ UNCHANGED <<ofTokens, resets, shared, crowded, faults>>

(* completeReset: the link is read, the password hashed, and then the link *)
(* is used up, the password stored and every session swept.                *)
UsableOnceMade(l) == link[l] # "none"
Usable(l) == link[l] = "open"
CompleteReset(q, l) ==
    /\ Usable(l)
    /\ Begins(q, [Idle EXCEPT !.pc = "resetting", !.link = l])
    /\ shared' = IF \E o \in Request : At(o, "resetting") /\ req[o].link = l
                   THEN shared \union {l}
                   ELSE shared
    /\ UNCHANGED <<ofTokens, link, resets, crowded, faults>>

NotConsumed(l) == link
Consumed(l) == [link EXCEPT ![l] = "consumed"]
Reset(q) ==
    LET l == req[q].link IN
    /\ At(q, "resetting")
    /\ link' = Consumed(l)
    /\ resets' = [resets EXCEPT ![l] = @ + 1]
    /\ Sweeps(q, None)
    /\ UNCHANGED <<shared, crowded, faults>>

(* A statement fails or the process dies; what was committed stays.        *)
Dies(q) ==
    /\ ~At(q, "idle")
    /\ faults < MaxFaults
    /\ faults' = faults + 1
    /\ torn' = IF At(q, "retiring") THEN torn \union {req[q].token} ELSE torn
    /\ Ends(q)
    /\ UNCHANGED <<token, sweeps, spared, contested, ofLinks>>

AuthNext ==
    \/ \E q \in Request :
          \/ Login(q) \/ Retire(q) \/ Alarm(q) \/ Change(q) \/ Reset(q)
          \/ RequestReset(q) \/ Dies(q)
          \/ \E t \in Token : Refresh(q, t) \/ Issue(q, t)
          \/ \E kept \in Issued \union {None} : RevokeAllOthers(q, kept) \/ ChangePassword(q, kept)
          \/ \E l \in Link : MakeLink(q, l) \/ CompleteReset(q, l)
    \/ \E t \in Token : Revoke(t)

Spec == AuthInit /\ [][AuthNext]_vars

----------------------------------------------------------------------------
TokenRow ==
    [state : {"none", "live", "revoked"}, from : Token \union {None}, since : Nat]
RequestState ==
    [pc : {"idle", "issuing", "retiring", "alarmed", "changing", "linking", "resetting"},
     token : Token \union {None}, since : Nat, link : Link \union {None}, late : BOOLEAN]

(* Types; a link that has reset the password is used up.                   *)
TypeOK ==
    /\ \A l \in Link : resets[l] > 0 => link[l] = "consumed"
    /\ token \in [Token -> TokenRow]
    /\ link \in [Link -> {"none", "open", "consumed"}]
    /\ sweeps \in Nat
    /\ req \in [Request -> RequestState]
    /\ \A q \in Request : At(q, "retiring") => req[q].token \in Token
    /\ \A q \in Request : At(q, "resetting") => req[q].link \in Link
    /\ spared \subseteq Token /\ contested \subseteq Token /\ torn \subseteq Token
    /\ resets \in [Link -> Nat]
    /\ shared \subseteq Link
    /\ crowded \in BOOLEAN
    /\ faults \in Nat

Successors(t) == {n \in Issued : token[n].from = t}

(* The next token is issued before the old one is retired: both work in    *)
(* between, and for good if the request dies there; never otherwise.       *)
RotatedTokensAreRetired ==
    \A t \in Token :
        Live(t) /\ Successors(t) # {} =>
            t \in torn \/ \E q \in Request : At(q, "retiring") /\ req[q].token = t

(* One login stays one line of tokens.  A token has two successors only if *)
(* two refreshes with it met, or the first one died half-way.              *)
ForksComeFromOverlaps ==
    \A t \in Token : \A m, n \in Successors(t) : m # n => t \in contested \union torn

(* "Kicks" every other session: a token that works although its login is   *)
(* older than the last sweep is the one kept, was about to be issued when  *)
(* the sweep came, or descends from such a token.                          *)
SurvivorsWereSpared ==
    \A t \in Token : Live(t) /\ token[t].since # sweeps => t \in spared

(* "can only be used once": a link resets twice only if both had read it   *)
(* before either was done, and a new link leaves no other unless two       *)
(* requests for one met.                                                   *)
LinksAreUsedOnce ==
    /\ \A l \in Link : resets[l] > 1 => l \in shared
    /\ \A k, l \in Link : k # l /\ link[k] = "open" /\ link[l] = "open" => crowded
=============================================================================
