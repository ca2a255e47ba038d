--------------------------- MODULE BrowserSession ---------------------------
(***************************************************************************)
(* One user's browser: tabs that share one stored pair of tokens, refresh  *)
(* it when a request is answered 401, log in and log out, against the      *)
(* sessions of AuthSessions over a network that loses answers.             *)
(*                                                                         *)
(* A pair is named by its session.  A tab has one refresh under way at     *)
(* most: the requests of a tab share it.                                   *)
(***************************************************************************)
EXTENDS AuthSessions

CONSTANTS
  Tabs,
  MaxLosses,    \* bound: answers and requests lost or too late
  MaxRefusals   \* bound: 401 answers to ordinary requests

VARIABLES
  stored,    \* the pair in localStorage, or NoSession
  tab,       \* Tabs -> where the tab's refresh or logout stands
  stray,     \* tokens in requests the server gets after the tab gave up
  losses, refusals,
  webLocks   \* the browser serialises refreshes with navigator.locks

vars == <<session, password, stored, tab, stray, losses, refusals, webLocks>>

ASSUME BrowserConstants ==
  MaxLosses \in Nat /\ MaxRefusals \in Nat

(* waiting for the lock; sent, granted, denied: the refresh request; grace:
   the 200 ms after a denial; failed: the refresh returned no token;
   leaving, left: logout before and after its request. *)
Refreshing == {"sent", "granted", "denied", "grace"}
Phases == {"idle", "waiting", "failed", "leaving", "left"} \union Refreshing

Tab == [phase: Phases, seen: Sessions \union {NoSession},
        reply: Sessions \union {NoSession}]

Idle == [phase |-> "idle", seen |-> NoSession, reply |-> NoSession]

Goto(x, phase) == tab' = [tab EXCEPT ![x].phase = phase]

(* Return the token in the store, whatever it is by now: none is a failure. *)
ReturnStored(x) ==
  tab' = [tab EXCEPT ![x] = IF stored = NoSession
                            THEN [Idle EXCEPT !.phase = "failed"] ELSE Idle]

-----------------------------------------------------------------------------
(* A refresh *)

(* A request was answered 401: its access token is too old, or is not the
   stored one any more.  The refresh observes the stored token. *)
Refused(x) ==
  /\ tab[x].phase = "idle"
  /\ stored # NoSession
  /\ refusals < MaxRefusals
  /\ refusals' = refusals + 1
  /\ tab' = [tab EXCEPT ![x] = [Idle EXCEPT !.phase = "waiting", !.seen = stored]]
  /\ UNCHANGED <<session, password, stored, stray, losses>>

LockFree == \A y \in Tabs : tab[y].phase \notin Refreshing

(* Slip: the observed token is sent without reading the store again. *)
PostObserved(x) ==
  /\ tab[x].phase = "waiting"
  /\ webLocks => LockFree
  /\ Goto(x, "sent")
  /\ UNCHANGED <<session, password, stored, stray, losses, refusals>>

(* Under the lock the store is read again: another tab may have finished. *)
Post(x) ==
  /\ tab[x].phase = "waiting"
  /\ webLocks => LockFree
  /\ IF stored = NoSession THEN Goto(x, "failed")
     ELSE IF stored # tab[x].seen THEN tab' = [tab EXCEPT ![x] = Idle]
     ELSE Goto(x, "sent")
  /\ UNCHANGED <<session, password, stored, stray, losses, refusals>>

(* The server rotates the session, or answers 401. *)
Serve(x, t) ==
  /\ tab[x].phase = "sent"
  /\ \/ /\ Refresh(tab[x].seen, t)
        /\ tab' = [tab EXCEPT ![x].phase = "granted", ![x].reply = t]
     \/ /\ Denied(tab[x].seen)
        /\ Goto(x, "denied")
        /\ UNCHANGED <<session, password>>
  /\ UNCHANGED <<stored, stray, losses, refusals>>

(* Slip: only the access token is replaced. *)
GrantedAccessOnly(x) ==
  /\ tab[x].phase = "granted"
  /\ tab' = [tab EXCEPT ![x] = Idle]
  /\ UNCHANGED <<session, password, stored, stray, losses, refusals>>

Granted(x) ==
  /\ tab[x].phase = "granted"
  /\ stored' = tab[x].reply
  /\ tab' = [tab EXCEPT ![x] = Idle]
  /\ UNCHANGED <<session, password, stray, losses, refusals>>

RefreshDenied(x) ==
  /\ tab[x].phase = "denied"
  /\ IF stored # tab[x].seen THEN ReturnStored(x) ELSE Goto(x, "grace")
  /\ UNCHANGED <<session, password, stored, stray, losses, refusals>>

GraceEnds(x) ==
  /\ tab[x].phase = "grace"
  /\ IF stored # tab[x].seen THEN ReturnStored(x) /\ UNCHANGED stored
     ELSE stored' = NoSession /\ Goto(x, "failed")
  /\ UNCHANGED <<session, password, stray, losses, refusals>>

(* Slip: the denied tab keeps the lock while it shows the sign-in page. *)
FailedLocked(x) ==
  /\ tab[x].phase = "failed"
  /\ LockFree
  /\ stored' = NoSession
  /\ Goto(x, "grace")
  /\ UNCHANGED <<session, password, stray, losses, refusals>>

(* handleRefreshFailure clears whatever is stored by now; the tab goes to
   the sign-in page. *)
Failed(x) ==
  /\ tab[x].phase = "failed"
  /\ stored' = NoSession
  /\ tab' = [tab EXCEPT ![x] = Idle]
  /\ UNCHANGED <<session, password, stray, losses, refusals>>

Lose == losses < MaxLosses /\ losses' = losses + 1

(* The request gets no answer within its timeout: it is lost, or its answer
   is, or the server still has it.  The stored pair is kept. *)
NetworkFails(x) ==
  /\ Lose
  /\ tab[x].phase \in {"sent", "granted", "denied"}
  /\ stray' \in {stray} \union
       (IF tab[x].phase = "sent" THEN {stray \union {tab[x].seen}} ELSE {})
  /\ IF stored # tab[x].seen THEN ReturnStored(x)
     ELSE tab' = [tab EXCEPT ![x] = Idle]
  /\ UNCHANGED <<session, password, stored, refusals>>

(* The server answers 5xx ((bound) it has no session id left). *)
ServerFails(x) ==
  /\ tab[x].phase = "sent"
  /\ \A t \in Sessions : ~Absent(t)
  /\ IF stored # tab[x].seen THEN ReturnStored(x)
     ELSE tab' = [tab EXCEPT ![x] = Idle]
  /\ UNCHANGED <<session, password, stored, stray, losses, refusals>>

ServeStray(s, t) ==
  /\ s \in stray
  /\ stray' = stray \ {s}
  /\ \/ Refresh(s, t)
     \/ Denied(s) /\ UNCHANGED <<session, password>>
  /\ UNCHANGED <<stored, tab, losses, refusals>>

-----------------------------------------------------------------------------
(* Signing in and out *)

SignIn(x, s) ==
  /\ tab[x].phase = "idle"
  /\ stored = NoSession
  /\ Login(s, password)
  /\ stored' = s
  /\ UNCHANGED <<tab, stray, losses, refusals>>

(* logout reads the stored token, posts it and ignores every error. *)
Leave(x) ==
  /\ tab[x].phase = "idle"
  /\ stored # NoSession
  /\ tab' = [tab EXCEPT ![x] = [Idle EXCEPT !.phase = "leaving", !.seen = stored]]
  /\ UNCHANGED <<session, password, stored, stray, losses, refusals>>

ServeLogout(x) ==
  /\ tab[x].phase = "leaving"
  /\ \/ Logout(tab[x].seen)
     \/ Denied(tab[x].seen) /\ UNCHANGED <<session, password>>
  /\ Goto(x, "left")
  /\ UNCHANGED <<stored, stray, losses, refusals>>

LogoutFails(x) ==
  /\ Lose
  /\ tab[x].phase = "leaving"
  /\ Goto(x, "left")
  /\ UNCHANGED <<session, password, stored, stray, refusals>>

Left(x) ==
  /\ tab[x].phase = "left"
  /\ stored' = NoSession
  /\ tab' = [tab EXCEPT ![x] = Idle]
  /\ UNCHANGED <<session, password, stray, losses, refusals>>

SessionExpires(s) ==
  Expires(s) /\ UNCHANGED <<stored, tab, stray, losses, refusals>>

-----------------------------------------------------------------------------
Init ==
  /\ AuthInit
  /\ stored = NoSession
  /\ tab = [x \in Tabs |-> Idle]
  /\ stray = {}
  /\ losses = 0 /\ refusals = 0
  /\ webLocks \in BOOLEAN

Progress(x) ==
  \/ Post(x)
  \/ \E t \in Sessions : Serve(x, t)
  \/ ServerFails(x)
  \/ Granted(x) \/ RefreshDenied(x) \/ GraceEnds(x) \/ Failed(x)
  \/ ServeLogout(x) \/ Left(x)

Next ==
  /\ \/ \E x \in Tabs : \/ Progress(x)
                        \/ Refused(x) \/ Leave(x)
                        \/ \E s \in Sessions : SignIn(x, s)
                        \/ NetworkFails(x) \/ LogoutFails(x)
     \/ \E s \in Sessions : SessionExpires(s) \/ \E t \in Sessions : ServeStray(s, t)
  /\ UNCHANGED webLocks

(* Answers arrive or time out, timers fire, a free lock is granted. *)
Fairness == \A x \in Tabs : WF_vars(Progress(x) /\ UNCHANGED webLocks)

Spec == Init /\ [][Next]_vars
FairSpec == Spec /\ Fairness

-----------------------------------------------------------------------------
(* Properties *)

(* Under Web Locks and while no answer is lost, tabs that refresh at once
   never present a token that was rotated away: a denial means that the
   session has expired or was logged out, never that two tabs raced. *)
DeniedIsOver ==
  webLocks /\ losses = 0
  => \A x \in Tabs :
       tab[x].phase \in {"denied", "grace"}
       => session[tab[x].seen].successor = NoSession

(* While no answer is lost, the stored pair is the newest of its family:
   either nobody has rotated it or the answer is on its way to a tab. *)
StoredNewest ==
  losses = 0 /\ stored # NoSession /\ session[stored].successor # NoSession
  => \E x \in Tabs : /\ tab[x].phase = "granted"
                     /\ tab[x].reply = session[stored].successor

(* A refresh that has been started comes to an end in its tab. *)
RefreshEnds == \A x \in Tabs : tab[x].phase = "waiting" ~> tab[x].phase = "idle"
=============================================================================
