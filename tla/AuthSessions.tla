---------------------------- MODULE AuthSessions ----------------------------
(***************************************************************************)
(* The database side of a sign-in: the rows of auth_sessions, the          *)
(* transactions that issue, rotate and revoke them, and the trigger that   *)
(* checks every change of state.  A transaction is one action; inside it   *)
(* the statements are written one by one, because the trigger judges each  *)
(* of them on the rows the one before it has left.                         *)
(*                                                                         *)
(* A session stands for its handle and for the pair of tokens that carries *)
(* it.  SessionOutbox adds the cache, BrowserSession the browser's tabs.   *)
(***************************************************************************)
EXTENDS Integers, Sequences

CONSTANTS
  Sessions,
  NoSession,
  MaxPasswords   \* bound: changes of the password

VARIABLES
  session,   \* Sessions -> row of auth_sessions
  password   \* version of the user's password

authVars == <<session, password>>

ASSUME AuthConstants == NoSession \notin Sessions /\ MaxPasswords \in Nat

States == {"absent", "pending", "active", "rotating", "revoked", "expired"}
Final == {"revoked", "expired"}

Row ==
  [state: States, family: Sessions \union {NoSession},
   predecessor: Sessions \union {NoSession},
   successor: Sessions \union {NoSession},
   passed: BOOLEAN, password: 0..MaxPasswords]

NoRow ==
  [state |-> "absent", family |-> NoSession, predecessor |-> NoSession,
   successor |-> NoSession, passed |-> FALSE, password |-> 0]

Absent(s) == session[s].state = "absent"

(* lock_active_unexpired_by_refresh_hash_tx, find_active_unexpired_by_handle *)
Usable(s) == session[s].state = "active" /\ ~session[s].passed

-----------------------------------------------------------------------------
(* The statements: each maps the table to the table. *)

Pending(db, s, family, predecessor, version) ==
  [db EXCEPT ![s] = [state |-> "pending", family |-> family,
                     predecessor |-> predecessor, successor |-> NoSession,
                     passed |-> FALSE, password |-> version]]

Activated(db, s) == [db EXCEPT ![s].state = "active"]

Rotating(db, s) == [db EXCEPT ![s].state = "rotating"]

Superseded(db, s, t) == [db EXCEPT ![s].state = "revoked", ![s].successor = t]

Revoked(db, s) == [db EXCEPT ![s].state = "revoked"]

(* What complete_rotation_tx asks of the two rows. *)
Completes(db, s, t) ==
  /\ s # t
  /\ db[s].state = "rotating" /\ ~db[s].passed
  /\ db[t].state = "pending" /\ ~db[t].passed
  /\ db[t].predecessor = s
  /\ db[s].successor \in {NoSession, t}
  /\ db[s].family = db[t].family

(* The trigger enforce_auth_session_transition on row s becoming r. *)
Accepts(db, s, r) ==
  LET o == db[s]
      Linked == /\ db[r.successor].state = "pending"
                /\ db[r.successor].predecessor = s
                /\ db[r.successor].family = o.family
                /\ ~db[r.successor].passed
      Rotated == /\ db[r.predecessor].state = "revoked"
                 /\ db[r.predecessor].successor = s
                 /\ db[r.predecessor].family = r.family
                 /\ ~db[r.predecessor].passed
  IN /\ o.state = "pending" /\ o.predecessor # NoSession
        => r.predecessor = o.predecessor
     /\ r.successor \notin {o.successor, NoSession}
        => o.state = "rotating" /\ r.state = "revoked" /\ Linked
     /\ \/ r.state = o.state
        \/ /\ o.state = "pending" /\ r.state = "active" /\ ~r.passed
           /\ r.predecessor = NoSession \/ Rotated
        \/ o.state = "active" /\ r.state \in {"rotating"} \union Final
        \/ o.state \in {"pending", "rotating"} /\ r.state \in Final

-----------------------------------------------------------------------------
(* The transactions, as the tables they go through *)

Issuance(s, version) ==
  LET pending == Pending(session, s, s, NoSession, version)
  IN <<session, pending, Activated(pending, s)>>

(* Slip: the successor is activated before its predecessor is revoked. *)
RotationSwapped(s, t) ==
  LET rotating == Rotating(session, s)
      pending == Pending(rotating, t, session[s].family, s, session[s].password)
      active == Activated(pending, t)
  IN <<session, rotating, pending, active, Superseded(active, s, t)>>

Rotation(s, t) ==
  LET rotating == Rotating(session, s)
      pending == Pending(rotating, t, session[s].family, s, session[s].password)
      linked == Superseded(pending, s, t)
  IN <<session, rotating, pending, linked, Activated(linked, t)>>

Revocation(s) == <<session, Revoked(session, s)>>

Commit(statements) == session' = statements[Len(statements)]

(* A login or a registration: the password was verified before the
   transaction began, perhaps against an older hash. *)
Login(s, version) ==
  /\ Absent(s)
  /\ version \in 0..password
  /\ Commit(Issuance(s, version))
  /\ UNCHANGED password

(* Slip: the row is looked up by its hash alone. *)
RefreshAnyState(s, t) ==
  /\ ~Absent(s)
  /\ Absent(t)
  /\ Commit(Rotation(s, t))
  /\ UNCHANGED password

Refresh(s, t) ==
  /\ Usable(s)
  /\ Absent(t)
  /\ Completes(Rotation(s, t)[3], s, t)
  /\ Commit(Rotation(s, t))
  /\ UNCHANGED password

(* A refresh with any other token changes no row. *)
Denied(s) == ~Usable(s)

(* Logging out revokes the session of the token, if it is usable. *)
Logout(s) ==
  /\ Usable(s)
  /\ Commit(Revocation(s))
  /\ UNCHANGED password

ChangePassword ==
  /\ password < MaxPasswords
  /\ password' = password + 1
  /\ UNCHANGED session

(* expires_at passes; nobody writes the row. *)
Expires(s) ==
  /\ ~Absent(s)
  /\ ~session[s].passed
  /\ session' = [session EXCEPT ![s].passed = TRUE]
  /\ UNCHANGED password

AuthInit == session = [s \in Sessions |-> NoRow] /\ password = 0

AuthNext ==
  \/ \E s \in Sessions :
       \/ \E version \in 0..MaxPasswords : Login(s, version)
       \/ \E t \in Sessions : Refresh(s, t)
       \/ Logout(s)
       \/ Expires(s)
  \/ ChangePassword

AuthSpec == AuthInit /\ [][AuthNext]_authVars

-----------------------------------------------------------------------------
(* Properties *)

(* The values of the rows. *)
AuthTypeOK == session \in [Sessions -> Row] /\ password \in 0..MaxPasswords

(* The partial unique index is never hit: a family has at most one active
   session, however many clients refresh it at once. *)
OneActive ==
  \A s, t \in Sessions :
    session[s].state = "active" /\ session[t].state = "active"
    /\ session[s].family = session[t].family
    => s = t

(* The rows of a family form one chain: links are mutual and stay in the
   family, whatever has a successor is revoked, and only the end of a chain
   can authenticate. *)
ChainSound ==
  \A s \in Sessions :
    LET p == session[s].predecessor
        n == session[s].successor
    IN /\ ~Absent(s) /\ p = NoSession => session[s].family = s
       /\ p # NoSession => /\ session[p].successor = s
                           /\ session[p].family = session[s].family
                           /\ session[p].state = "revoked"
       /\ n # NoSession => /\ session[n].predecessor = s
                           /\ session[s].state = "revoked"

Legal(statements) ==
  \A i \in 1 .. Len(statements) - 1 :
    \A s \in Sessions :
      LET old == statements[i][s]
          new == statements[i + 1][s]
      IN old # new /\ old.state # "absent" => Accepts(statements[i], s, new)

(* No transaction ever fails on the trigger or on the checks of
   complete_rotation_tx ("auth session rotation invariant failed"). *)
TransactionsAccepted ==
  \A s \in Sessions :
    /\ Usable(s) => Legal(Revocation(s))
    /\ Absent(s) => Legal(Issuance(s, password))
    /\ \A t \in Sessions :
         Usable(s) /\ Absent(t)
         => Legal(Rotation(s, t)) /\ Completes(Rotation(s, t)[3], s, t)

(* The table implements families with one holder: a token that was rotated
   away or revoked never authenticates again. *)
Family(f) ==
  {s \in Sessions : session[s].state = "active" /\ session[s].family = f}
HolderOf == [f \in Sessions |->
               IF Family(f) = {} THEN NoSession ELSE CHOOSE s \in Family(f) : TRUE]
Families ==
  INSTANCE SessionFamily
  WITH holder <- HolderOf,
       former <- {s \in Sessions : session[s].state \in Final}
FamilySpec == Families!Spec
=============================================================================
