--------------------------- MODULE SessionProofs ---------------------------
(***************************************************************************)
(* Proofs about the sign-in sessions.                                      *)
(*                                                                         *)
(* Of AuthSessions, for any set of sessions: one active session per        *)
(* family, sound chains, transactions the trigger never refuses, and the   *)
(* refinement of SessionFamily.                                            *)
(*                                                                         *)
(* Of BrowserSession, for any number of tabs and sessions: StoredNewest    *)
(* and DeniedIsOver.  Both rest on who may still know a session: while no  *)
(* answer is lost, the successor of a rotation is known to the tab it was  *)
(* granted to and to nobody else, until that tab stores it.  The database  *)
(* contributes AuthInv: the rows of a family form one chain, and what has  *)
(* a successor is revoked.                                                 *)
(*                                                                         *)
(* Of SessionOutbox, for any number of sessions, workers and faults:       *)
(* InvalidateLasts.  A session has its invalidate as soon as it is         *)
(* revoked; from then on nobody sets its key, but for those who had read   *)
(* the session before, which InvalidateLasts excepts.                      *)
(***************************************************************************)
EXTENDS BrowserSession, SessionOutbox, TLAPS

(* What OneActive and ChainSound need to be inductive: a committed row is
   absent, active or revoked, an absent row is blank, and the session that
   opened a family exists as long as the family has a row. *)
Committed ==
  \A s \in Sessions :
    /\ session[s].state \in {"absent", "active", "revoked"}
    /\ Absent(s) => session[s] = NoRow
    /\ ~Absent(s) => /\ session[s].family \in Sessions
                     /\ ~Absent(session[s].family)

AuthInv == AuthTypeOK /\ Committed /\ OneActive /\ ChainSound

-----------------------------------------------------------------------------
(* What each transaction leaves behind *)

(* A new row before and after its activation. *)
PendingRow(family, predecessor, version) ==
  [state |-> "pending", family |-> family, predecessor |-> predecessor,
   successor |-> NoSession, passed |-> FALSE, password |-> version]

NewRow(family, predecessor, version) ==
  [PendingRow(family, predecessor, version) EXCEPT !.state = "active"]

(* Only the rows in changed differ from the table before. *)
Elsewhere(changed) ==
  \A x \in Sessions \ changed : session'[x] = session[x]

(* The insertion of a pending row. *)
LEMMA PendingEffect ==
  ASSUME NEW db \in [Sessions -> Row], NEW s \in Sessions,
         NEW family \in Sessions, NEW predecessor \in Sessions \union {NoSession},
         NEW version \in 0..MaxPasswords
  PROVE  /\ Pending(db, s, family, predecessor, version) \in [Sessions -> Row]
         /\ Pending(db, s, family, predecessor, version)[s]
              = PendingRow(family, predecessor, version)
         /\ \A x \in Sessions \ {s} :
              Pending(db, s, family, predecessor, version)[x] = db[x]
<1>1. PendingRow(family, predecessor, version) \in Row
  BY DEF PendingRow, Row, States
<1>2. Pending(db, s, family, predecessor, version)
        = [db EXCEPT ![s] = PendingRow(family, predecessor, version)]
  BY DEF Pending, PendingRow
<1> QED
  BY <1>1, <1>2

(* Its activation. *)
LEMMA ActivatedEffect ==
  ASSUME NEW db \in [Sessions -> Row], NEW s \in Sessions,
         NEW family \in Sessions, NEW predecessor \in Sessions \union {NoSession},
         NEW version \in 0..MaxPasswords,
         db[s] = PendingRow(family, predecessor, version)
  PROVE  /\ Activated(db, s) \in [Sessions -> Row]
         /\ Activated(db, s)[s] = NewRow(family, predecessor, version)
         /\ \A x \in Sessions \ {s} : Activated(db, s)[x] = db[x]
<1>1. [db[s] EXCEPT !.state = "active"] = NewRow(family, predecessor, version)
  BY DEF NewRow
<1>2. NewRow(family, predecessor, version) \in Row
  BY DEF NewRow, PendingRow, Row, States
<1>3. Activated(db, s) = [db EXCEPT ![s] = NewRow(family, predecessor, version)]
  BY <1>1 DEF Activated
<1> QED
  BY <1>2, <1>3

LEMMA LoginEffect ==
  ASSUME AuthTypeOK, NEW s \in Sessions, NEW version \in 0..MaxPasswords,
         Login(s, version)
  PROVE  /\ session' \in [Sessions -> Row]
         /\ session'[s] = NewRow(s, NoSession, version)
         /\ Elsewhere({s})
<1> DEFINE pending == Pending(session, s, s, NoSession, version)
<1>1. session' = Issuance(s, version)[3]
  BY DEF Login, Commit, Issuance
<1>2. session' = Activated(pending, s)
  BY <1>1 DEF Issuance
<1>3. /\ pending \in [Sessions -> Row]
      /\ pending[s] = PendingRow(s, NoSession, version)
      /\ \A x \in Sessions \ {s} : pending[x] = session[x]
  <2>1. PendingRow(s, NoSession, version) \in Row
    BY DEF PendingRow, Row, States
  <2>2. pending = [session EXCEPT ![s] = PendingRow(s, NoSession, version)]
    BY DEF Pending, PendingRow
  <2> QED
    BY <2>1, <2>2 DEF AuthTypeOK
<1> HIDE DEF pending
<1> QED
  BY <1>2, <1>3, ActivatedEffect DEF Elsewhere

(* The tables a rotation goes through, after the first. *)
Second(s) == Rotating(session, s)
Third(s, t) == Pending(Second(s), t, session[s].family, s, session[s].password)
Fourth(s, t) == Superseded(Third(s, t), s, t)
Fifth(s, t) == Activated(Fourth(s, t), t)

TablesOfRotation(s, t) ==
  /\ Rotation(s, t) = <<session, Second(s), Third(s, t), Fourth(s, t), Fifth(s, t)>>
  /\ Second(s) \in [Sessions -> Row]
  /\ Second(s)[s] = [session[s] EXCEPT !.state = "rotating"]
  /\ \A x \in Sessions \ {s} : Second(s)[x] = session[x]
  /\ Third(s, t) \in [Sessions -> Row]
  /\ Third(s, t)[t] = PendingRow(session[s].family, s, session[s].password)
  /\ \A x \in Sessions \ {t} : Third(s, t)[x] = Second(s)[x]
  /\ Fourth(s, t) \in [Sessions -> Row]
  /\ Fourth(s, t)[s] = [session[s] EXCEPT !.state = "revoked", !.successor = t]
  /\ \A x \in Sessions \ {s} : Fourth(s, t)[x] = Third(s, t)[x]
  /\ Fifth(s, t) \in [Sessions -> Row]
  /\ Fifth(s, t)[t] = NewRow(session[s].family, s, session[s].password)
  /\ \A x \in Sessions \ {t} : Fifth(s, t)[x] = Fourth(s, t)[x]

LEMMA RotationTables ==
  ASSUME AuthTypeOK, NEW s \in Sessions, NEW t \in Sessions, s # t,
         session[s].family \in Sessions
  PROVE  TablesOfRotation(s, t)
<1>1. Rotation(s, t) = <<session, Second(s), Third(s, t), Fourth(s, t), Fifth(s, t)>>
  BY DEF Rotation, Second, Third, Fourth, Fifth
<1>2. session[s] \in Row /\ session[s].password \in 0..MaxPasswords
  BY DEF AuthTypeOK, Row
<1>3. /\ Second(s) \in [Sessions -> Row]
      /\ Second(s)[s] = [session[s] EXCEPT !.state = "rotating"]
      /\ \A x \in Sessions \ {s} : Second(s)[x] = session[x]
  BY DEF Second, Rotating, AuthTypeOK, Row, States
<1>4. /\ Third(s, t) \in [Sessions -> Row]
      /\ Third(s, t)[t] = PendingRow(session[s].family, s, session[s].password)
      /\ \A x \in Sessions \ {t} : Third(s, t)[x] = Second(s)[x]
  BY <1>2, <1>3, PendingEffect DEF Third
<1>5. /\ Fourth(s, t) \in [Sessions -> Row]
      /\ Fourth(s, t)[s] = [session[s] EXCEPT !.state = "revoked", !.successor = t]
      /\ \A x \in Sessions \ {s} : Fourth(s, t)[x] = Third(s, t)[x]
  <2> DEFINE closed == [session[s] EXCEPT !.state = "revoked", !.successor = t]
  <2>1. closed \in Row
    BY <1>2 DEF Row, States
  <2>2. Third(s, t)[s] = [session[s] EXCEPT !.state = "rotating"]
    BY <1>3, <1>4
  <2>3. [[Third(s, t)[s] EXCEPT !.state = "revoked"] EXCEPT !.successor = t] = closed
    BY <1>2, <2>2 DEF Row
  <2>4. Fourth(s, t) = [Third(s, t) EXCEPT ![s] = closed]
    BY <1>4, <2>3 DEF Fourth, Superseded
  <2> HIDE DEF closed
  <2>5. /\ Fourth(s, t)[s] = closed
        /\ \A x \in Sessions \ {s} : Fourth(s, t)[x] = Third(s, t)[x]
    BY <1>4, <2>4
  <2> QED
    BY <1>4, <2>1, <2>4, <2>5 DEF closed
<1>6. Fourth(s, t)[t] = PendingRow(session[s].family, s, session[s].password)
  BY <1>4, <1>5
<1>7. /\ Fifth(s, t) \in [Sessions -> Row]
      /\ Fifth(s, t)[t] = NewRow(session[s].family, s, session[s].password)
      /\ \A x \in Sessions \ {t} : Fifth(s, t)[x] = Fourth(s, t)[x]
  BY <1>2, <1>5, <1>6, ActivatedEffect DEF Fifth
<1> QED
  BY <1>1, <1>3, <1>4, <1>5, <1>7 DEF TablesOfRotation

LEMMA RefreshEffect ==
  ASSUME AuthTypeOK, NEW s \in Sessions, NEW t \in Sessions, Refresh(s, t),
         session[s].family \in Sessions
  PROVE  /\ s # t
         /\ session' \in [Sessions -> Row]
         /\ session'[s] = [session[s] EXCEPT !.state = "revoked", !.successor = t]
         /\ session'[t] = NewRow(session[s].family, s, session[s].password)
         /\ Elsewhere({s, t})
<1>1. s # t
  BY DEF Refresh, Usable, Absent
<1>2. session' = Fifth(s, t)
  <2>1. session' = Rotation(s, t)[5]
    BY DEF Refresh, Commit, Rotation
  <2> QED
    BY <2>1 DEF Rotation, Second, Third, Fourth, Fifth
<1>3. TablesOfRotation(s, t)
  BY <1>1, RotationTables
<1>4. Fifth(s, t)[s] = Fourth(s, t)[s]
  BY <1>1, <1>3 DEF TablesOfRotation
<1>5. Elsewhere({s, t})
  BY <1>2, <1>3 DEF Elsewhere, TablesOfRotation
<1> QED
  BY <1>1, <1>2, <1>3, <1>4, <1>5 DEF TablesOfRotation

LEMMA LogoutEffect ==
  ASSUME AuthTypeOK, NEW s \in Sessions, Logout(s)
  PROVE  /\ session' \in [Sessions -> Row]
         /\ session'[s] = [session[s] EXCEPT !.state = "revoked"]
         /\ Elsewhere({s})
<1>1. session' = Revocation(s)[2]
  BY DEF Logout, Commit, Revocation
<1>2. session' = Revoked(session, s)
  BY <1>1 DEF Revocation
<1> QED
  BY <1>2 DEF Revoked, Elsewhere, AuthTypeOK, Row, States

LEMMA ExpiryEffect ==
  ASSUME AuthTypeOK, NEW s \in Sessions, Expires(s)
  PROVE  /\ session' \in [Sessions -> Row]
         /\ session'[s] = [session[s] EXCEPT !.passed = TRUE]
         /\ Elsewhere({s})
  BY DEF Expires, Elsewhere, AuthTypeOK, Row

-----------------------------------------------------------------------------
(* The invariant *)

LEMMA NoRowFields ==
  /\ NoRow.state = "absent" /\ NoRow.family = NoSession
  /\ NoRow.predecessor = NoSession /\ NoRow.successor = NoSession
  BY DEF NoRow

LEMMA LoginKeepsAuthInv ==
  ASSUME AuthInv, NEW s \in Sessions, NEW version \in 0..MaxPasswords,
         Login(s, version)
  PROVE  AuthInv'
<1>1. AuthTypeOK /\ Absent(s) /\ session[s] = NoRow
  BY DEF AuthInv, Login, Committed
<1>2. /\ session' \in [Sessions -> Row]
      /\ session'[s] = NewRow(s, NoSession, version)
      /\ \A x \in Sessions \ {s} : session'[x] = session[x]
  BY <1>1, LoginEffect DEF Elsewhere
<1>3. /\ session'[s].state = "active" /\ session'[s].family = s
      /\ session'[s].predecessor = NoSession /\ session'[s].successor = NoSession
  BY <1>2 DEF NewRow, PendingRow
<1>4. /\ session[s].state = "absent" /\ session[s].family = NoSession
      /\ session[s].predecessor = NoSession /\ session[s].successor = NoSession
  BY <1>1, NoRowFields
<1>5. AuthTypeOK'
  BY <1>2 DEF AuthTypeOK, Login, AuthInv
<1>6. Committed'
  BY <1>2, <1>3, <1>4 DEF Committed, Absent, AuthInv
<1>7. \A x \in Sessions \ {s} : session[x].state = "active" => session[x].family # s
  BY <1>4 DEF AuthInv, Committed, Absent
<1>8. OneActive'
  BY <1>2, <1>3, <1>7 DEF OneActive, AuthInv
<1>9. ChainSound'
  BY <1>1, <1>2, <1>3, <1>4, AuthConstants DEF ChainSound, AuthInv, AuthTypeOK, Row, Absent
<1> QED
  BY <1>5, <1>6, <1>8, <1>9 DEF AuthInv

LEMMA RefreshKeepsAuthInv ==
  ASSUME AuthInv, NEW s \in Sessions, NEW t \in Sessions, Refresh(s, t)
  PROVE  AuthInv'
<1>1. /\ AuthTypeOK /\ session[t] = NoRow /\ session[s].state = "active"
      /\ session[s].family \in Sessions /\ session[session[s].family].state # "absent"
  BY DEF AuthInv, Refresh, Committed, Usable, Absent
<1>2. /\ s # t
      /\ session' \in [Sessions -> Row]
      /\ session'[s] = [session[s] EXCEPT !.state = "revoked", !.successor = t]
      /\ session'[t] = NewRow(session[s].family, s, session[s].password)
      /\ \A x \in Sessions \ {s, t} : session'[x] = session[x]
  BY <1>1, RefreshEffect DEF Elsewhere
<1>3. session[t].state = "absent" /\ session[t].successor = NoSession
  BY <1>1, NoRowFields
<1>4. \A x \in Sessions :
        /\ session'[x].state = IF x = s THEN "revoked"
                               ELSE IF x = t THEN "active" ELSE session[x].state
        /\ session'[x].family = IF x = t THEN session[s].family ELSE session[x].family
        /\ session'[x].predecessor = IF x = t THEN s ELSE session[x].predecessor
        /\ session'[x].successor = IF x = s THEN t ELSE session[x].successor
        /\ x \notin {s, t} => session'[x] = session[x]
  <2>1. /\ session'[t].state = "active" /\ session'[t].family = session[s].family
        /\ session'[t].predecessor = s /\ session'[t].successor = NoSession
    BY <1>2 DEF NewRow, PendingRow
  <2>2. /\ session'[s].state = "revoked" /\ session'[s].successor = t
        /\ session'[s].family = session[s].family
        /\ session'[s].predecessor = session[s].predecessor
    BY <1>1, <1>2 DEF AuthTypeOK, Row
  <2>3. ASSUME NEW x \in Sessions, x \notin {s, t} PROVE session'[x] = session[x]
    BY <1>2, <2>3
  <2> SUFFICES
        ASSUME NEW x \in Sessions
        PROVE  /\ session'[x].state = IF x = s THEN "revoked"
                                      ELSE IF x = t THEN "active" ELSE session[x].state
               /\ session'[x].family = IF x = t THEN session[s].family
                                       ELSE session[x].family
               /\ session'[x].predecessor = IF x = t THEN s ELSE session[x].predecessor
               /\ session'[x].successor = IF x = s THEN t ELSE session[x].successor
               /\ x \notin {s, t} => session'[x] = session[x]
    OBVIOUS
  <2>4. CASE x = s
    BY <1>2, <2>2, <2>4
  <2>5. CASE x = t
    BY <1>2, <1>3, <2>1, <2>5
  <2>6. CASE x \notin {s, t}
    BY <2>3, <2>6
  <2> QED
    BY <2>4, <2>5, <2>6
<1>5. \A x \in Sessions : /\ session[x].predecessor \in Sessions \union {NoSession}
                          /\ session[x].successor \in Sessions \union {NoSession}
  BY <1>1 DEF AuthTypeOK, Row
<1>6. AuthTypeOK'
  BY <1>2 DEF AuthTypeOK, Refresh, AuthInv
<1>7. Committed'
  BY <1>1, <1>2, <1>3, <1>4 DEF Committed, Absent, AuthInv
<1>8. OneActive'
  BY <1>1, <1>2, <1>4 DEF OneActive, AuthInv
<1>9. ChainSound'
  (* No row refers to the blank row t, and none has the active row s as its
     predecessor. *)
  <2>1. \A x \in Sessions :
          /\ session[x].predecessor # NoSession => session[x].predecessor \notin {s, t}
          /\ session[x].successor # t
    <3>1. session[t].predecessor = NoSession
      BY <1>1, NoRowFields
    <3>2. ASSUME NEW x \in Sessions, session[x].predecessor # NoSession
          PROVE  session[x].predecessor \notin {s, t}
      BY <1>1, <1>3, <3>2 DEF ChainSound, AuthInv
    <3>3. ASSUME NEW x \in Sessions PROVE session[x].successor # t
      BY <1>1, <1>3, <1>5, <3>1, AuthConstants DEF ChainSound, AuthInv
    <3> QED
      BY <3>2, <3>3
  <2> QED
    BY <1>1, <1>2, <1>3, <1>4, <1>5, <2>1, AuthConstants DEF ChainSound, AuthInv, Absent
<1> QED
  BY <1>6, <1>7, <1>8, <1>9 DEF AuthInv

LEMMA LogoutKeepsAuthInv ==
  ASSUME AuthInv, NEW s \in Sessions, Logout(s)
  PROVE  AuthInv'
<1>1. AuthTypeOK /\ session[s].state = "active"
  BY DEF AuthInv, Logout, Usable
<1>2. /\ session' \in [Sessions -> Row]
      /\ session'[s] = [session[s] EXCEPT !.state = "revoked"]
      /\ \A x \in Sessions \ {s} : session'[x] = session[x]
  BY <1>1, LogoutEffect DEF Elsewhere
<1>3. \A x \in Sessions :
        /\ session'[x].state = IF x = s THEN "revoked" ELSE session[x].state
        /\ session'[x].family = session[x].family
        /\ session'[x].predecessor = session[x].predecessor
        /\ session'[x].successor = session[x].successor
        /\ x # s => session'[x] = session[x]
  BY <1>1, <1>2 DEF AuthTypeOK, Row
<1>4. AuthTypeOK'
  BY <1>2 DEF AuthTypeOK, Logout, AuthInv
<1>5. Committed'
  BY <1>1, <1>3 DEF Committed, Absent, AuthInv
<1>6. OneActive'
  BY <1>1, <1>3 DEF OneActive, AuthInv
<1>7. ChainSound'
  BY <1>1, <1>3, AuthConstants DEF ChainSound, AuthInv, AuthTypeOK, Row, Absent
<1> QED
  BY <1>4, <1>5, <1>6, <1>7 DEF AuthInv

LEMMA ExpiryKeepsAuthInv ==
  ASSUME AuthInv, NEW s \in Sessions, Expires(s)
  PROVE  AuthInv'
<1>1. AuthTypeOK /\ session[s].state # "absent"
  BY DEF AuthInv, Expires, Absent
<1>2. /\ session' \in [Sessions -> Row]
      /\ session'[s] = [session[s] EXCEPT !.passed = TRUE]
      /\ \A x \in Sessions \ {s} : session'[x] = session[x]
  BY <1>1, ExpiryEffect DEF Elsewhere
<1>3. \A x \in Sessions :
        /\ session'[x].state = session[x].state
        /\ session'[x].family = session[x].family
        /\ session'[x].predecessor = session[x].predecessor
        /\ session'[x].successor = session[x].successor
        /\ x # s => session'[x] = session[x]
  BY <1>1, <1>2 DEF AuthTypeOK, Row
<1>4. AuthTypeOK'
  BY <1>2 DEF AuthTypeOK, Expires, AuthInv
<1>5. Committed'
  BY <1>1, <1>3 DEF Committed, Absent, AuthInv
<1>6. OneActive'
  BY <1>1, <1>3 DEF OneActive, AuthInv
<1>7. ChainSound'
  BY <1>1, <1>3, AuthConstants DEF ChainSound, AuthInv, AuthTypeOK, Row, Absent
<1> QED
  BY <1>4, <1>5, <1>6, <1>7 DEF AuthInv

LEMMA AuthInvStarts == AuthInit => AuthInv
  BY NoRowFields, AuthConstants
     DEF AuthInit, AuthInv, AuthTypeOK, Committed, OneActive, ChainSound,
         NoRow, Row, States, Absent

LEMMA AuthInvKept == AuthInv /\ [AuthNext]_authVars => AuthInv'
<1> SUFFICES ASSUME AuthInv, [AuthNext]_authVars PROVE AuthInv'
  OBVIOUS
<1>1. ASSUME NEW s \in Sessions, NEW version \in 0..MaxPasswords, Login(s, version)
      PROVE  AuthInv'
  BY <1>1, LoginKeepsAuthInv
<1>2. ASSUME NEW s \in Sessions, NEW t \in Sessions, Refresh(s, t) PROVE AuthInv'
  BY <1>2, RefreshKeepsAuthInv
<1>3. ASSUME NEW s \in Sessions, Logout(s) PROVE AuthInv'
  BY <1>3, LogoutKeepsAuthInv
<1>4. ASSUME NEW s \in Sessions, Expires(s) PROVE AuthInv'
  BY <1>4, ExpiryKeepsAuthInv
<1>5. CASE ChangePassword
  BY <1>5, AuthConstants
     DEF ChangePassword, AuthInv, AuthTypeOK, Committed, OneActive, ChainSound, Absent
<1>6. CASE UNCHANGED authVars
  BY <1>6 DEF authVars, AuthInv, AuthTypeOK, Committed, OneActive, ChainSound, Absent
<1> QED
  BY <1>1, <1>2, <1>3, <1>4, <1>5, <1>6 DEF AuthNext

THEOREM AuthInvHolds == AuthSpec => []AuthInv
<1>1. AuthInit => AuthInv
  BY AuthInvStarts
<1>2. AuthInv /\ [AuthNext]_authVars => AuthInv'
  BY AuthInvKept
<1> QED
  BY <1>1, <1>2, PTL DEF AuthSpec

(* Rows of auth_sessions keep their types, under any interleaving of sign-ins,
   refreshes, logouts and expiries. *)
THEOREM AuthTypeOKHolds == AuthSpec => []AuthTypeOK
<1>1. AuthInv => AuthTypeOK
  BY DEF AuthInv
<1> QED
  BY <1>1, AuthInvHolds, PTL

(* At most one session of a family is active, so the partial unique index is
   never hit, for any number of sessions. *)
THEOREM OneActiveHolds == AuthSpec => []OneActive
<1>1. AuthInv => OneActive
  BY DEF AuthInv
<1> QED
  BY <1>1, AuthInvHolds, PTL

(* The rows of a family form one chain whose end alone can authenticate. *)
THEOREM ChainSoundHolds == AuthSpec => []ChainSound
<1>1. AuthInv => ChainSound
  BY DEF AuthInv
<1> QED
  BY <1>1, AuthInvHolds, PTL

-----------------------------------------------------------------------------
(* The trigger accepts every statement *)

LEMMA RevocationAccepted ==
  ASSUME AuthInv, NEW s \in Sessions, Usable(s)
  PROVE  Legal(Revocation(s))
<1> DEFINE revoked == Revoked(session, s)
<1>1. session[s] \in Row /\ session[s].state = "active"
  BY DEF AuthInv, AuthTypeOK, Usable
<1>2. /\ revoked[s].state = "revoked" /\ revoked[s].successor = session[s].successor
      /\ \A x \in Sessions \ {s} : revoked[x] = session[x]
  BY <1>1 DEF Revoked, AuthInv, AuthTypeOK, Row
<1>3. Accepts(session, s, revoked[s])
  BY <1>1, <1>2 DEF Accepts, Final
<1> HIDE DEF revoked
<1>4. Revocation(s) = <<session, revoked>>
  BY DEF Revocation, revoked
<1> QED
  BY <1>2, <1>3, <1>4 DEF Legal

LEMMA IssuanceAccepted ==
  ASSUME AuthInv, NEW s \in Sessions, Absent(s)
  PROVE  Legal(Issuance(s, password))
<1> DEFINE pending == Pending(session, s, s, NoSession, password)
           active == Activated(pending, s)
<1>1. /\ pending \in [Sessions -> Row]
      /\ pending[s] = PendingRow(s, NoSession, password)
      /\ \A x \in Sessions \ {s} : pending[x] = session[x]
  <2>1. PendingRow(s, NoSession, password) \in Row
    BY DEF PendingRow, Row, States, AuthInv, AuthTypeOK
  <2>2. pending = [session EXCEPT ![s] = PendingRow(s, NoSession, password)]
    BY DEF Pending, PendingRow
  <2> QED
    BY <2>1, <2>2 DEF AuthInv, AuthTypeOK
<1> HIDE DEF pending
<1>2. /\ active[s] = NewRow(s, NoSession, password)
      /\ \A x \in Sessions \ {s} : active[x] = pending[x]
  BY <1>1 DEF Activated, NewRow
<1>3. Accepts(pending, s, active[s])
  BY <1>1, <1>2 DEF Accepts, PendingRow, NewRow
<1>4. Issuance(s, password) = <<session, pending, active>>
  BY DEF Issuance, pending
<1> HIDE DEF active
<1>5. ASSUME NEW i \in 1..2, NEW x \in Sessions,
             Issuance(s, password)[i][x] # Issuance(s, password)[i + 1][x],
             Issuance(s, password)[i][x].state # "absent"
      PROVE  Accepts(Issuance(s, password)[i], x, Issuance(s, password)[i + 1][x])
  <2>1. CASE i = 1
    BY <1>1, <1>4, <1>5, <2>1 DEF Absent
  <2>2. CASE i = 2
    BY <1>2, <1>3, <1>4, <1>5, <2>2
  <2> QED
    BY <2>1, <2>2
<1> QED
  BY <1>4, <1>5 DEF Legal

LEMMA RotationAccepted ==
  ASSUME AuthInv, NEW s \in Sessions, NEW t \in Sessions, Usable(s), Absent(t)
  PROVE  Legal(Rotation(s, t)) /\ Completes(Rotation(s, t)[3], s, t)
<1>1. /\ AuthTypeOK /\ s # t /\ session[s] \in Row /\ session[t].state = "absent"
      /\ session[s].state = "active" /\ ~session[s].passed
      /\ session[s].family \in Sessions /\ session[s].successor = NoSession
  BY DEF AuthInv, AuthTypeOK, Usable, Absent, Committed, ChainSound
<1>2. TablesOfRotation(s, t)
  BY <1>1, RotationTables
<1>3. /\ Second(s)[s].state = "rotating" /\ ~Second(s)[s].passed
      /\ Second(s)[s].family = session[s].family
      /\ Second(s)[s].successor = NoSession
  BY <1>1, <1>2 DEF TablesOfRotation, Row
<1>4. Third(s, t)[s] = Second(s)[s]
  BY <1>1, <1>2 DEF TablesOfRotation
<1>5. /\ Third(s, t)[t].state = "pending" /\ ~Third(s, t)[t].passed
      /\ Third(s, t)[t].family = session[s].family
      /\ Third(s, t)[t].predecessor = s /\ Third(s, t)[t].successor = NoSession
  BY <1>2 DEF TablesOfRotation, PendingRow
<1>6. /\ Fourth(s, t)[s].state = "revoked" /\ Fourth(s, t)[s].successor = t
      /\ Fourth(s, t)[s].family = session[s].family /\ ~Fourth(s, t)[s].passed
  BY <1>1, <1>2 DEF TablesOfRotation, Row
<1>7. Fourth(s, t)[t] = Third(s, t)[t]
  BY <1>1, <1>2 DEF TablesOfRotation
<1>8. /\ Fifth(s, t)[t].state = "active" /\ ~Fifth(s, t)[t].passed
      /\ Fifth(s, t)[t].family = session[s].family
      /\ Fifth(s, t)[t].predecessor = s /\ Fifth(s, t)[t].successor = NoSession
  BY <1>2 DEF TablesOfRotation, NewRow, PendingRow
<1>9. Completes(Third(s, t), s, t)
  BY <1>1, <1>3, <1>4, <1>5 DEF Completes
<1>10. Accepts(session, s, Second(s)[s])
  BY <1>1, <1>3 DEF Accepts
<1>11. Accepts(Third(s, t), s, Fourth(s, t)[s])
  BY <1>3, <1>4, <1>5, <1>6 DEF Accepts, Final
<1>12. Accepts(Fourth(s, t), t, Fifth(s, t)[t])
  BY <1>5, <1>6, <1>7, <1>8 DEF Accepts
<1>13. ASSUME NEW i \in 1..4, NEW x \in Sessions,
              Rotation(s, t)[i][x] # Rotation(s, t)[i + 1][x],
              Rotation(s, t)[i][x].state # "absent"
       PROVE  Accepts(Rotation(s, t)[i], x, Rotation(s, t)[i + 1][x])
  <2>1. CASE i = 1
    <3>1. Rotation(s, t)[i] = session /\ Rotation(s, t)[i + 1] = Second(s)
      BY <1>2, <2>1 DEF TablesOfRotation
    <3> QED
      BY <1>2, <1>10, <1>13, <3>1 DEF TablesOfRotation
  <2>2. CASE i = 2
    <3>1. Rotation(s, t)[i] = Second(s) /\ Rotation(s, t)[i + 1] = Third(s, t)
      BY <1>2, <2>2 DEF TablesOfRotation
    <3> QED
      BY <1>1, <1>2, <1>13, <3>1 DEF TablesOfRotation
  <2>3. CASE i = 3
    <3>1. Rotation(s, t)[i] = Third(s, t) /\ Rotation(s, t)[i + 1] = Fourth(s, t)
      BY <1>2, <2>3 DEF TablesOfRotation
    <3> QED
      BY <1>2, <1>11, <1>13, <3>1 DEF TablesOfRotation
  <2>4. CASE i = 4
    <3>1. Rotation(s, t)[i] = Fourth(s, t) /\ Rotation(s, t)[i + 1] = Fifth(s, t)
      BY <1>2, <2>4 DEF TablesOfRotation
    <3> QED
      BY <1>2, <1>12, <1>13, <3>1 DEF TablesOfRotation
  <2> QED
    BY <2>1, <2>2, <2>3, <2>4
<1>14. Len(Rotation(s, t)) = 5 /\ Rotation(s, t)[3] = Third(s, t)
  BY <1>2 DEF TablesOfRotation
<1> QED
  BY <1>9, <1>13, <1>14 DEF Legal

(* No sign-in, refresh or logout ever fails on the trigger of auth_sessions or
   on the checks of complete_rotation_tx, whatever committed before it. *)
THEOREM TransactionsAcceptedHolds == AuthSpec => []TransactionsAccepted
<1>1. AuthInv => TransactionsAccepted
  BY RevocationAccepted, IssuanceAccepted, RotationAccepted DEF TransactionsAccepted
<1> QED
  BY <1>1, AuthInvHolds, PTL

-----------------------------------------------------------------------------
(* The table implements families with one holder *)

HoldersSound ==
  /\ HolderOf \in [Sessions -> Sessions \union {NoSession}]
  /\ \A f, s \in Sessions : HolderOf[f] = s
       <=> session[s].state = "active" /\ session[s].family = f

LEMMA Holders == AuthInv => HoldersSound
<1> SUFFICES ASSUME AuthInv PROVE HoldersSound
  OBVIOUS
<1>1. \A g \in Sessions : \A s \in Family(g) : Family(g) = {s}
  BY DEF Family, AuthInv, OneActive
<1>2. \A g \in Sessions : \/ Family(g) = {} /\ HolderOf[g] = NoSession
                          \/ Family(g) = {HolderOf[g]} /\ HolderOf[g] \in Sessions
  <2> SUFFICES ASSUME NEW g \in Sessions
               PROVE  \/ Family(g) = {} /\ HolderOf[g] = NoSession
                      \/ Family(g) = {HolderOf[g]} /\ HolderOf[g] \in Sessions
    OBVIOUS
  <2>1. CASE Family(g) = {}
    BY <2>1 DEF HolderOf
  <2>2. CASE Family(g) # {}
    <3>1. HolderOf[g] = CHOOSE s \in Family(g) : TRUE
      BY <2>2 DEF HolderOf
    <3>2. HolderOf[g] \in Family(g)
      BY <2>2, <3>1
    <3> QED
      BY <1>1, <3>2 DEF Family
  <2> QED
    BY <2>1, <2>2
<1>3. HolderOf \in [Sessions -> Sessions \union {NoSession}]
  BY <1>2 DEF HolderOf
<1>4. \A f, s \in Sessions : s \in Family(f)
        <=> session[s].state = "active" /\ session[s].family = f
  BY DEF Family
<1> QED
  BY <1>2, <1>3, <1>4, AuthConstants DEF HoldersSound

LEMMA HoldersAfter == AuthInv' => HoldersSound'
  BY Holders, PTL

LEMMA HolderUnchanged ==
  ASSUME \A s \in Sessions : /\ session'[s].state = session[s].state
                             /\ session'[s].family = session[s].family
  PROVE  UNCHANGED <<HolderOf, {s \in Sessions : session[s].state \in Final}>>
<1>1. \A f \in Sessions : Family(f)' = Family(f)
  BY DEF Family
<1>2. HolderOf' = HolderOf
  <2>1. ASSUME NEW f \in Sessions PROVE HolderOf'[f] = HolderOf[f]
    <3>1. HolderOf[f] = IF Family(f) = {} THEN NoSession
                        ELSE CHOOSE s \in Family(f) : TRUE
      BY DEF HolderOf
    <3>2. HolderOf'[f] = IF Family(f)' = {} THEN NoSession
                         ELSE CHOOSE s \in Family(f)' : TRUE
      BY DEF HolderOf
    <3> QED
      BY <1>1, <3>1, <3>2
  <2>2. /\ HolderOf = [f \in Sessions |-> HolderOf[f]]
        /\ HolderOf' = [f \in Sessions |-> HolderOf'[f]]
    BY DEF HolderOf
  <2> QED
    BY <2>1, <2>2
<1>3. {s \in Sessions : session'[s].state \in Final}
        = {s \in Sessions : session[s].state \in Final}
  OBVIOUS
<1> QED
  BY <1>2, <1>3

FormerOf == {s \in Sessions : session[s].state \in Final}

LEMMA LoginOpens ==
  ASSUME AuthInv, AuthInv', NEW s \in Sessions, NEW version \in 0..MaxPasswords,
         Login(s, version)
  PROVE  Families!Open(s)
<1>1. AuthTypeOK /\ HoldersSound /\ HoldersSound' /\ session[s].state = "absent"
  BY Holders, HoldersAfter DEF AuthInv, Login, Absent
<1>2. /\ session'[s] = NewRow(s, NoSession, version)
      /\ \A x \in Sessions \ {s} : session'[x] = session[x]
  BY <1>1, LoginEffect DEF Elsewhere
<1>3. session'[s].state = "active" /\ session'[s].family = s
  BY <1>2 DEF NewRow, PendingRow
<1>4. \A x \in Sessions : session[x].state # "absent" => session[x].family # s
  BY <1>1 DEF AuthInv, Committed, Absent
<1>5. HolderOf[s] = NoSession
  BY <1>1, <1>4 DEF HoldersSound
<1>6. \A f \in Sessions : HolderOf[f] # s
  BY <1>1 DEF HoldersSound
<1>7. HolderOf' = [HolderOf EXCEPT ![s] = s]
  <2>1. HolderOf'[s] = s
    BY <1>1, <1>3 DEF HoldersSound
  <2>2. ASSUME NEW f \in Sessions, f # s PROVE HolderOf'[f] = HolderOf[f]
    <3>1. \A x \in Sessions : HolderOf'[f] = x <=> HolderOf[f] = x
      BY <1>1, <1>2, <1>3, <2>2 DEF HoldersSound
    <3> QED
      BY <1>1, <3>1 DEF HoldersSound
  <2> QED
    BY <1>1, <2>1, <2>2 DEF HoldersSound
<1>8. FormerOf' = FormerOf
  BY <1>1, <1>2, <1>3 DEF FormerOf, Final
<1>9. s \notin FormerOf
  BY <1>1 DEF FormerOf, Final
<1> QED
  BY <1>5, <1>6, <1>7, <1>8, <1>9
     DEF Families!Open, Families!Fresh, Families!Held, Families!Families, FormerOf

LEMMA RefreshPassesOn ==
  ASSUME AuthInv, AuthInv', NEW s \in Sessions, NEW t \in Sessions, Refresh(s, t)
  PROVE  Families!PassOn(session[s].family, t)
<1> DEFINE f == session[s].family
<1>1. /\ AuthTypeOK /\ HoldersSound /\ HoldersSound' /\ f \in Sessions
      /\ session[s].state = "active" /\ session[t].state = "absent"
  BY Holders, HoldersAfter DEF AuthInv, Refresh, Usable, Absent, Committed
<1>2. /\ s # t
      /\ session'[s] = [session[s] EXCEPT !.state = "revoked", !.successor = t]
      /\ session'[t] = NewRow(f, s, session[s].password)
      /\ \A x \in Sessions \ {s, t} : session'[x] = session[x]
  BY <1>1, RefreshEffect DEF Elsewhere
<1>3. /\ session'[s].state = "revoked"
      /\ session'[t].state = "active" /\ session'[t].family = f
  <2>1. session[s] \in Row
    BY <1>1 DEF AuthTypeOK
  <2> QED
    BY <1>2, <2>1 DEF NewRow, PendingRow, Row
<1> HIDE DEF f
<1>4. HolderOf[f] = s
  BY <1>1 DEF HoldersSound, f
<1>5. \A g \in Sessions : HolderOf[g] # t
  BY <1>1 DEF HoldersSound
<1>6. HolderOf' = [HolderOf EXCEPT ![f] = t]
  <2>1. HolderOf'[f] = t
    BY <1>1, <1>3 DEF HoldersSound
  <2>2. ASSUME NEW g \in Sessions, g # f PROVE HolderOf'[g] = HolderOf[g]
    <3>1. ASSUME NEW x \in Sessions PROVE HolderOf'[g] = x <=> HolderOf[g] = x
      <4>1. CASE x \in {s, t}
        BY <1>1, <1>3, <2>2, <4>1 DEF HoldersSound, f
      <4>2. CASE x \notin {s, t}
        BY <1>1, <1>2, <4>2 DEF HoldersSound
      <4> QED
        BY <4>1, <4>2
    <3> QED
      BY <1>1, <3>1 DEF HoldersSound
  <2> QED
    BY <1>1, <2>1, <2>2 DEF HoldersSound
<1>7. FormerOf' = FormerOf \union {s}
  <2>1. ASSUME NEW x \in Sessions PROVE x \in FormerOf' <=> x \in FormerOf \union {s}
    BY <1>1, <1>2, <1>3 DEF FormerOf, Final
  <2> QED
    BY <2>1 DEF FormerOf
<1>8. t \notin FormerOf /\ s # NoSession
  BY <1>1, AuthConstants DEF FormerOf, Final
<1> QED
  BY <1>1, <1>4, <1>5, <1>6, <1>7, <1>8
     DEF Families!PassOn, Families!Fresh, Families!Held, Families!Families, FormerOf, f

LEMMA LogoutCloses ==
  ASSUME AuthInv, AuthInv', NEW s \in Sessions, Logout(s),
         NEW f \in Sessions, session[s].family = f
  PROVE  Families!Close(f)
<1>1. /\ AuthTypeOK /\ HoldersSound /\ HoldersSound' /\ session[s].family = f
      /\ session[s].state = "active"
  BY Holders, HoldersAfter DEF AuthInv, Logout, Usable
<1>2. /\ session'[s] = [session[s] EXCEPT !.state = "revoked"]
      /\ \A x \in Sessions \ {s} : session'[x] = session[x]
  BY <1>1, LogoutEffect DEF Elsewhere
<1>3. session'[s].state = "revoked"
  BY <1>1, <1>2 DEF AuthTypeOK, Row
<1>4. HolderOf[f] = s
  BY <1>1 DEF HoldersSound
<1>5. HolderOf' = [HolderOf EXCEPT ![f] = NoSession]
  <2>1. HolderOf'[f] = NoSession
    <3>1. ASSUME NEW x \in Sessions PROVE HolderOf'[f] # x
      <4>1. CASE x = s
        BY <1>1, <1>3, <4>1 DEF HoldersSound
      <4>2. CASE x # s
        BY <1>1, <1>2, <1>4, <4>2 DEF HoldersSound
      <4> QED
        BY <4>1, <4>2
    <3> QED
      BY <1>1, <3>1 DEF HoldersSound
  <2>2. ASSUME NEW g \in Sessions, g # f PROVE HolderOf'[g] = HolderOf[g]
    <3>1. ASSUME NEW x \in Sessions PROVE HolderOf'[g] = x <=> HolderOf[g] = x
      <4>1. CASE x = s
        BY <1>1, <1>3, <2>2, <4>1 DEF HoldersSound
      <4>2. CASE x # s
        BY <1>1, <1>2, <4>2 DEF HoldersSound
      <4> QED
        BY <4>1, <4>2
    <3> QED
      BY <1>1, <3>1 DEF HoldersSound
  <2> QED
    BY <1>1, <2>1, <2>2 DEF HoldersSound
<1>6. FormerOf' = FormerOf \union {s}
  <2>1. ASSUME NEW x \in Sessions PROVE x \in FormerOf' <=> x \in FormerOf \union {s}
    BY <1>1, <1>2, <1>3 DEF FormerOf, Final
  <2> QED
    BY <2>1 DEF FormerOf
<1> QED
  BY <1>1, <1>4, <1>5, <1>6, AuthConstants DEF Families!Close, FormerOf

(* A token that was rotated away, revoked or expired by a write never
   authenticates again, and a family has one holder at most: the rows of
   auth_sessions implement SessionFamily. *)
THEOREM FamilySpecHolds == AuthSpec => FamilySpec
<1>1. AuthInit => Families!Init
  BY NoRowFields DEF AuthInit, Families!Init, Families!Families, HolderOf, Family, Final
<1>2. AuthInv /\ AuthInv' /\ [AuthNext]_authVars => [Families!Next]_(Families!vars)
  <2> SUFFICES ASSUME AuthInv, AuthInv', [AuthNext]_authVars
               PROVE  [Families!Next]_(Families!vars)
    OBVIOUS
  <2>1. ASSUME NEW s \in Sessions, NEW version \in 0..MaxPasswords, Login(s, version)
        PROVE  Families!Next
    BY <2>1, LoginOpens DEF Families!Next, Families!Families
  <2>2. ASSUME NEW s \in Sessions, NEW t \in Sessions, Refresh(s, t)
        PROVE  Families!Next
    <3>1. session[s].family \in Sessions
      BY <2>2 DEF AuthInv, Refresh, Usable, Absent, Committed
    <3> QED
      BY <2>2, <3>1, RefreshPassesOn DEF Families!Next, Families!Families
  <2>3. ASSUME NEW s \in Sessions, Logout(s) PROVE Families!Next
    <3>1. session[s].family \in Sessions
      BY <2>3 DEF AuthInv, Logout, Usable, Absent, Committed
    <3>2. PICK f \in Sessions : session[s].family = f
      BY <3>1
    <3>3. Families!Close(f)
      BY <2>3, <3>2, LogoutCloses
    <3> QED
      BY <3>3 DEF Families!Next, Families!Families
  <2>4. ASSUME NEW s \in Sessions, Expires(s) PROVE UNCHANGED Families!vars
    <3>1. /\ session \in [Sessions -> Row]
          /\ session'[s] = [session[s] EXCEPT !.passed = TRUE]
          /\ \A x \in Sessions \ {s} : session'[x] = session[x]
      BY <2>4, ExpiryEffect DEF Elsewhere, AuthInv, AuthTypeOK
    <3>2. \A x \in Sessions : /\ session'[x].state = session[x].state
                              /\ session'[x].family = session[x].family
      BY <3>1 DEF Row
    <3> QED
      BY <3>2, HolderUnchanged DEF Families!vars
  <2>5. ASSUME UNCHANGED session PROVE UNCHANGED Families!vars
    BY <2>5, HolderUnchanged DEF Families!vars
  <2> QED
    BY <2>1, <2>2, <2>3, <2>4, <2>5 DEF AuthNext, ChangePassword, authVars
<1> QED
  BY <1>1, <1>2, AuthInvHolds, PTL DEF AuthSpec, FamilySpec, Families!Spec
-----------------------------------------------------------------------------
(* The tabs of one browser *)

Types ==
  /\ stored \in Sessions \union {NoSession}
  /\ tab \in [Tabs -> Tab]
  /\ stray \subseteq Sessions
  /\ losses \in Nat

Exists(s) == s # NoSession => ~Absent(s)

(* Tabs hold sessions that exist; a tab that asks the server holds one. *)
Holding == {"waiting", "leaving"} \union Refreshing
Known ==
  /\ Exists(stored)
  /\ \A s \in stray : ~Absent(s)
  /\ \A x \in Tabs : /\ Exists(tab[x].seen) /\ Exists(tab[x].reply)
                     /\ tab[x].phase \in Holding => tab[x].seen # NoSession

(* What was granted to x is the end of its chain and known to x alone. *)
Grant(x) ==
  /\ tab[x].reply # NoSession
  /\ session[tab[x].seen].successor = tab[x].reply
  /\ session[tab[x].reply].successor = NoSession
  /\ stored # tab[x].reply
  /\ \A y \in Tabs : /\ tab[y].seen # tab[x].reply
                     /\ tab[y].phase = "granted" /\ tab[y].reply = tab[x].reply => y = x

Newest ==
  losses = 0 =>
    /\ stray = {}
    /\ StoredNewest
    /\ \A x \in Tabs : tab[x].phase = "granted" => Grant(x)

(* Under the lock one tab refreshes, a session nobody has rotated. *)
Alone ==
  webLocks /\ losses = 0 =>
    \A x \in Tabs : tab[x].phase \in Refreshing =>
      /\ \A y \in Tabs : tab[y].phase \in Refreshing => y = x
      /\ tab[x].phase # "granted" => session[tab[x].seen].successor = NoSession

TabsInv == Types /\ Known /\ Newest /\ Alone
BrowserInv == AuthInv /\ TabsInv

-----------------------------------------------------------------------------
(* What a transaction means to the tabs *)

(* No session is opened or rotated. *)
Quiet ==
  \A s \in Sessions : /\ session'[s].successor = session[s].successor
                      /\ Absent(s)' <=> Absent(s)

Lasting == \A s \in Sessions : ~Absent(s) => ~Absent(s)'

LEMMA UnchangedQuiet == UNCHANGED session => Quiet
BY DEF Quiet, Absent

LEMMA QuietLasting == Quiet => Lasting
BY DEF Quiet, Lasting

LEMMA LogoutQuiet ==
  ASSUME AuthInv, NEW s \in Sessions, Logout(s)
  PROVE  Quiet /\ AuthInv'
<1>1. session[s] \in Row /\ session[s].state = "active"
    BY DEF AuthInv, AuthTypeOK, Logout, Usable
<1>2. /\ session'[s] = [session[s] EXCEPT !.state = "revoked"]
      /\ \A x \in Sessions \ {s} : session'[x] = session[x]
    BY LogoutEffect DEF AuthInv, Elsewhere
<1>3. session'[s].successor = session[s].successor /\ session'[s].state = "revoked"
    BY <1>1, <1>2 DEF Row
<1> QED
    BY <1>1, <1>2, <1>3, LogoutKeepsAuthInv DEF Quiet, Absent

LEMMA ExpiryQuiet ==
  ASSUME AuthInv, NEW s \in Sessions, Expires(s)
  PROVE  Quiet /\ AuthInv'
<1>1. session[s] \in Row
    BY DEF AuthInv, AuthTypeOK
<1>2. /\ session'[s] = [session[s] EXCEPT !.passed = TRUE]
      /\ \A x \in Sessions \ {s} : session'[x] = session[x]
    BY ExpiryEffect DEF AuthInv, Elsewhere
<1>3. session'[s].successor = session[s].successor /\ session'[s].state = session[s].state
    BY <1>1, <1>2 DEF Row
<1> QED
    BY <1>1, <1>2, <1>3, ExpiryKeepsAuthInv DEF Quiet, Absent

(* A login opens a session nobody knows. *)
LEMMA LoginOpensUnknown ==
  ASSUME AuthInv, NEW s \in Sessions, Login(s, password)
  PROVE  /\ AuthInv' /\ Lasting
         /\ Absent(s) /\ ~Absent(s)'
         /\ \A x \in Sessions : session'[x].successor = session[x].successor
<1>1. password \in 0..MaxPasswords /\ session[s] = NoRow
    BY DEF AuthInv, AuthTypeOK, Committed, Login
<1>2. /\ session'[s] = NewRow(s, NoSession, password)
      /\ \A x \in Sessions \ {s} : session'[x] = session[x]
    BY <1>1, LoginEffect DEF AuthInv, Elsewhere
<1>3. session'[s].successor = NoSession /\ session'[s].state = "active"
    BY <1>2 DEF NewRow, PendingRow
<1>4. AuthInv'
    BY <1>1, LoginKeepsAuthInv
<1> QED
    BY <1>1, <1>2, <1>3, <1>4, NoRowFields DEF Lasting, Absent

(* A refresh passes s on to a session nobody knows. *)
LEMMA RefreshPasses ==
  ASSUME AuthInv, NEW s \in Sessions, NEW t \in Sessions, Refresh(s, t)
  PROVE  /\ AuthInv' /\ Lasting
         /\ s # t /\ Absent(t) /\ ~Absent(t)'
         /\ session[s].successor = NoSession
         /\ session'[s].successor = t /\ session'[t].successor = NoSession
         /\ \A x \in Sessions \ {s} : session'[x].successor = session[x].successor
<1>1. /\ AuthTypeOK /\ session[t] = NoRow /\ session[s].state = "active"
      /\ session[s].family \in Sessions /\ Absent(t)
    BY DEF AuthInv, Refresh, Committed, Usable, Absent
<1>2. /\ s # t
      /\ session'[s] = [session[s] EXCEPT !.state = "revoked", !.successor = t]
      /\ session'[t] = NewRow(session[s].family, s, session[s].password)
      /\ \A x \in Sessions \ {s, t} : session'[x] = session[x]
    BY <1>1, RefreshEffect DEF Elsewhere
<1>3. session[s] \in Row
    BY <1>1 DEF AuthTypeOK
<1>4. session'[s].successor = t /\ session'[s].state = "revoked"
    BY <1>2, <1>3 DEF Row
<1>5. session'[t].successor = NoSession /\ session'[t].state = "active"
    BY <1>2 DEF NewRow, PendingRow
<1>6. session[s].successor = NoSession
    BY <1>1 DEF AuthInv, ChainSound
<1>7. AuthInv'
    BY RefreshKeepsAuthInv
<1>8. session[t].successor = NoSession
    BY <1>1, NoRowFields
<1>9. Lasting
    BY <1>2, <1>4, <1>5 DEF Lasting, Absent
<1>10. ~Absent(t)'
    BY <1>5 DEF Absent
<1>11. \A x \in Sessions \ {s} : session'[x].successor = session[x].successor
    BY <1>2, <1>5, <1>8
<1> QED
    BY <1>1, <1>2, <1>4, <1>5, <1>6, <1>7, <1>9, <1>10, <1>11

-----------------------------------------------------------------------------
(* Steps of a tab *)

(* The sessions a tab holds after a step exist. *)
LEMMA TabsKnow ==
  ASSUME Types, Known, Lasting, NEW x \in Tabs, NEW r \in Tab,
         tab' = [tab EXCEPT ![x] = r],
         stored' \in Sessions \union {NoSession}, Exists(stored)',
         stray' \subseteq Sessions, \A s \in stray' : ~Absent(s)', losses' \in Nat,
         r.seen \in {tab[x].seen, stored, NoSession},
         r.reply # NoSession => ~Absent(r.reply)',
         r.phase \in Holding => r.seen # NoSession
  PROVE  Types' /\ Known'
<1>1. tab' \in [Tabs -> Tab] /\ tab'[x] = r /\ \A y \in Tabs \ {x} : tab'[y] = tab[y]
    BY DEF Types
<1>2. Types'
    BY <1>1 DEF Types
<1>3. ASSUME NEW y \in Tabs
      PROVE  /\ Exists(tab[y].seen)' /\ Exists(tab[y].reply)'
             /\ tab'[y].phase \in Holding => tab'[y].seen # NoSession
  <2>1. tab[y] \in Tab /\ tab[x] \in Tab
      BY DEF Types
  <2>2. CASE y = x
      BY <1>1, <2>1, <2>2 DEF Known, Exists, Lasting, Tab, Types
  <2>3. CASE y # x
      BY <1>1, <2>1, <2>3 DEF Known, Exists, Lasting, Tab
  <2> QED
      BY <2>2, <2>3
<1> QED
    BY <1>2, <1>3 DEF Known

(* A step of tab x that neither opens nor rotates a session, nor keeps or
   drops a grant. *)
LEMMA TabMoves ==
  ASSUME TabsInv, Quiet, NEW x \in Tabs, NEW r \in Tab,
         tab' = [tab EXCEPT ![x] = r],
         stored' \in {stored, NoSession}, UNCHANGED <<stray, losses, webLocks>>,
         r.seen \in {tab[x].seen, stored, NoSession},
         r.reply \in {tab[x].reply, NoSession},
         r.phase \in Holding => r.seen # NoSession,
         tab[x].phase # "granted", r.phase # "granted",
         r.phase \in Refreshing =>
           \/ tab[x].phase \in Refreshing /\ r.seen = tab[x].seen
           \/ r.seen = stored /\ (webLocks => LockFree)
  PROVE  TabsInv'
<1>1. tab'[x] = r /\ \A y \in Tabs \ {x} : tab'[y] = tab[y]
    BY DEF TabsInv, Types
<1>2. \A y \in Tabs : tab[y] \in Tab
    BY DEF TabsInv, Types
<1>3. Types' /\ Known'
  <2>1. stored' \in Sessions \union {NoSession} /\ Exists(stored)'
      BY DEF TabsInv, Types, Known, Exists, Quiet
  <2>2. \A s \in stray' : ~Absent(s)'
      BY DEF TabsInv, Types, Known, Quiet
  <2>3. r.reply # NoSession => ~Absent(r.reply)'
      BY <1>2 DEF TabsInv, Known, Exists, Quiet, Tab
  <2> QED
      BY <2>1, <2>2, <2>3, QuietLasting, TabsKnow DEF TabsInv, Types
<1>4. ASSUME losses = 0, NEW y \in Tabs, tab'[y].phase = "granted" PROVE Grant(y)'
  <2>1. y # x /\ tab'[y] = tab[y] /\ Grant(y)
      BY <1>1, <1>4 DEF TabsInv, Newest
  <2>2. /\ tab[y].seen \in Sessions /\ tab[y].reply \in Sessions
      BY <1>1, <1>2, <1>4, <2>1 DEF Tab, TabsInv, Known, Holding, Refreshing, Grant
  <2>3. /\ session'[tab'[y].seen].successor = tab'[y].reply
        /\ session'[tab'[y].reply].successor = NoSession
      BY <2>1, <2>2 DEF Grant, Quiet
  <2>4. stored' # tab'[y].reply
      BY <2>1, <2>2 DEF Grant
  <2>5. ASSUME NEW z \in Tabs
        PROVE  /\ tab'[z].seen # tab'[y].reply
               /\ tab'[z].phase = "granted" /\ tab'[z].reply = tab'[y].reply => z = y
      BY <1>1, <2>1, <2>2 DEF Grant
  <2> QED
      BY <2>1, <2>3, <2>4, <2>5 DEF Grant
<1>5. ASSUME losses = 0 PROVE StoredNewest'
  <2>1. SUFFICES ASSUME stored' # NoSession, session'[stored'].successor # NoSession
                 PROVE  \E y \in Tabs : /\ tab'[y].phase = "granted"
                                        /\ tab'[y].reply = session'[stored'].successor
      BY DEF StoredNewest
  <2>2. stored' = stored /\ session'[stored].successor = session[stored].successor
      BY <2>1 DEF TabsInv, Types, Quiet
  <2>3. PICK y \in Tabs : /\ tab[y].phase = "granted"
                          /\ tab[y].reply = session[stored].successor
      BY <1>5, <2>1, <2>2 DEF TabsInv, Newest, StoredNewest
  <2>4. tab'[y] = tab[y]
      BY <1>1, <2>3
  <2> QED
      BY <2>2, <2>3, <2>4
<1>6. Newest'
    BY <1>4, <1>5 DEF Newest, TabsInv
<1>7. ASSUME webLocks, losses = 0, NEW y \in Tabs, tab'[y].phase \in Refreshing
      PROVE  /\ \A z \in Tabs : tab'[z].phase \in Refreshing => z = y
             /\ tab'[y].phase # "granted" => session'[tab'[y].seen].successor = NoSession
  <2>1. CASE r.phase \in Refreshing /\ ~(tab[x].phase \in Refreshing /\ r.seen = tab[x].seen)
    <3>1. LockFree /\ r.seen = stored /\ stored # NoSession
        BY <1>7, <2>1 DEF Holding
    <3>2. y = x /\ \A z \in Tabs : tab'[z].phase \in Refreshing => z = y
        BY <1>1, <1>7, <3>1 DEF LockFree
    <3>3. session[stored].successor = NoSession
        BY <1>7, <3>1 DEF TabsInv, Newest, StoredNewest, LockFree, Refreshing
    <3> QED
        BY <1>1, <3>1, <3>2, <3>3 DEF TabsInv, Types, Quiet
  <2>2. CASE r.phase \notin Refreshing \/ (tab[x].phase \in Refreshing /\ r.seen = tab[x].seen)
    <3>1. /\ tab[y].phase \in Refreshing /\ tab'[y].seen = tab[y].seen
          /\ \A z \in Tabs : tab'[z].phase \in Refreshing => tab[z].phase \in Refreshing
        BY <1>1, <1>7, <2>2
    <3>2. \A z \in Tabs : tab'[z].phase \in Refreshing => z = y
        BY <1>7, <3>1 DEF TabsInv, Alone
    <3>3. tab[y].seen \in Sessions
        BY <1>2, <3>1 DEF TabsInv, Known, Holding, Tab
    <3>4. tab'[y].phase # "granted" => tab[y].phase # "granted"
        BY <1>1
    <3> QED
        BY <1>7, <3>1, <3>2, <3>3, <3>4 DEF TabsInv, Alone, Quiet
  <2> QED
      BY <2>1, <2>2
<1>8. Alone'
    BY <1>7 DEF Alone
<1> QED
    BY <1>3, <1>6, <1>8 DEF TabsInv

(* Once an answer is lost only what is known matters. *)
LEMMA AfterLoss ==
  ASSUME Types', Known', losses' # 0
  PROVE  TabsInv'
BY DEF TabsInv, Newest, Alone

(* The server grants x a session, which nobody knows. *)
LEMMA ServeGrants ==
  ASSUME AuthInv, TabsInv, NEW x \in Tabs, NEW t \in Sessions,
         tab[x].phase = "sent", tab[x].seen \in Sessions, Refresh(tab[x].seen, t),
         tab' = [tab EXCEPT ![x].phase = "granted", ![x].reply = t],
         UNCHANGED <<stored, stray, losses, refusals, webLocks>>
  PROVE  BrowserInv'
<1> DEFINE s == tab[x].seen
<1>1. \A y \in Tabs : tab[y] \in Tab
    BY DEF TabsInv, Types
<1> DEFINE granted == [tab[x] EXCEPT !.phase = "granted", !.reply = t]
<1>a. granted \in Tab /\ tab' = [tab EXCEPT ![x] = granted]
    BY <1>1 DEF TabsInv, Types, Tab, Phases, Refreshing
<1>b. PICK r \in Tab : r = granted
    BY <1>a
<1>2. r \in Tab /\ r.phase = "granted" /\ r.reply = t /\ r.seen = s
    BY <1>1, <1>b DEF Tab
<1>3. tab' = [tab EXCEPT ![x] = r]
    BY <1>a, <1>b
<1>4. tab'[x] = r /\ \A y \in Tabs \ {x} : tab'[y] = tab[y]
    BY <1>3 DEF TabsInv, Types
<1>5. s \in Sessions
    OBVIOUS
<1> HIDE DEF granted
<1>6. /\ AuthInv' /\ Lasting
      /\ s # t /\ Absent(t) /\ ~Absent(t)'
      /\ session[s].successor = NoSession
      /\ session'[s].successor = t /\ session'[t].successor = NoSession
      /\ \A v \in Sessions \ {s} : session'[v].successor = session[v].successor
    BY <1>5, RefreshPasses
<1>7. t # NoSession /\ s # NoSession
    BY <1>5, AuthConstants
<1>8. /\ stored # t /\ t \notin stray
      /\ \A y \in Tabs : tab[y].seen # t /\ tab[y].reply # t
    BY <1>6, <1>7 DEF TabsInv, Known, Exists
<1>9. Types' /\ Known'
  <2>1. Exists(stored)' /\ \A v \in stray' : ~Absent(v)'
      BY <1>6 DEF TabsInv, Types, Known, Exists, Lasting
  <2>2. Types /\ Known /\ stored' \in Sessions \union {NoSession} /\ stray' \subseteq Sessions
        /\ losses' \in Nat
      BY DEF TabsInv, Types
  <2>3. r.seen = tab[x].seen /\ (r.reply # NoSession => ~Absent(r.reply)') /\ r.seen # NoSession
      BY <1>2, <1>6, <1>7
  <2>4. /\ r \in Tab /\ r.seen \in {tab[x].seen, stored, NoSession}
        /\ r.phase \in Holding => r.seen # NoSession
        /\ tab' = [tab EXCEPT ![x] = r] /\ Lasting
      BY <1>2, <1>3, <1>6, <2>3
  <2> HIDE DEF s
  <2> QED
      BY ONLY x \in Tabs, <2>1, <2>2, <2>3, <2>4, TabsKnow
<1> HIDE DEF s
<1>10. ASSUME losses = 0, NEW y \in Tabs, tab'[y].phase = "granted" PROVE Grant(y)'
  <2>1. CASE y = x
      BY <1>2, <1>4, <1>6, <1>7, <1>8, <2>1 DEF Grant
  <2>2. CASE y # x
    <3>1. tab'[y] = tab[y] /\ Grant(y)
        BY <1>4, <1>10, <2>2 DEF TabsInv, Newest
    <3>2. tab[y].seen \in Sessions /\ tab[y].reply \in Sessions /\ tab[y].reply # s
        BY <1>1, <1>10, <3>1 DEF Tab, TabsInv, Known, Holding, Refreshing, Grant, s
    <3>3. tab[y].seen # s
        BY <1>6, <3>1 DEF Grant
    <3>4. tab[y].reply # t
        BY <1>8
    <3>5. ASSUME NEW z \in Tabs
          PROVE  /\ tab'[z].seen # tab'[y].reply
                 /\ tab'[z].phase = "granted" /\ tab'[z].reply = tab'[y].reply => z = y
        BY <1>2, <1>4, <3>1, <3>2, <3>4 DEF Grant
    <3>6. /\ session'[tab[y].seen].successor = tab[y].reply
          /\ session'[tab[y].reply].successor = NoSession
        BY <1>6, <3>1, <3>2, <3>3 DEF Grant
    <3> QED
        BY <3>1, <3>5, <3>6 DEF Grant
  <2> QED
      BY <2>1, <2>2
<1>11. ASSUME losses = 0 PROVE StoredNewest'
  <2>1. CASE stored = s
      BY <1>2, <1>4, <1>6, <2>1 DEF StoredNewest
  <2>2. CASE stored # s
    <3>1. SUFFICES ASSUME stored # NoSession, session'[stored].successor # NoSession
                   PROVE  \E y \in Tabs : /\ tab'[y].phase = "granted"
                                          /\ tab'[y].reply = session'[stored].successor
        BY DEF StoredNewest
    <3>2. session'[stored].successor = session[stored].successor
        BY <1>6, <2>2, <3>1 DEF TabsInv, Types
    <3>3. PICK y \in Tabs : /\ tab[y].phase = "granted"
                            /\ tab[y].reply = session[stored].successor
        BY <1>11, <3>1, <3>2 DEF TabsInv, Newest, StoredNewest
    <3>4. tab'[y] = tab[y]
        BY <1>4, <3>3
    <3> QED
        BY <3>2, <3>3, <3>4
  <2> QED
      BY <2>1, <2>2
<1>12. Newest'
    BY <1>10, <1>11 DEF Newest, TabsInv
<1>13. ASSUME webLocks, losses = 0, NEW y \in Tabs, tab'[y].phase \in Refreshing
       PROVE  /\ \A z \in Tabs : tab'[z].phase \in Refreshing => z = y
              /\ tab'[y].phase # "granted" => session'[tab'[y].seen].successor = NoSession
  <2>1. \A z \in Tabs : tab'[z].phase \in Refreshing => tab[z].phase \in Refreshing
      BY <1>4 DEF Refreshing
  <2>2. \A z \in Tabs : tab[z].phase \in Refreshing => z = x
      BY <1>13 DEF TabsInv, Alone, Refreshing
  <2> QED
      BY <1>2, <1>4, <1>13, <2>1, <2>2
<1>14. Alone'
    BY <1>13 DEF Alone
<1> QED
    BY <1>6, <1>9, <1>12, <1>14 DEF BrowserInv, TabsInv

(* x stores what it was granted. *)
LEMMA GrantedKeeps ==
  ASSUME BrowserInv, NEW x \in Tabs, Granted(x), UNCHANGED webLocks
  PROVE  BrowserInv'
<1>1. \A y \in Tabs : tab[y] \in Tab
    BY DEF BrowserInv, TabsInv, Types
<1> DEFINE t == tab[x].reply
<1>2. tab'[x] = Idle /\ \A y \in Tabs \ {x} : tab'[y] = tab[y]
    BY DEF Granted, BrowserInv, TabsInv, Types
<1>3. /\ Idle \in Tab /\ Idle.phase = "idle"
      /\ Idle.seen = NoSession /\ Idle.reply = NoSession
    BY DEF Idle, Tab, Phases
<1>4. AuthInv'
    BY AuthInvKept DEF Granted, BrowserInv, authVars
<1>5. Quiet /\ Lasting
    BY UnchangedQuiet, QuietLasting DEF Granted
<1>6. Types' /\ Known'
  <2>1. stored' \in Sessions \union {NoSession} /\ Exists(stored)'
      BY <1>1, <1>5 DEF Granted, BrowserInv, TabsInv, Known, Exists, Tab, Lasting
  <2>2. \A v \in stray' : ~Absent(v)'
      BY <1>5 DEF Granted, BrowserInv, TabsInv, Types, Known, Lasting
  <2> QED
      BY <1>3, <1>5, <2>1, <2>2, TabsKnow
         DEF Granted, BrowserInv, TabsInv, Types, Holding, Refreshing
<1>7. ASSUME losses = 0, NEW y \in Tabs, tab'[y].phase = "granted" PROVE Grant(y)'
  <2>1. y # x /\ tab'[y] = tab[y] /\ Grant(y) /\ tab[x].phase = "granted"
      BY <1>2, <1>3, <1>7 DEF Granted, BrowserInv, TabsInv, Newest
  <2>2. stored' # tab[y].reply
      BY <2>1 DEF Grant, Granted
  <2>3. \A z \in Tabs :
          /\ tab'[z].seen # tab'[y].reply
          /\ tab'[z].phase = "granted" /\ tab'[z].reply = tab'[y].reply => z = y
      BY <1>2, <1>3, <2>1 DEF Grant
  <2> QED
      BY <2>1, <2>2, <2>3 DEF Grant, Granted
<1>8. losses = 0 => session[t].successor = NoSession
    BY DEF Granted, BrowserInv, TabsInv, Newest, Grant
<1>9. Newest'
    BY <1>7, <1>8 DEF Newest, StoredNewest, Granted, BrowserInv, TabsInv
<1>10. Alone'
    BY <1>2, <1>3 DEF Alone, Granted, BrowserInv, TabsInv, Refreshing
<1> QED
    BY <1>4, <1>6, <1>9, <1>10 DEF BrowserInv, TabsInv

LEMMA SignInKeeps ==
  ASSUME BrowserInv, NEW x \in Tabs, NEW s \in Sessions, SignIn(x, s), UNCHANGED webLocks
  PROVE  BrowserInv'
<1>1. /\ AuthInv' /\ Lasting
      /\ Absent(s) /\ ~Absent(s)'
      /\ \A v \in Sessions : session'[v].successor = session[v].successor
    BY LoginOpensUnknown DEF SignIn, BrowserInv
<1>2. session'[s].successor = NoSession
    BY <1>1, NoRowFields DEF BrowserInv, AuthInv, Committed
<1>3. \A y \in Tabs : tab[y] \in Tab
    BY DEF BrowserInv, TabsInv, Types
<1>4. Types' /\ Known'
  <2>1. Types'
      BY DEF SignIn, BrowserInv, TabsInv, Types
  <2>2. Exists(stored)' /\ \A v \in stray' : ~Absent(v)'
      BY <1>1 DEF SignIn, BrowserInv, TabsInv, Types, Known, Exists, Lasting
  <2>3. ASSUME NEW y \in Tabs
        PROVE  /\ Exists(tab[y].seen)' /\ Exists(tab[y].reply)'
               /\ tab'[y].phase \in Holding => tab'[y].seen # NoSession
      BY <1>1, <1>3 DEF SignIn, BrowserInv, TabsInv, Known, Exists, Lasting, Tab
  <2> QED
      BY <2>1, <2>2, <2>3 DEF Known
<1>5. ASSUME losses = 0, NEW y \in Tabs, tab'[y].phase = "granted" PROVE Grant(y)'
  <2>1. Grant(y) /\ tab' = tab
      BY <1>5 DEF SignIn, BrowserInv, TabsInv, Newest
  <2>2. tab[y].seen \in Sessions /\ tab[y].reply \in Sessions
      BY <1>3, <1>5, <2>1 DEF Tab, BrowserInv, TabsInv, Known, Holding, Refreshing, Grant
  <2>3. tab[y].reply # s
      BY <1>1, <2>1 DEF BrowserInv, TabsInv, Known, Exists, Grant
  <2> QED
      BY <1>1, <2>1, <2>2, <2>3 DEF Grant, SignIn
<1>6. Newest'
    BY <1>2, <1>5 DEF Newest, StoredNewest, SignIn, BrowserInv, TabsInv
<1>7. ASSUME NEW y \in Tabs, tab[y].phase \in Refreshing
      PROVE  session'[tab[y].seen].successor = session[tab[y].seen].successor
    BY <1>1, <1>3, <1>7 DEF Tab, BrowserInv, TabsInv, Known, Holding
<1>8. Alone'
    BY <1>7 DEF Alone, SignIn, BrowserInv, TabsInv
<1> QED
    BY <1>1, <1>4, <1>6, <1>8 DEF BrowserInv, TabsInv

-----------------------------------------------------------------------------
(* The handlers *)

LEMMA IdleIs ==
  /\ Idle \in Tab /\ Idle.phase = "idle"
  /\ Idle.seen = NoSession /\ Idle.reply = NoSession
BY DEF Idle, Tab, Phases

(* The server was not asked. *)
LEMMA NothingServed ==
  ASSUME BrowserInv, UNCHANGED <<session, password>>
  PROVE  AuthInv' /\ Quiet /\ Lasting
BY AuthInvKept, UnchangedQuiet, QuietLasting DEF BrowserInv, authVars

(* A tab that gives up keeps or forgets its pair. *)
LEMMA Retreats ==
  ASSUME BrowserInv, NEW x \in Tabs, NEW r \in Tab,
         AuthInv', Quiet, tab' = [tab EXCEPT ![x] = r],
         stored' \in {stored, NoSession}, UNCHANGED <<stray, losses, webLocks>>,
         r.phase \notin Holding, r.seen \in {tab[x].seen, NoSession},
         r.reply \in {tab[x].reply, NoSession}, tab[x].phase # "granted"
  PROVE  BrowserInv'
<1>1. r.phase \notin Refreshing /\ r.phase # "granted"
    BY DEF Holding, Refreshing
<1>2. TabsInv'
    BY <1>1, TabMoves DEF BrowserInv
<1> QED
    BY <1>2 DEF BrowserInv

LEMMA TabFields ==
  ASSUME TabsInv, NEW x \in Tabs, NEW phase \in Phases
  PROVE  /\ tab[x] \in Tab
         /\ [tab EXCEPT ![x].phase = phase] = [tab EXCEPT ![x] = [tab[x] EXCEPT !.phase = phase]]
         /\ [tab[x] EXCEPT !.phase = phase] \in Tab
         /\ [tab[x] EXCEPT !.phase = phase].phase = phase
         /\ [tab[x] EXCEPT !.phase = phase].seen = tab[x].seen
         /\ [tab[x] EXCEPT !.phase = phase].reply = tab[x].reply
BY DEF TabsInv, Types, Tab

LEMMA GotoKeeps ==
  ASSUME BrowserInv, NEW x \in Tabs, NEW phase \in Phases \ {"granted"}, Goto(x, phase),
         AuthInv', Quiet, stored' \in {stored, NoSession},
         UNCHANGED <<stray, losses, webLocks>>, tab[x].phase # "granted",
         phase \in Holding => tab[x].seen # NoSession,
         phase \in Refreshing =>
           \/ tab[x].phase \in Refreshing
           \/ tab[x].seen = stored /\ (webLocks => LockFree)
  PROVE  BrowserInv'
<1> DEFINE r == [tab[x] EXCEPT !.phase = phase]
<1>1. /\ tab' = [tab EXCEPT ![x] = r] /\ r \in Tab /\ r.phase = phase
      /\ r.seen = tab[x].seen /\ r.reply = tab[x].reply
    BY TabFields DEF Goto, BrowserInv
<1> HIDE DEF r
<1>2. TabsInv'
    BY <1>1, TabMoves DEF BrowserInv
<1> QED
    BY <1>2 DEF BrowserInv

FailedTab == [Idle EXCEPT !.phase = "failed"]

LEMMA FailedTabIs ==
  /\ FailedTab \in Tab /\ FailedTab.phase = "failed"
  /\ FailedTab.seen = NoSession /\ FailedTab.reply = NoSession
BY DEF FailedTab, Idle, Tab, Phases

LEMMA IdleKeeps ==
  ASSUME BrowserInv, NEW x \in Tabs,
         tab' = [tab EXCEPT ![x] = Idle] \/ tab' = [tab EXCEPT ![x] = FailedTab],
         UNCHANGED <<session, password>>, stored' \in {stored, NoSession},
         UNCHANGED <<stray, losses, webLocks>>, tab[x].phase # "granted"
  PROVE  BrowserInv'
<1>1. PICK r \in {Idle, FailedTab} : tab' = [tab EXCEPT ![x] = r]
    OBVIOUS
<1>2. r \in Tab /\ r.phase \notin Holding /\ r.seen = NoSession /\ r.reply = NoSession
    BY IdleIs, FailedTabIs DEF Holding, Refreshing
<1>3. AuthInv' /\ Quiet
    BY NothingServed
<1> QED
    BY <1>1, <1>2, <1>3, Retreats

LEMMA ReturnStoredIs ==
  ASSUME NEW x \in Tabs, ReturnStored(x)
  PROVE  tab' = [tab EXCEPT ![x] = Idle] \/ tab' = [tab EXCEPT ![x] = FailedTab]
BY DEF ReturnStored, FailedTab

(* The phases that begin with the stored pair. *)
LEMMA BeginKeeps ==
  ASSUME BrowserInv, NEW x \in Tabs, NEW phase \in {"waiting", "leaving"},
         tab[x].phase = "idle", stored # NoSession,
         tab' = [tab EXCEPT ![x] = [Idle EXCEPT !.phase = phase, !.seen = stored]],
         UNCHANGED <<session, password, stored, stray, losses, webLocks>>
  PROVE  BrowserInv'
<1> DEFINE r == [Idle EXCEPT !.phase = phase, !.seen = stored]
<1>1. /\ r \in Tab /\ r.phase = phase /\ r.seen = stored /\ r.reply = NoSession
      /\ tab' = [tab EXCEPT ![x] = r]
    BY DEF Idle, Tab, Phases, BrowserInv, TabsInv, Types
<1> HIDE DEF r
<1>2. AuthInv' /\ Quiet
    BY NothingServed
<1>3. r.phase \notin Refreshing /\ r.phase # "granted"
    BY <1>1 DEF Refreshing
<1>4. TabsInv'
    BY <1>1, <1>2, <1>3, TabMoves DEF BrowserInv
<1> QED
    BY <1>2, <1>4 DEF BrowserInv

LEMMA PostKeeps ==
  ASSUME BrowserInv, NEW x \in Tabs, Post(x), UNCHANGED webLocks
  PROVE  BrowserInv'
<1>1. AuthInv' /\ Quiet
    BY NothingServed DEF Post
<1>2. CASE stored = NoSession
    BY <1>1, <1>2, GotoKeeps DEF Post, Phases, Holding, Refreshing
<1>3. CASE stored # NoSession /\ stored # tab[x].seen
    BY <1>3, IdleKeeps DEF Post
<1>4. CASE stored # NoSession /\ stored = tab[x].seen
    BY <1>1, <1>4, GotoKeeps DEF Post, Phases, Holding, Refreshing
<1> QED
    BY <1>2, <1>3, <1>4

LEMMA ServeKeeps ==
  ASSUME BrowserInv, NEW x \in Tabs, NEW t \in Sessions, Serve(x, t), UNCHANGED webLocks
  PROVE  BrowserInv'
<1>1. tab[x].seen \in Sessions
    BY DEF Serve, BrowserInv, TabsInv, Types, Known, Holding, Refreshing, Tab
<1>2. CASE Refresh(tab[x].seen, t)
          /\ tab' = [tab EXCEPT ![x].phase = "granted", ![x].reply = t]
    BY <1>1, <1>2, ServeGrants DEF Serve, BrowserInv
<1>3. CASE Goto(x, "denied") /\ UNCHANGED <<session, password>>
  <2>1. AuthInv' /\ Quiet
      BY <1>3, NothingServed
  <2> QED
      BY <1>1, <1>3, <2>1, AuthConstants, GotoKeeps DEF Serve, Phases, Refreshing
<1> QED
    BY <1>2, <1>3 DEF Serve

LEMMA RefreshDeniedKeeps ==
  ASSUME BrowserInv, NEW x \in Tabs, RefreshDenied(x), UNCHANGED webLocks
  PROVE  BrowserInv'
<1>1. AuthInv' /\ Quiet
    BY NothingServed DEF RefreshDenied
<1>2. CASE stored # tab[x].seen
    BY <1>2, ReturnStoredIs, IdleKeeps DEF RefreshDenied
<1>3. CASE stored = tab[x].seen
  <2>1. tab[x].seen # NoSession
      BY DEF RefreshDenied, BrowserInv, TabsInv, Known, Holding, Refreshing
  <2> QED
      BY <1>1, <1>3, <2>1, GotoKeeps DEF RefreshDenied, Phases, Refreshing
<1> QED
    BY <1>2, <1>3

LEMMA GraceEndsKeeps ==
  ASSUME BrowserInv, NEW x \in Tabs, GraceEnds(x), UNCHANGED webLocks
  PROVE  BrowserInv'
<1>1. AuthInv' /\ Quiet
    BY NothingServed DEF GraceEnds
<1>2. CASE stored # tab[x].seen
    BY <1>2, ReturnStoredIs, IdleKeeps DEF GraceEnds
<1>3. CASE stored = tab[x].seen
    BY <1>1, <1>3, GotoKeeps DEF GraceEnds, Phases, Holding, Refreshing
<1> QED
    BY <1>2, <1>3

LEMMA ServeLogoutKeeps ==
  ASSUME BrowserInv, NEW x \in Tabs, ServeLogout(x), UNCHANGED webLocks
  PROVE  BrowserInv'
<1>1. tab[x].seen \in Sessions
    BY DEF ServeLogout, BrowserInv, TabsInv, Types, Known, Holding, Tab
<1>2. AuthInv' /\ Quiet
  <2>1. CASE Logout(tab[x].seen)
      BY <1>1, <2>1, LogoutQuiet DEF BrowserInv
  <2>2. CASE UNCHANGED <<session, password>>
      BY <2>2, NothingServed
  <2> QED
      BY <2>1, <2>2 DEF ServeLogout
<1> QED
    BY <1>2, GotoKeeps DEF ServeLogout, Phases, Holding, Refreshing

(* Losses: only what the tabs know is at stake. *)
LEMMA Lost == ASSUME TabsInv, Lose PROVE losses' \in Nat /\ losses' # 0
BY DEF TabsInv, Types, Lose

LEMMA NetworkFailsKeeps ==
  ASSUME BrowserInv, NEW x \in Tabs, NetworkFails(x)
  PROVE  BrowserInv'
<1>1. AuthInv' /\ Quiet /\ Lasting
    BY NothingServed DEF NetworkFails
<1>2. PICK r \in {Idle, FailedTab} : tab' = [tab EXCEPT ![x] = r]
    BY ReturnStoredIs DEF NetworkFails
<1>3. /\ r \in Tab /\ r.phase \notin Holding /\ r.seen = NoSession /\ r.reply = NoSession
    BY IdleIs, FailedTabIs DEF Holding, Refreshing
<1>4. stray' = stray \/ (tab[x].phase = "sent" /\ stray' = stray \union {tab[x].seen})
    BY DEF NetworkFails
<1>5. stray' \subseteq Sessions /\ \A v \in stray' : ~Absent(v)
    BY <1>4 DEF BrowserInv, TabsInv, Types, Known, Exists, Holding, Refreshing, Tab
<1>6. \A v \in stray' : ~Absent(v)'
    BY <1>1, <1>5 DEF Lasting
<1>7. stored' \in Sessions \union {NoSession} /\ Exists(stored)'
    BY <1>1 DEF NetworkFails, BrowserInv, TabsInv, Types, Known, Exists, Lasting
<1>8. losses' \in Nat /\ losses' # 0
    BY Lost DEF NetworkFails, BrowserInv
<1>9. Types' /\ Known'
    BY <1>1, <1>2, <1>3, <1>5, <1>6, <1>7, <1>8, TabsKnow DEF BrowserInv, TabsInv
<1> QED
    BY <1>1, <1>8, <1>9, AfterLoss DEF BrowserInv

LEMMA LogoutFailsKeeps ==
  ASSUME BrowserInv, NEW x \in Tabs, LogoutFails(x)
  PROVE  BrowserInv'
<1>1. AuthInv' /\ Quiet /\ Lasting
    BY NothingServed DEF LogoutFails
<1>2. PICK r \in Tab : /\ tab' = [tab EXCEPT ![x] = r] /\ r.phase = "left"
                       /\ r.seen = tab[x].seen /\ r.reply = tab[x].reply
    BY TabFields DEF LogoutFails, Goto, BrowserInv, Phases
<1>3. \A v \in stray' : ~Absent(v)'
    BY <1>1 DEF LogoutFails, BrowserInv, TabsInv, Types, Known, Lasting
<1>4. stored' \in Sessions \union {NoSession} /\ Exists(stored)' /\ stray' \subseteq Sessions
    BY <1>1 DEF LogoutFails, BrowserInv, TabsInv, Types, Known, Exists, Lasting
<1>5. losses' \in Nat /\ losses' # 0
    BY Lost DEF LogoutFails, BrowserInv
<1>6. r.phase \notin Holding
    BY <1>2 DEF Holding, Refreshing
<1>7. r.reply # NoSession => ~Absent(r.reply)'
    BY <1>1, <1>2 DEF BrowserInv, TabsInv, Types, Known, Exists, Lasting, Tab
<1>8. Types' /\ Known'
    BY <1>1, <1>2, <1>3, <1>4, <1>5, <1>6, <1>7, TabsKnow DEF BrowserInv, TabsInv
<1> QED
    BY <1>1, <1>5, <1>8, AfterLoss DEF BrowserInv

(* Nothing is stray before the first loss. *)
LEMMA ServeStrayKeeps ==
  ASSUME BrowserInv, NEW s \in Sessions, NEW t \in Sessions, ServeStray(s, t)
  PROVE  BrowserInv'
<1>1. AuthInv' /\ Lasting
  <2>1. CASE Refresh(s, t)
      BY <2>1, RefreshPasses DEF BrowserInv
  <2>2. CASE UNCHANGED <<session, password>>
      BY <2>2, NothingServed
  <2> QED
      BY <2>1, <2>2 DEF ServeStray
<1>2. losses' # 0
    BY DEF ServeStray, BrowserInv, TabsInv, Newest
<1>3. Types'
    BY DEF ServeStray, BrowserInv, TabsInv, Types
<1>4. Known'
  <2>1. Exists(stored)' /\ \A v \in stray' : ~Absent(v)'
      BY <1>1 DEF ServeStray, BrowserInv, TabsInv, Types, Known, Exists, Lasting
  <2>2. ASSUME NEW y \in Tabs
        PROVE  /\ Exists(tab[y].seen)' /\ Exists(tab[y].reply)'
               /\ tab'[y].phase \in Holding => tab'[y].seen # NoSession
    <3>1. tab[y] \in Tab /\ tab' = tab
        BY DEF ServeStray, BrowserInv, TabsInv, Types
    <3> QED
        BY <1>1, <3>1 DEF BrowserInv, TabsInv, Known, Exists, Lasting, Tab
  <2> QED
      BY <2>1, <2>2 DEF Known
<1> QED
    BY <1>1, <1>2, <1>3, <1>4, AfterLoss DEF BrowserInv

(* A session expires, or nothing happens. *)
LEMMA StillKeeps ==
  ASSUME BrowserInv, AuthInv', Quiet, UNCHANGED <<stored, tab, stray, losses, webLocks>>
  PROVE  BrowserInv'
<1>1. \A y \in Tabs : tab[y] \in Tab
    BY DEF BrowserInv, TabsInv, Types
<1>2. Types' /\ Known'
    BY <1>1 DEF BrowserInv, TabsInv, Types, Known, Exists, Quiet, Tab
<1>3. ASSUME losses = 0, NEW y \in Tabs, tab[y].phase = "granted" PROVE Grant(y)'
  <2>1. Grant(y)
      BY <1>3 DEF BrowserInv, TabsInv, Newest
  <2>2. tab[y].seen \in Sessions /\ tab[y].reply \in Sessions
      BY <1>1, <1>3, <2>1 DEF Tab, BrowserInv, TabsInv, Known, Holding, Refreshing, Grant
  <2> QED
      BY <2>1, <2>2 DEF Grant, Quiet
<1>4. losses = 0 => StoredNewest'
    BY DEF StoredNewest, Quiet, BrowserInv, TabsInv, Types, Newest
<1>5. Newest'
    BY <1>3, <1>4 DEF Newest, BrowserInv, TabsInv
<1>6. ASSUME NEW y \in Tabs, tab[y].phase \in Refreshing
      PROVE  session'[tab[y].seen].successor = session[tab[y].seen].successor
    BY <1>1, <1>6 DEF Tab, BrowserInv, TabsInv, Known, Holding, Quiet
<1>7. Alone'
    BY <1>6 DEF Alone, BrowserInv, TabsInv
<1> QED
    BY <1>2, <1>5, <1>7 DEF BrowserInv, TabsInv

-----------------------------------------------------------------------------
LEMMA ProgressKeeps ==
  ASSUME BrowserInv, NEW x \in Tabs, Progress(x), UNCHANGED webLocks
  PROVE  BrowserInv'
<1>1. CASE Post(x)
    BY <1>1, PostKeeps
<1>2. ASSUME NEW t \in Sessions, Serve(x, t) PROVE BrowserInv'
    BY <1>2, ServeKeeps
<1>3. CASE ServerFails(x)
    BY <1>3, ReturnStoredIs, IdleKeeps DEF ServerFails
<1>4. CASE Granted(x)
    BY <1>4, GrantedKeeps
<1>5. CASE RefreshDenied(x)
    BY <1>5, RefreshDeniedKeeps
<1>6. CASE GraceEnds(x)
    BY <1>6, GraceEndsKeeps
<1>7. CASE Failed(x)
    BY <1>7, IdleKeeps DEF Failed
<1>8. CASE ServeLogout(x)
    BY <1>8, ServeLogoutKeeps
<1>9. CASE Left(x)
    BY <1>9, IdleKeeps DEF Left
<1> QED
    BY <1>1, <1>2, <1>3, <1>4, <1>5, <1>6, <1>7, <1>8, <1>9 DEF Progress

LEMMA InitKeeps == Init => BrowserInv
<1> SUFFICES ASSUME Init PROVE BrowserInv
    OBVIOUS
<1>1. AuthInv
    BY AuthInvStarts DEF Init
<1>2. \A x \in Tabs : tab[x] = Idle
    BY DEF Init
<1>3. Types
    BY IdleIs DEF Init, Types
<1>4. Known
    BY <1>2, IdleIs DEF Init, Known, Exists, Holding, Refreshing
<1>5. Newest /\ Alone
    BY <1>2, IdleIs DEF Init, Newest, StoredNewest, Alone, Refreshing
<1> QED
    BY <1>1, <1>3, <1>4, <1>5 DEF BrowserInv, TabsInv

THEOREM BrowserInvHolds == Spec => []BrowserInv
<1>1. BrowserInv /\ [Next]_vars => BrowserInv'
  <2> SUFFICES ASSUME BrowserInv, [Next]_vars PROVE BrowserInv'
      OBVIOUS
  <2>1. CASE Next
    <3>1. UNCHANGED webLocks
        BY <2>1 DEF Next
    <3>2. ASSUME NEW x \in Tabs, Progress(x) PROVE BrowserInv'
        BY <3>1, <3>2, ProgressKeeps
    <3>3. ASSUME NEW x \in Tabs, Refused(x) PROVE BrowserInv'
        BY <3>1, <3>3, BeginKeeps DEF Refused
    <3>4. ASSUME NEW x \in Tabs, Leave(x) PROVE BrowserInv'
        BY <3>1, <3>4, BeginKeeps DEF Leave
    <3>5. ASSUME NEW x \in Tabs, NEW s \in Sessions, SignIn(x, s) PROVE BrowserInv'
        BY <3>1, <3>5, SignInKeeps
    <3>6. ASSUME NEW x \in Tabs, NetworkFails(x) PROVE BrowserInv'
        BY <3>6, NetworkFailsKeeps
    <3>7. ASSUME NEW x \in Tabs, LogoutFails(x) PROVE BrowserInv'
        BY <3>7, LogoutFailsKeeps
    <3>8. ASSUME NEW s \in Sessions, SessionExpires(s) PROVE BrowserInv'
        BY <3>1, <3>8, ExpiryQuiet, StillKeeps DEF SessionExpires, BrowserInv
    <3>9. ASSUME NEW s \in Sessions, NEW t \in Sessions, ServeStray(s, t) PROVE BrowserInv'
        BY <3>9, ServeStrayKeeps
    <3> QED
        BY <2>1, <3>2, <3>3, <3>4, <3>5, <3>6, <3>7, <3>8, <3>9 DEF Next
  <2>2. CASE UNCHANGED vars
      BY <2>2, NothingServed, StillKeeps DEF vars
  <2> QED
      BY <2>1, <2>2
<1> QED
    BY <1>1, InitKeeps, PTL DEF Spec

(* While no answer is lost, the stored pair is the newest of its family, or
   the newer one is on its way to the one tab it was granted to. *)
THEOREM StoredNewestHolds == Spec => []StoredNewest
<1>1. BrowserInv => StoredNewest
    BY DEF BrowserInv, TabsInv, Newest, StoredNewest
<1> QED
    BY <1>1, BrowserInvHolds, PTL

(* Tabs that refresh under the lock never present a token that was rotated
   away. *)
THEOREM DeniedIsOverHolds == Spec => []DeniedIsOver
<1>1. BrowserInv => DeniedIsOver
    BY DEF BrowserInv, TabsInv, Alone, DeniedIsOver, Refreshing
<1> QED
    BY <1>1, BrowserInvHolds, PTL

-----------------------------------------------------------------------------
(* The outbox, with any number of workers *)

Invalidate(s) == <<s, "invalidate">>
State(s) == intent[Invalidate(s)].state

OutboxTypes ==
  /\ intent \in [Intents -> IntentRow]
  /\ exec \in [Workers -> Execution]
  /\ cache \subseteq Sessions /\ wire \subseteq Sessions

(* A session has its invalidate as soon as it is revoked, and not before. *)
Owed == \A s \in Sessions : State(s) # "absent" <=> session[s].state = "revoked"

(* Nobody sets the key of a session that is over, if nobody did when it ended. *)
Undisturbed == \A s \in Sessions \ overlap : State(s) # "absent" => ~BeingSet(s)

(* A worker works on what was asked for; an invalidate that is done, and not
   recorded yet, has left no key. *)
AtWork(x, rows, keys, gap) ==
  /\ x.phase # "idle" => x.intent \in Intents /\ rows[x.intent].state # "absent"
  /\ x.phase = "done" /\ x.intent[2] = "invalidate" /\ x.intent[1] \notin gap
       => x.intent[1] \notin keys

OutboxInv ==
  /\ AuthInv /\ OutboxTypes /\ Owed /\ Undisturbed /\ InvalidateLasts
  /\ \A w \in Workers : AtWork(exec[w], intent, cache, overlap)

LEMMA IntentOf ==
  /\ \A s \in Sessions : \A k \in Kinds : <<s, k>> \in Intents /\ <<s, k>>[1] = s /\ <<s, k>>[2] = k
  /\ \A i \in Intents : i[1] \in Sessions /\ i[2] \in Kinds /\ i = <<i[1], i[2]>>
BY DEF Intents

LEMMA InvalidateIs ==
  ASSUME NEW s \in Sessions
  PROVE  /\ Invalidate(s) \in Intents
         /\ Invalidate(s)[1] = s /\ Invalidate(s)[2] = "invalidate"
         /\ \A t \in Sessions : /\ Invalidate(t) = Invalidate(s) => t = s
                              /\ Invalidate(s) # <<t, "populate">>
BY DEF Invalidate, Intents, Kinds

LEMMA InvalidateOf ==
  ASSUME NEW i \in Intents, i[2] = "invalidate"
  PROVE  i[1] \in Sessions /\ i = Invalidate(i[1])
BY IntentOf DEF Invalidate

LEMMA LastsIs ==
  InvalidateLasts <=> \A s \in Sessions \ overlap : State(s) = "succeeded" => s \notin cache
BY DEF InvalidateLasts, State, Invalidate

LEMMA RowStates ==
  /\ Blank \in IntentRow /\ Blank.state = "absent"
  /\ Queued \in IntentRow /\ Queued.state = "queued"
  /\ [Blank EXCEPT !.state = "succeeded"] \in IntentRow
  /\ [Blank EXCEPT !.state = "succeeded"].state = "succeeded"
  /\ [Queued EXCEPT !.due = FALSE] \in IntentRow
  /\ [Queued EXCEPT !.due = FALSE].state = "queued"
BY DEF Blank, Queued, IntentRow

LEMMA RestingIs == Resting \in Execution /\ Resting.phase = "idle"
BY DEF Resting, Execution

(* The requests: a session that ends while its key is being set is marked. *)
LEMMA RequestKeeps ==
  ASSUME OutboxInv, AuthInv', Owed', UNCHANGED <<exec, cache, wire>>,
         intent' \in [Intents -> IntentRow], overlap \subseteq overlap',
         \A i \in Intents : intent'[i] = intent[i] \/ intent'[i].state = "queued",
         \A s \in Sessions : \/ State(s)' = State(s)
                             \/ (State(s)' = "queued" /\ (BeingSet(s) => s \in overlap'))
  PROVE  OutboxInv'
<1>1. OutboxTypes'
    BY DEF OutboxInv, OutboxTypes
<1>2. \A s \in Sessions : BeingSet(s)' <=> BeingSet(s)
    BY DEF BeingSet
<1>3. Undisturbed'
    BY <1>2 DEF OutboxInv, Undisturbed
<1>4. InvalidateLasts'
  <2>1. \A s \in Sessions \ overlap' : State(s)' = "succeeded" => s \notin cache'
      BY LastsIs DEF OutboxInv
  <2> QED
      BY <2>1 DEF InvalidateLasts, State, Invalidate
<1>5. \A w \in Workers : AtWork(exec[w], intent, cache, overlap)'
    BY IntentOf DEF OutboxInv, AtWork
<1> QED
    BY <1>1, <1>3, <1>4, <1>5 DEF OutboxInv

(* Clocks and failures: no session, no worker and no outcome moves. *)
LEMMA TickKeeps ==
  ASSUME OutboxInv, AuthInv', UNCHANGED <<exec, overlap>>,
         cache' \subseteq Sessions, wire' \subseteq wire,
         \A s \in cache' \ cache : s \in wire,
         \A s \in Sessions : session'[s].state = session[s].state,
         intent' \in [Intents -> IntentRow],
         \A i \in Intents : intent'[i].state = intent[i].state
  PROVE  OutboxInv'
<1>1. OutboxTypes'
    BY DEF OutboxInv, OutboxTypes
<1>2. \A s \in Sessions : State(s)' = State(s)
    BY InvalidateIs DEF State
<1>3. \A s \in Sessions : BeingSet(s)' => BeingSet(s)
    BY DEF BeingSet
<1>4. Owed' /\ Undisturbed'
    BY <1>2, <1>3 DEF OutboxInv, Owed, Undisturbed
<1>5. \A s \in Sessions \ overlap : State(s) # "absent" /\ s \notin cache => s \notin cache'
    BY DEF OutboxInv, Undisturbed, BeingSet
<1>6. InvalidateLasts'
  <2>1. \A s \in Sessions \ overlap' : State(s)' = "succeeded" => s \notin cache'
      BY <1>2, <1>5, LastsIs DEF OutboxInv
  <2> QED
      BY <2>1 DEF InvalidateLasts, State, Invalidate
<1>7. \A w \in Workers : AtWork(exec[w], intent, cache, overlap)'
  <2> SUFFICES ASSUME NEW w \in Workers PROVE AtWork(exec[w], intent', cache', overlap)
      OBVIOUS
  <2>1. AtWork(exec[w], intent, cache, overlap)
      BY DEF OutboxInv
  <2>2. exec[w].phase # "idle" => exec[w].intent \in Intents
                                  /\ intent'[exec[w].intent].state # "absent"
      BY <2>1 DEF AtWork
  <2>3. ASSUME exec[w].phase = "done", exec[w].intent[2] = "invalidate",
               exec[w].intent[1] \notin overlap
        PROVE  exec[w].intent[1] \notin cache'
    <3> DEFINE i == exec[w].intent
    <3>1. i \in Intents /\ intent[i].state # "absent" /\ i[1] \notin cache
        BY <2>1, <2>3 DEF AtWork
    <3>2. i[1] \in Sessions /\ State(i[1]) # "absent"
        BY <2>3, <3>1, InvalidateOf DEF State
    <3> QED
        BY <1>5, <2>3, <3>1, <3>2
  <2> QED
      BY <2>2, <2>3 DEF AtWork
<1> QED
    BY <1>1, <1>4, <1>6, <1>7 DEF OutboxInv

(* A step of worker w, which becomes x: the others notice nothing, because the
   keys of sessions that are over are only ever taken away. *)
LEMMA WorkKeeps ==
  ASSUME OutboxInv, NEW w \in Workers, NEW x \in Execution,
         exec' = [exec EXCEPT ![w] = x], UNCHANGED <<session, password, overlap>>,
         intent' \in [Intents -> IntentRow], cache' \subseteq Sessions, wire' \subseteq Sessions,
         \A i \in Intents : intent'[i].state = "absent" <=> intent[i].state = "absent",
         AtWork(x, intent', cache', overlap),
         \A s \in Sessions \ overlap : State(s) # "absent" =>
           /\ s \notin wire' /\ ~Setting(x, s) /\ (s \notin cache => s \notin cache'),
         \A s \in Sessions \ overlap : State(s)' = "succeeded" => s \notin cache'
  PROVE  OutboxInv'
<1>1. \A v \in Workers : exec'[v] = IF v = w THEN x ELSE exec[v]
    BY DEF OutboxInv, OutboxTypes
<1>2. exec' \in [Workers -> Execution]
    BY DEF OutboxInv, OutboxTypes
<1>3. AuthInv'
    BY AuthInvKept DEF OutboxInv, authVars
<1>4. \A s \in Sessions : State(s)' = "absent" <=> State(s) = "absent"
    BY InvalidateIs DEF State
<1>5. Owed'
    BY <1>4 DEF OutboxInv, Owed
<1>6. Undisturbed'
  <2> SUFFICES ASSUME NEW s \in Sessions \ overlap, State(s) # "absent" PROVE ~BeingSet(s)'
      BY <1>4 DEF Undisturbed
  <2>1. ~BeingSet(s)
      BY DEF OutboxInv, Undisturbed
  <2> QED
      BY <1>1, <2>1 DEF BeingSet
<1>7. InvalidateLasts'
  <2>1. \A s \in Sessions \ overlap' : State(s)' = "succeeded" => s \notin cache'
      OBVIOUS
  <2> QED
      BY <2>1 DEF InvalidateLasts, State, Invalidate
<1>8. \A v \in Workers : AtWork(exec[v], intent, cache, overlap)'
  <2> SUFFICES ASSUME NEW v \in Workers PROVE AtWork(exec'[v], intent', cache', overlap)
      OBVIOUS
  <2>1. CASE v = w
      BY <1>1, <2>1
  <2>2. CASE v # w
    <3> DEFINE y == exec[v]
    <3>1. exec'[v] = y /\ AtWork(y, intent, cache, overlap)
        BY <1>1, <2>2 DEF OutboxInv
    <3>2. y.phase # "idle" => y.intent \in Intents /\ intent'[y.intent].state # "absent"
        BY <3>1 DEF AtWork
    <3>3. ASSUME y.phase = "done", y.intent[2] = "invalidate", y.intent[1] \notin overlap
          PROVE  y.intent[1] \notin cache'
      <4> DEFINE i == y.intent
      <4>1. i \in Intents /\ intent[i].state # "absent" /\ i[1] \notin cache
          BY <3>1, <3>3 DEF AtWork
      <4>2. i[1] \in Sessions /\ State(i[1]) # "absent"
          BY <3>3, <4>1, InvalidateOf DEF State
      <4> QED
          BY <3>3, <4>1, <4>2
    <3> QED
        BY <3>1, <3>2, <3>3 DEF AtWork
  <2> QED
      BY <2>1, <2>2
<1> QED
    BY <1>2, <1>3, <1>5, <1>6, <1>7, <1>8 DEF OutboxInv, OutboxTypes

LEMMA EnqueuedRows ==
  ASSUME OutboxTypes, NEW is
  PROVE  /\ Enqueued(is) \in [Intents -> IntentRow]
         /\ \A i \in Intents : Enqueued(is)[i] = IF i \in is THEN Queued ELSE intent[i]
BY RowStates DEF Enqueued, OutboxTypes

LEMMA ObserveIs ==
  ASSUME NEW s, Observe(s)
  PROVE  overlap \subseteq overlap' /\ (BeingSet(s) => s \in overlap')
BY DEF Observe

LEMMA OpenSessionKeeps ==
  ASSUME OutboxInv, NEW s \in Sessions, OpenSession(s, password)
  PROVE  OutboxInv'
<1>1. /\ AuthTypeOK /\ password \in 0..MaxPasswords /\ Login(s, password) /\ Absent(s)
      /\ UNCHANGED <<cache, wire, exec, overlap>> /\ intent' = Enqueued({<<s, "populate">>})
    BY DEF OutboxInv, AuthInv, AuthTypeOK, OpenSession, Login
<1>2. session'[s].state = "active" /\ \A t \in Sessions \ {s} : session'[t] = session[t]
  <2>1. session'[s] = NewRow(s, NoSession, password) /\ Elsewhere({s})
      BY <1>1, LoginEffect
  <2> QED
      BY <2>1 DEF NewRow, PendingRow, Elsewhere
<1>3. AuthInv'
    BY <1>1, LoginKeepsAuthInv DEF OutboxInv
<1>4. intent' \in [Intents -> IntentRow]
    BY <1>1, EnqueuedRows DEF OutboxInv
<1>5. \A t \in Sessions : State(t)' = State(t)
  <2>1. \A t \in Sessions : Invalidate(t) \in Intents /\ Invalidate(t) \notin {<<s, "populate">>}
      BY InvalidateIs
  <2> QED
      BY <1>1, <2>1, EnqueuedRows DEF OutboxInv, State
<1>6. Owed'
    BY <1>1, <1>2, <1>5 DEF OutboxInv, Owed, Absent
<1>7. \A i \in Intents : intent'[i] = intent[i] \/ intent'[i].state = "queued"
    BY <1>1, EnqueuedRows, RowStates DEF OutboxInv
<1> QED
    BY <1>1, <1>3, <1>4, <1>5, <1>6, <1>7, RequestKeeps

LEMMA RotateKeeps ==
  ASSUME OutboxInv, NEW s \in Sessions, NEW t \in Sessions, Rotate(s, t)
  PROVE  OutboxInv'
<1> DEFINE both == {<<s, "invalidate">>, <<t, "populate">>}
<1>1. /\ AuthTypeOK /\ Refresh(s, t) /\ ~Absent(s) /\ Absent(t)
      /\ Observe(s) /\ UNCHANGED <<cache, wire, exec>> /\ intent' = Enqueued(both)
    BY DEF OutboxInv, AuthInv, Rotate, Refresh, Usable, Absent
<1>2. /\ s # t /\ session'[s].state = "revoked" /\ session'[t].state = "active"
      /\ \A x \in Sessions \ {s, t} : session'[x] = session[x]
  <2>1. session[s].family \in Sessions
      BY <1>1 DEF OutboxInv, AuthInv, Committed
  <2>2. /\ s # t /\ Elsewhere({s, t})
        /\ session'[s] = [session[s] EXCEPT !.state = "revoked", !.successor = t]
        /\ session'[t] = NewRow(session[s].family, s, session[s].password)
      BY <1>1, <2>1, RefreshEffect
  <2>3. session[s] \in Row
      BY <1>1 DEF AuthTypeOK
  <2> QED
      BY <2>2, <2>3 DEF NewRow, PendingRow, Elsewhere, Row
<1>3. AuthInv'
    BY <1>1, RefreshKeepsAuthInv DEF OutboxInv
<1>4. intent' \in [Intents -> IntentRow]
    BY <1>1, EnqueuedRows DEF OutboxInv
<1>5. \A x \in Sessions : State(x)' = IF x = s THEN "queued" ELSE State(x)
  <2>1. \A x \in Sessions : /\ Invalidate(x) \in Intents
                            /\ Invalidate(x) \in both <=> x = s
      BY InvalidateIs DEF Invalidate
  <2> QED
      BY <1>1, <2>1, EnqueuedRows, RowStates DEF OutboxInv, State
<1>6. Owed'
    BY <1>1, <1>2, <1>5 DEF OutboxInv, Owed, Absent
<1>7. \A i \in Intents : intent'[i] = intent[i] \/ intent'[i].state = "queued"
    BY <1>1, EnqueuedRows, RowStates DEF OutboxInv
<1> QED
    BY <1>1, <1>3, <1>4, <1>5, <1>6, <1>7, ObserveIs, RequestKeeps

LEMMA SignOutKeeps ==
  ASSUME OutboxInv, NEW s \in Sessions, SignOut(s)
  PROVE  OutboxInv'
<1>1. /\ AuthTypeOK /\ Logout(s)
      /\ Observe(s) /\ UNCHANGED <<cache, wire, exec>> /\ intent' = Enqueued({<<s, "invalidate">>})
    BY DEF OutboxInv, AuthInv, SignOut
<1>2. session'[s].state = "revoked" /\ \A x \in Sessions \ {s} : session'[x] = session[x]
  <2>1. session[s] \in Row
      BY <1>1 DEF AuthTypeOK
  <2> QED
      BY <1>1, <2>1, LogoutEffect DEF Elsewhere, Row
<1>3. AuthInv'
    BY <1>1, LogoutKeepsAuthInv DEF OutboxInv
<1>4. intent' \in [Intents -> IntentRow]
    BY <1>1, EnqueuedRows DEF OutboxInv
<1>5. \A x \in Sessions : State(x)' = IF x = s THEN "queued" ELSE State(x)
  <2>1. \A x \in Sessions : /\ Invalidate(x) \in Intents
                            /\ Invalidate(x) \in {<<s, "invalidate">>} <=> x = s
      BY InvalidateIs DEF Invalidate
  <2> QED
      BY <1>1, <2>1, EnqueuedRows, RowStates DEF OutboxInv, State
<1>6. Owed'
    BY <1>2, <1>5 DEF OutboxInv, Owed, Absent
<1>7. \A i \in Intents : intent'[i] = intent[i] \/ intent'[i].state = "queued"
    BY <1>1, EnqueuedRows, RowStates DEF OutboxInv
<1> QED
    BY <1>1, <1>3, <1>4, <1>5, <1>6, <1>7, ObserveIs, RequestKeeps

LEMMA RowExpiresKeeps ==
  ASSUME OutboxInv, NEW s \in Sessions, RowExpires(s)
  PROVE  OutboxInv'
<1>1. AuthTypeOK /\ Expires(s) /\ UNCHANGED <<intent, cache, wire, exec, overlap>>
    BY DEF OutboxInv, AuthInv, RowExpires
<1>2. \A x \in Sessions : session'[x].state = session[x].state
  <2>1. session[s] \in Row
      BY <1>1 DEF AuthTypeOK
  <2> QED
      BY <1>1, <2>1, ExpiryEffect DEF Elsewhere, Row
<1>3. AuthInv'
    BY <1>1, ExpiryKeepsAuthInv DEF OutboxInv
<1> QED
    BY <1>1, <1>2, <1>3, TickKeeps DEF OutboxInv, OutboxTypes

LEMMA LateSetKeeps ==
  ASSUME OutboxInv, NEW s \in Sessions, LateSet(s)
  PROVE  OutboxInv'
<1>1. /\ s \in wire /\ wire' \subseteq wire /\ cache' = cache \union {s}
      /\ UNCHANGED <<session, password, intent, exec, overlap>>
    BY DEF LateSet
<1>2. AuthInv'
    BY <1>1, AuthInvKept DEF OutboxInv, authVars
<1> QED
    BY <1>1, <1>2, TickKeeps DEF OutboxInv, OutboxTypes

LEMMA KeyExpiresKeeps ==
  ASSUME OutboxInv, NEW s \in Sessions, KeyExpires(s)
  PROVE  OutboxInv'
<1>1. cache' = cache \ {s} /\ UNCHANGED <<session, password, intent, wire, exec, overlap>>
    BY DEF KeyExpires
<1>2. AuthInv'
    BY <1>1, AuthInvKept DEF OutboxInv, authVars
<1> QED
    BY <1>1, <1>2, TickKeeps DEF OutboxInv, OutboxTypes

LEMMA TimeKeeps ==
  ASSUME OutboxInv, NEW i \in Intents, LeaseExpires(i) \/ BackOffEnds(i)
  PROVE  OutboxInv'
<1>1. intent[i] \in IntentRow
    BY DEF OutboxInv, OutboxTypes
<1>2. \E r \in IntentRow : intent' = [intent EXCEPT ![i] = r] /\ r.state = intent[i].state
  <2> DEFINE late == [intent[i] EXCEPT !.lease = "expired"]
             due == [intent[i] EXCEPT !.due = TRUE]
  <2>1. late \in IntentRow /\ late.state = intent[i].state
      BY <1>1 DEF IntentRow
  <2>2. due \in IntentRow /\ due.state = intent[i].state
      BY <1>1 DEF IntentRow
  <2>3. intent' = [intent EXCEPT ![i] = late] \/ intent' = [intent EXCEPT ![i] = due]
      BY DEF LeaseExpires, BackOffEnds
  <2> HIDE DEF late, due
  <2> QED
      BY <2>1, <2>2, <2>3
<1>3. /\ intent' \in [Intents -> IntentRow]
      /\ \A j \in Intents : intent'[j].state = intent[j].state
    BY <1>2 DEF OutboxInv, OutboxTypes
<1>4. UNCHANGED <<session, password, exec, cache, wire, overlap>>
    BY DEF LeaseExpires, BackOffEnds
<1>5. AuthInv'
    BY <1>4, AuthInvKept DEF OutboxInv, authVars
<1> QED
    BY <1>3, <1>4, <1>5, TickKeeps DEF OutboxInv, OutboxTypes

LEMMA Stepping ==
  ASSUME OutboxInv, NEW w \in Workers, NEW phase, Proceed(w, phase),
         phase \in {"set", "delete", "done", "error"}
  PROVE  /\ [exec[w] EXCEPT !.phase = phase] \in Execution
         /\ [exec[w] EXCEPT !.phase = phase].phase = phase
         /\ [exec[w] EXCEPT !.phase = phase].intent = exec[w].intent
         /\ exec' = [exec EXCEPT ![w] = [exec[w] EXCEPT !.phase = phase]]
BY DEF OutboxInv, OutboxTypes, Proceed, Execution

(* What is over is not set, cached or not. *)
LEMMA OverIs ==
  ASSUME OutboxInv
  PROVE  /\ \A s \in Sessions \ overlap : State(s) # "absent" =>
              s \notin wire /\ \A w \in Workers : ~Setting(exec[w], s)
         /\ \A s \in Sessions \ overlap : State(s) = "succeeded" => s \notin cache
BY LastsIs DEF OutboxInv, Undisturbed, BeingSet

LEMMA ClaimKeeps ==
  ASSUME OutboxInv, NEW w \in Workers, NEW i \in Intents, Claim(w, i)
  PROVE  OutboxInv'
<1> DEFINE r == [intent[i] EXCEPT !.state = "running", !.worker = w, !.lease = "live"]
           x == [phase |-> "look", intent |-> i]
<1>1. /\ intent' = [intent EXCEPT ![i] = r] /\ exec' = [exec EXCEPT ![w] = x]
      /\ UNCHANGED <<session, password, cache, wire, overlap>> /\ Claimable(intent[i])
    BY DEF Claim
<1>2. r \in IntentRow /\ r.state = "running" /\ intent[i].state # "absent"
    BY <1>1 DEF OutboxInv, OutboxTypes, IntentRow, Claimable
<1>3. x \in Execution /\ x.phase = "look" /\ x.intent = i
    BY DEF Execution
<1> HIDE DEF r, x
<1>4. /\ intent' \in [Intents -> IntentRow]
      /\ \A j \in Intents : intent'[j].state = IF j = i THEN "running" ELSE intent[j].state
    BY <1>1, <1>2 DEF OutboxInv, OutboxTypes
<1>5. \A s \in Sessions \ overlap : State(s)' = "succeeded" => s \notin cache'
    BY <1>1, <1>4, InvalidateIs, OverIs DEF State
<1>6. AtWork(x, intent', cache', overlap)
    BY <1>3, <1>4 DEF AtWork
<1>7. \A s \in Sessions \ overlap : State(s) # "absent" =>
        s \notin wire' /\ ~Setting(x, s) /\ (s \notin cache => s \notin cache')
    BY <1>1, <1>3, OverIs DEF Setting
<1>8. cache' \subseteq Sessions /\ wire' \subseteq Sessions
    BY <1>1 DEF OutboxInv, OutboxTypes
<1> QED
    BY <1>1, <1>2, <1>3, <1>4, <1>5, <1>6, <1>7, <1>8, WorkKeeps

(* The worker goes on with its intent and touches no row. *)
LEMMA MovesOn ==
  ASSUME OutboxInv, NEW w \in Workers, NEW x \in Execution,
         exec[w].phase # "idle", x.intent = exec[w].intent,
         exec' = [exec EXCEPT ![w] = x], UNCHANGED <<session, password, intent, overlap>>,
         cache' \subseteq Sessions, wire' \subseteq Sessions,
         x.phase = "done" /\ x.intent[2] = "invalidate" /\ x.intent[1] \notin overlap
           => x.intent[1] \notin cache',
         \A s \in Sessions \ overlap : State(s) # "absent" =>
           s \notin wire' /\ ~Setting(x, s) /\ (s \notin cache => s \notin cache')
  PROVE  OutboxInv'
<1>1. \A s \in Sessions : State(s)' = State(s)
    BY DEF State
<1>2. AtWork(x, intent', cache', overlap)
    BY DEF OutboxInv, AtWork
<1>3. \A s \in Sessions \ overlap : State(s)' = "succeeded" => s \notin cache'
    BY <1>1, OverIs
<1>4. intent' \in [Intents -> IntentRow]
    BY DEF OutboxInv, OutboxTypes
<1> QED
    BY <1>2, <1>3, <1>4, WorkKeeps

(* A session that is looked at as usable has no invalidate yet. *)
LEMMA LookKeeps ==
  ASSUME OutboxInv, NEW w \in Workers, Look(w)
  PROVE  OutboxInv'
<1> DEFINE i == exec[w].intent
           sets == i[2] = "populate" /\ Usable(i[1])
           phase == IF sets THEN "set" ELSE "delete"
           x == [exec[w] EXCEPT !.phase = phase]
<1>1. exec[w].phase = "look" /\ session' = [session EXCEPT ![i[1]] = Recovered(session[i[1]])]
    BY DEF Look
<1>2. i \in Intents /\ i[1] \in Sessions
    BY <1>1, IntentOf DEF OutboxInv, AtWork
<1>3. Recovered(session[i[1]]) = session[i[1]]
    BY <1>2 DEF OutboxInv, AuthInv, Committed, Recovered
<1>4. session' = session
    BY <1>1, <1>3 DEF OutboxInv, AuthInv, AuthTypeOK
<1>5. /\ exec[w].phase = "look" /\ Proceed(w, phase)
      /\ UNCHANGED <<session, password, intent, cache, wire, overlap>>
    BY <1>4, <1>3 DEF Look, Usable
<1>6. phase \in {"set", "delete"} /\ (phase = "set" => sets)
    OBVIOUS
<1>7. sets => State(i[1]) = "absent"
    BY <1>2, IntentOf DEF Usable, OutboxInv, Owed
<1> HIDE DEF phase, sets, i
<1>8. x \in Execution /\ x.phase = phase /\ x.intent = exec[w].intent
      /\ x.intent = i /\ exec' = [exec EXCEPT ![w] = x]
    BY <1>5, <1>6, Stepping DEF i
<1> HIDE DEF x
<1>9. \A s \in Sessions \ overlap : State(s) # "absent" =>
        s \notin wire' /\ ~Setting(x, s) /\ (s \notin cache => s \notin cache')
    BY <1>5, <1>6, <1>7, <1>8, OverIs DEF Setting
<1>10. cache' \subseteq Sessions /\ wire' \subseteq Sessions
    BY <1>5 DEF OutboxInv, OutboxTypes
<1>11. x.phase # "done"
    BY <1>6, <1>8
<1> QED
    BY <1>5, <1>8, <1>9, <1>10, <1>11, MovesOn

(* Redis carries a command out at once, later or never: a set is only of a
   session that is not over, or was not when the worker looked at it. *)
LEMMA CommandKeeps ==
  ASSUME OutboxInv, NEW w \in Workers, exec[w].phase \in {"set", "delete"},
         NEW p \in {"done", "error"}, Proceed(w, p),
         cache' \in {cache, Written(w)}, p = "done" => cache' = Written(w),
         UNCHANGED wire \/ Abandon(w),
         UNCHANGED <<session, password, intent, overlap>>
  PROVE  OutboxInv'
<1> DEFINE s == exec[w].intent[1]
           x == [exec[w] EXCEPT !.phase = p]
<1>1. exec[w].intent \in Intents /\ s \in Sessions
    BY IntentOf DEF OutboxInv, AtWork
<1>2. Written(w) = IF exec[w].phase = "set" THEN cache \union {s} ELSE cache \ {s}
    BY DEF Written
<1>3. wire' = wire \/ (exec[w].phase = "set" /\ wire' = wire \union {s})
    BY DEF Abandon
<1>4. cache' \subseteq Sessions /\ wire' \subseteq Sessions
    BY <1>1, <1>2, <1>3 DEF OutboxInv, OutboxTypes
<1>5. exec[w].phase = "set" /\ s \notin overlap => State(s) = "absent"
    BY <1>1, OverIs DEF Setting
<1>6. x \in Execution /\ x.phase = p /\ x.intent = exec[w].intent /\ exec' = [exec EXCEPT ![w] = x]
    BY Stepping
<1> HIDE DEF x
<1>7. \A t \in Sessions \ overlap : State(t) # "absent" =>
        t \notin wire' /\ ~Setting(x, t) /\ (t \notin cache => t \notin cache')
    BY <1>2, <1>3, <1>5, <1>6, OverIs DEF Setting
<1>8. ASSUME x.phase = "done", x.intent[2] = "invalidate", x.intent[1] \notin overlap
      PROVE  x.intent[1] \notin cache'
  <2>1. State(s) # "absent"
      BY <1>1, <1>6, <1>8, InvalidateOf DEF OutboxInv, AtWork, State
  <2>2. exec[w].phase = "delete"
      BY <1>5, <1>6, <1>8, <2>1
  <2> QED
      BY <1>2, <1>6, <1>8, <2>2
<1> QED
    BY <1>4, <1>6, <1>7, <1>8, MovesOn

(* Recorded or not, the worker is at rest afterwards. *)
LEMMA RestKeeps ==
  ASSUME OutboxInv, NEW w \in Workers, exec' = [exec EXCEPT ![w] = Resting],
         UNCHANGED <<session, password, cache, overlap>>,
         UNCHANGED wire \/ (Abandon(w) /\ exec[w].phase # "idle"),
         intent' \in [Intents -> IntentRow],
         \A i \in Intents : intent'[i].state = "absent" <=> intent[i].state = "absent",
         \A s \in Sessions \ overlap : State(s)' = "succeeded" => s \notin cache
  PROVE  OutboxInv'
<1> DEFINE t == exec[w].intent[1]
<1>1. Resting \in Execution /\ AtWork(Resting, intent', cache', overlap)
      /\ \A s \in Sessions : ~Setting(Resting, s)
    BY RestingIs DEF AtWork, Setting
<1>2. wire' = wire \/ (exec[w].phase = "set" /\ wire' = wire \union {t} /\ t \in Sessions)
    BY IntentOf DEF Abandon, OutboxInv, AtWork
<1>3. cache' \subseteq Sessions /\ wire' \subseteq Sessions
    BY <1>2 DEF OutboxInv, OutboxTypes
<1>4. \A s \in Sessions \ overlap : State(s) # "absent" => s \notin wire'
    BY <1>2, OverIs DEF Setting
<1> QED
    BY <1>1, <1>3, <1>4, WorkKeeps

LEMMA RecordKeeps ==
  ASSUME OutboxInv, NEW w \in Workers, NEW row \in IntentRow, Record(w, row),
         exec[w].phase # "idle", row.state # "absent",
         row.state = "succeeded" => exec[w].phase = "done"
  PROVE  OutboxInv'
<1> DEFINE i == exec[w].intent
<1>1. /\ intent' = IF Owns(w) THEN [intent EXCEPT ![i] = row] ELSE intent
      /\ exec' = [exec EXCEPT ![w] = Resting]
      /\ UNCHANGED <<session, password, cache, wire, overlap>>
    BY DEF Record
<1>2. i \in Intents
      /\ (exec[w].phase = "done" /\ i[2] = "invalidate" /\ i[1] \notin overlap => i[1] \notin cache)
    BY DEF OutboxInv, AtWork
<1>3. Owns(w) => intent[i].state # "absent"
    BY DEF Owns
<1>4. /\ intent' \in [Intents -> IntentRow]
      /\ \A j \in Intents : intent'[j] = IF Owns(w) /\ j = i THEN row ELSE intent[j]
    BY <1>1, <1>2 DEF OutboxInv, OutboxTypes
<1>5. \A s \in Sessions \ overlap : State(s)' = "succeeded" => s \notin cache
  <2> SUFFICES ASSUME NEW s \in Sessions \ overlap, State(s)' = "succeeded" PROVE s \notin cache
      OBVIOUS
  <2> DEFINE j == Invalidate(s)
  <2>1. j \in Intents /\ j[1] = s /\ j[2] = "invalidate"
      BY InvalidateIs
  <2>2. intent'[j].state = "succeeded"
      BY DEF State
  <2>3. CASE Owns(w) /\ j = i
      BY <1>2, <1>4, <2>1, <2>2, <2>3
  <2>4. CASE ~(Owns(w) /\ j = i)
    <3>1. State(s) = "succeeded"
        BY <1>4, <2>1, <2>2, <2>4 DEF State
    <3> QED
        BY <3>1, OverIs
  <2> QED
      BY <2>3, <2>4
<1> QED
    BY <1>1, <1>3, <1>4, <1>5, RestKeeps

LEMMA VanishKeeps ==
  ASSUME OutboxInv, NEW w \in Workers, Vanish(w)
  PROVE  OutboxInv'
<1>1. /\ exec' = [exec EXCEPT ![w] = Resting] /\ exec[w].phase # "idle" /\ Abandon(w)
      /\ UNCHANGED <<session, password, intent, cache, overlap>>
    BY DEF Vanish
<1>2. \A s \in Sessions \ overlap : State(s)' = "succeeded" => s \notin cache
    BY <1>1, OverIs DEF State
<1> QED
    BY <1>1, <1>2, RestKeeps DEF OutboxInv, OutboxTypes

LEMMA WorkerKeeps ==
  ASSUME OutboxInv, NEW w \in Workers, Work(w) \/ RedisFails(w) \/ Vanish(w)
  PROVE  OutboxInv'
<1>1. ASSUME NEW i \in Intents, Claim(w, i) PROVE OutboxInv'
    BY <1>1, ClaimKeeps
<1>3. CASE Look(w)
    BY <1>3, LookKeeps
<1>4. CASE WriteCache(w)
    BY <1>4, CommandKeeps DEF WriteCache
<1>5. CASE Complete(w)
    BY <1>5, RowStates, RecordKeeps DEF Complete
<1>6. CASE Reschedule(w)
    BY <1>6, RowStates, RecordKeeps DEF Reschedule
<1>7. CASE RedisFails(w)
    BY <1>7, CommandKeeps DEF RedisFails
<1>8. CASE Vanish(w)
    BY <1>8, VanishKeeps
<1> QED
    BY <1>1, <1>3, <1>4, <1>5, <1>6, <1>7, <1>8 DEF Work

LEMMA OutboxInvStarts == OutboxInit => OutboxInv
<1> SUFFICES ASSUME OutboxInit PROVE OutboxInv
    OBVIOUS
<1>1. AuthInv /\ session = [s \in Sessions |-> NoRow]
    BY AuthInvStarts DEF OutboxInit, AuthInit
<1>2. /\ intent = [i \in Intents |-> Blank] /\ cache = {} /\ wire = {}
      /\ exec = [w \in Workers |-> Resting]
    BY DEF OutboxInit
<1>3. OutboxTypes
    BY <1>2, RowStates, RestingIs DEF OutboxTypes
<1>4. \A s \in Sessions : State(s) = "absent" /\ session[s].state = "absent"
    BY <1>1, <1>2, InvalidateIs, RowStates, NoRowFields DEF State
<1>5. \A w \in Workers : AtWork(exec[w], intent, cache, overlap)
    BY <1>2, RestingIs DEF AtWork
<1>6. Owed /\ Undisturbed
    BY <1>4 DEF Owed, Undisturbed
<1>7. InvalidateLasts
    BY <1>2 DEF InvalidateLasts
<1> QED
    BY <1>1, <1>3, <1>5, <1>6, <1>7 DEF OutboxInv

LEMMA OutboxInvKept ==
  ASSUME OutboxInv, [OutboxNext]_outboxVars
  PROVE  OutboxInv'
<1>1. ASSUME NEW s \in Sessions, OpenSession(s, password) PROVE OutboxInv'
    BY <1>1, OpenSessionKeeps
<1>2. ASSUME NEW s \in Sessions, NEW t \in Sessions, Rotate(s, t) PROVE OutboxInv'
    BY <1>2, RotateKeeps
<1>3. ASSUME NEW s \in Sessions, SignOut(s) PROVE OutboxInv'
    BY <1>3, SignOutKeeps
<1>4. ASSUME NEW s \in Sessions, RowExpires(s) PROVE OutboxInv'
    BY <1>4, RowExpiresKeeps
<1>5. ASSUME NEW s \in Sessions, KeyExpires(s) PROVE OutboxInv'
    BY <1>5, KeyExpiresKeeps
<1>6. ASSUME NEW s \in Sessions, LateSet(s) PROVE OutboxInv'
    BY <1>6, LateSetKeeps
<1>7. ASSUME NEW i \in Intents, LeaseExpires(i) \/ BackOffEnds(i) PROVE OutboxInv'
    BY <1>7, TimeKeeps
<1>8. ASSUME NEW w \in Workers, Work(w) \/ RedisFails(w) \/ Vanish(w) PROVE OutboxInv'
    BY <1>8, WorkerKeeps
<1>9. ASSUME UNCHANGED outboxVars PROVE OutboxInv'
  <2>1. AuthInv' /\ UNCHANGED <<session, intent, cache, wire, exec, overlap>>
      BY <1>9, AuthInvKept DEF outboxVars, OutboxInv, authVars
  <2> QED
      BY <2>1, TickKeeps DEF OutboxInv, OutboxTypes
<1> QED
    BY <1>1, <1>2, <1>3, <1>4, <1>5, <1>6, <1>7, <1>8, <1>9 DEF OutboxNext, Request, Clock

(* An invalidate that is over has left no key, for any number of workers, unless
   the session was revoked while a set was under way: a revocation leaves its
   intent in the same commit, and whoever looks at the session later deletes. *)
THEOREM InvalidateLastsHolds == OutboxSpec => []InvalidateLasts
<1>1. OutboxInit => OutboxInv
    BY OutboxInvStarts
<1>2. OutboxInv /\ [OutboxNext]_outboxVars => OutboxInv'
    BY OutboxInvKept
<1>3. OutboxInv => InvalidateLasts
    BY DEF OutboxInv
<1> QED
    BY <1>1, <1>2, <1>3, PTL DEF OutboxSpec
=============================================================================
