---------------------------- MODULE SessionFamily ----------------------------
(***************************************************************************)
(* What sign-in promises, without tables and statements: a family of       *)
(* sessions has at most one holder, a refresh passes the family on to a    *)
(* session that never held one, and a former holder never comes back.      *)
(***************************************************************************)
CONSTANTS Sessions, NoSession

VARIABLES
  holder,  \* Families -> the session that can authenticate, or NoSession
  former   \* sessions that have held a family and lost it

vars == <<holder, former>>

(* A family is named by the session that opened it. *)
Families == Sessions

Held == {holder[f] : f \in Families} \ {NoSession}

Fresh(s) == s \in Sessions \ (Held \union former)

Init == holder = [f \in Families |-> NoSession] /\ former = {}

Open(f) ==
  /\ Fresh(f)
  /\ holder[f] = NoSession
  /\ holder' = [holder EXCEPT ![f] = f]
  /\ UNCHANGED former

PassOn(f, s) ==
  /\ holder[f] # NoSession
  /\ Fresh(s)
  /\ holder' = [holder EXCEPT ![f] = s]
  /\ former' = former \union {holder[f]}

Close(f) ==
  /\ holder[f] # NoSession
  /\ holder' = [holder EXCEPT ![f] = NoSession]
  /\ former' = former \union {holder[f]}

Next ==
  \E f \in Families : \/ Open(f)
                      \/ Close(f)
                      \/ \E s \in Sessions : PassOn(f, s)

Spec == Init /\ [][Next]_vars
=============================================================================
