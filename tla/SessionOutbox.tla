---------------------------- MODULE SessionOutbox ----------------------------
(***************************************************************************)
(* The session cache in Redis and the durable outbox that maintains it:    *)
(* every transaction of AuthSessions leaves an intent per key it makes     *)
(* stale, and the outbox workers of the API processes lease the intents,   *)
(* look at the session and set or delete its key.                          *)
(*                                                                         *)
(* A session causes at most one populate (when it becomes active) and one  *)
(* invalidate (when it is revoked), so an intent is named by session and   *)
(* kind.  Its budget is i32::MAX attempts and is left out.                 *)
(***************************************************************************)
EXTENDS AuthSessions

CONSTANTS
  Workers, NoWorker,
  MaxFaults   \* bound: crashes, stalls, errors of Redis and of the database

VARIABLES
  intent,  \* Sessions \X Kinds -> row of auth_session_intents
  cache,   \* the sessions whose key is in Redis
  wire,    \* the sessions of sets a worker gave up on and Redis may yet execute
  exec,    \* Workers -> what the outbox worker is doing
  overlap, \* observer: the sessions revoked while a set of their key was under way
  faults

outboxVars == <<session, password, intent, cache, wire, exec, overlap, faults>>

Kinds == {"populate", "invalidate"}
Intents == Sessions \X Kinds
NoIntent == <<NoSession, "populate">>

ASSUME OutboxConstants == NoWorker \notin Workers /\ MaxFaults \in Nat

IntentRow ==
  [state: {"absent", "queued", "running", "succeeded"}, due: BOOLEAN,
   worker: Workers \union {NoWorker}, lease: {"none", "live", "expired"}]

Execution ==
  [phase: {"idle", "look", "set", "delete", "done", "error"},
   intent: Intents \union {NoIntent}]

Blank == [state |-> "absent", due |-> FALSE, worker |-> NoWorker, lease |-> "none"]
Queued == [Blank EXCEPT !.state = "queued", !.due = TRUE]
Resting == [phase |-> "idle", intent |-> NoIntent]

(* enqueue_intent_tx, once for each element of is *)
Enqueued(is) == [i \in Intents |-> IF i \in is THEN Queued ELSE intent[i]]

-----------------------------------------------------------------------------
(* The transactions with their intents *)

(* Between the look at session s and the end of the command *)
Setting(x, s) == x.phase = "set" /\ x.intent[1] = s

BeingSet(s) == s \in wire \/ \E w \in Workers : Setting(exec[w], s)

Observe(s) == overlap' = IF BeingSet(s) THEN overlap \union {s} ELSE overlap

OpenSession(s, version) ==
  /\ Login(s, version)
  /\ intent' = Enqueued({<<s, "populate">>})
  /\ UNCHANGED <<cache, wire, exec, overlap, faults>>

Rotate(s, t) ==
  /\ Refresh(s, t)
  /\ intent' = Enqueued({<<s, "invalidate">>, <<t, "populate">>})
  /\ Observe(s)
  /\ UNCHANGED <<cache, wire, exec, faults>>

SignOut(s) ==
  /\ Logout(s)
  /\ intent' = Enqueued({<<s, "invalidate">>})
  /\ Observe(s)
  /\ UNCHANGED <<cache, wire, exec, faults>>

RowExpires(s) ==
  /\ Expires(s)
  /\ UNCHANGED <<intent, cache, wire, exec, overlap, faults>>

(* A key is set with the remaining life of its session. *)
KeyExpires(s) ==
  /\ s \in cache
  /\ session[s].passed
  /\ cache' = cache \ {s}
  /\ UNCHANGED <<session, password, intent, wire, exec, overlap, faults>>

-----------------------------------------------------------------------------
(* The outbox worker: process_one_outbox_intent *)

Proceed(w, phase) == exec' = [exec EXCEPT ![w].phase = phase]

(* Slip: only queued intents are claimed. *)
ClaimableQueued(r) == r.state = "queued" /\ r.due

Claimable(r) == \/ r.state = "queued" /\ r.due
                \/ r.state = "running" /\ r.lease = "expired"

Claim(w, i) ==
  /\ exec[w].phase = "idle"
  /\ Claimable(intent[i])
  /\ intent' = [intent EXCEPT ![i].state = "running", ![i].worker = w,
                              ![i].lease = "live"]
  /\ exec' = [exec EXCEPT ![w] = [phase |-> "look", intent |-> i]]
  /\ UNCHANGED <<session, password, cache, wire, overlap, faults>>

(* recover_incomplete_session: a committed row is never pending or rotating
   (SessionProofs proves it), so this changes no row. *)
Recovered(r) ==
  IF r.state \in {"pending", "rotating"}
  THEN [r EXCEPT !.state = IF r.passed THEN "expired" ELSE "revoked"]
  ELSE r

(* Slip: a populate sets the key without looking at the session. *)
LookNever(w) ==
  /\ exec[w].phase = "look"
  /\ Proceed(w, IF exec[w].intent[2] = "populate" THEN "set" ELSE "delete")
  /\ UNCHANGED <<session, password, intent, cache, wire, overlap, faults>>

(* The session is recovered and read, then Redis is called. *)
Look(w) ==
  LET i == exec[w].intent
      r == Recovered(session[i[1]])
      sets == i[2] = "populate" /\ r.state = "active" /\ ~r.passed
  IN /\ exec[w].phase = "look"
     /\ session' = [session EXCEPT ![i[1]] = r]
     /\ Proceed(w, IF sets THEN "set" ELSE "delete")
     /\ UNCHANGED <<password, intent, cache, wire, overlap, faults>>

Written(w) ==
  LET s == exec[w].intent[1]
  IN IF exec[w].phase = "set" THEN cache \union {s} ELSE cache \ {s}

WriteCache(w) ==
  /\ exec[w].phase \in {"set", "delete"}
  /\ cache' = Written(w)
  /\ Proceed(w, "done")
  /\ UNCHANGED <<session, password, intent, wire, overlap, faults>>

(* The fence of complete_intent and reschedule_intent *)
Owns(w) ==
  LET r == intent[exec[w].intent]
  IN r.state = "running" /\ r.worker = w /\ r.lease = "live"

(* The outcome is recorded if the lease is still this worker's; in any case
   the worker goes on to the next intent. *)
Record(w, row) ==
  /\ intent' = IF Owns(w) THEN [intent EXCEPT ![exec[w].intent] = row] ELSE intent
  /\ exec' = [exec EXCEPT ![w] = Resting]
  /\ UNCHANGED <<session, password, cache, wire, overlap, faults>>

Complete(w) ==
  exec[w].phase = "done" /\ Record(w, [Blank EXCEPT !.state = "succeeded"])

Reschedule(w) ==
  exec[w].phase = "error" /\ Record(w, [Queued EXCEPT !.due = FALSE])

-----------------------------------------------------------------------------
(* Faults and time *)

Fault == faults < MaxFaults /\ faults' = faults + 1

(* Nobody waits for the command any longer: it is lost, or Redis executes it
   later (LateSet).  A delete that comes late is of a session that is over and
   is left out. *)
Abandon(w) ==
  \/ UNCHANGED wire
  \/ exec[w].phase = "set" /\ wire' = wire \union {exec[w].intent[1]}

(* Redis fails or times out, the command executed, lost or still on its way. *)
RedisFails(w) ==
  /\ Fault
  /\ exec[w].phase \in {"set", "delete"}
  /\ \/ cache' = Written(w) /\ UNCHANGED wire
     \/ UNCHANGED cache /\ Abandon(w)
  /\ Proceed(w, "error")
  /\ UNCHANGED <<session, password, intent, overlap>>

(* The process dies and restarts, or a statement of the iteration fails. *)
Vanish(w) ==
  /\ Fault
  /\ exec[w].phase # "idle"
  /\ Abandon(w)
  /\ exec' = [exec EXCEPT ![w] = Resting]
  /\ UNCHANGED <<session, password, intent, cache, overlap>>

(* A set arrives after all; another of the same session may be behind it. *)
LateSet(s) ==
  /\ s \in wire
  /\ wire' \in {wire, wire \ {s}}
  /\ cache' = cache \union {s}
  /\ UNCHANGED <<session, password, intent, exec, overlap, faults>>

Attended(i) == \E w \in Workers : exec[w].intent = i /\ intent[i].worker = w

(* The lease of an intent nobody works on runs out; that of a worker at work
   only if it stalls, since a call to Redis is cut off well before. *)
LeaseExpires(i) ==
  /\ intent[i].lease = "live"
  /\ IF Attended(i) THEN Fault ELSE UNCHANGED faults
  /\ intent' = [intent EXCEPT ![i].lease = "expired"]
  /\ UNCHANGED <<session, password, cache, wire, exec, overlap>>

BackOffEnds(i) ==
  /\ intent[i].state = "queued"
  /\ ~intent[i].due
  /\ intent' = [intent EXCEPT ![i].due = TRUE]
  /\ UNCHANGED <<session, password, cache, wire, exec, overlap, faults>>

-----------------------------------------------------------------------------
OutboxInit ==
  /\ AuthInit
  /\ intent = [i \in Intents |-> Blank]
  /\ cache = {} /\ wire = {} /\ overlap = {}
  /\ exec = [w \in Workers |-> Resting]
  /\ faults = 0

Request ==
  \E s \in Sessions :
    \/ OpenSession(s, password)
    \/ \E t \in Sessions : Rotate(s, t)
    \/ SignOut(s)

Work(w) ==
  \/ \E i \in Intents : Claim(w, i)
  \/ Look(w) \/ WriteCache(w) \/ Complete(w) \/ Reschedule(w)

Clock ==
  \/ \E s \in Sessions : RowExpires(s) \/ KeyExpires(s) \/ LateSet(s)
  \/ \E i \in Intents : LeaseExpires(i) \/ BackOffEnds(i)

OutboxNext ==
  \/ Request
  \/ \E w \in Workers : Work(w) \/ RedisFails(w) \/ Vanish(w)
  \/ Clock

(* The workers loop for ever and their clocks run; Redis need not fail. *)
OutboxFairness ==
  /\ \A w \in Workers : WF_outboxVars(Work(w))
  /\ \A i \in Intents : /\ WF_outboxVars(BackOffEnds(i))
                        /\ WF_outboxVars(LeaseExpires(i) /\ UNCHANGED faults)

OutboxSpec == OutboxInit /\ [][OutboxNext]_outboxVars
FairOutbox == OutboxSpec /\ OutboxFairness

-----------------------------------------------------------------------------
(* Properties *)

Outstanding(s) ==
  \E k \in Kinds : intent[<<s, k>>].state \in {"queued", "running"}

(* An invalidate that is over has taken the key of its session away for good,
   however many workers serve the outbox and whoever of them died or lost its
   lease: unless the session was revoked after a worker had read it and before
   the set that follows from it ended, a gap no lease closes. *)
InvalidateLasts ==
  \A s \in Sessions \ overlap :
    intent[<<s, "invalidate">>].state = "succeeded" => s \notin cache

(* Whatever worker dies, stalls or finds Redis away, the outbox is eventually
   empty: every intent is carried out, by whichever worker is left.  (The run
   has finitely many sessions, so intents stop coming.) *)
IntentsDone ==
  (\E s \in Sessions : Outstanding(s)) ~> (\A s \in Sessions : ~Outstanding(s))
=============================================================================
