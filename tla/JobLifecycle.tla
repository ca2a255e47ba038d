---------------------------- MODULE JobLifecycle ----------------------------
(***************************************************************************)
(* What the durable queue promises about one job, whatever the number of   *)
(* workers and whatever crashes: the life cycle of JobState with a budget  *)
(* of attempts.  One step may move several jobs at once, so the next-state *)
(* relation is a relation between the old and the new record of each job.  *)
(***************************************************************************)
EXTENDS Naturals

CONSTANT Jobs

VARIABLE task   \* Jobs -> [state, attempts, max]

Active == {"queued", "running", "paused"}
Settled == {"succeeded", "failed", "cancelled"}

Task == [state: Active \union Settled \union {"absent"},
         attempts: Nat, max: Nat]

Moves(t, u, from, to) == t.state \in from /\ u.state = to

SameCount(t, u) == u.attempts = t.attempts /\ u.max = t.max

(* A job enters the queue with its whole budget. *)
Submit(t, u) ==
  Moves(t, u, {"absent"}, "queued") /\ u.attempts = 0 /\ u.max > 0

(* An attempt starts, also in place of one whose worker was lost, only
   within the budget. *)
Attempt(t, u) ==
  /\ Moves(t, u, {"queued", "running"}, "running")
  /\ t.attempts < t.max
  /\ u.attempts = t.attempts + 1
  /\ u.max = t.max

(* A failed attempt leaves budget for another. *)
TryAgain(t, u) ==
  /\ Moves(t, u, {"running"}, "queued")
  /\ t.attempts < t.max
  /\ SameCount(t, u)

Succeed(t, u) == Moves(t, u, {"running"}, "succeeded") /\ SameCount(t, u)

Fail(t, u) == Moves(t, u, {"queued", "running"}, "failed") /\ SameCount(t, u)

Pause(t, u) == Moves(t, u, {"queued", "running"}, "paused") /\ SameCount(t, u)

Resume(t, u) == Moves(t, u, {"paused"}, "queued") /\ SameCount(t, u)

(* A job may be cancelled at any time, even after it finished, when its
   project is purged. *)
Cancel(t, u) ==
  Moves(t, u, Active \union Settled, "cancelled") /\ SameCount(t, u)

(* A manual retry counts as an attempt and extends the budget by at least
   one execution. *)
Retry(t, u) ==
  /\ Moves(t, u, {"failed"}, "queued")
  /\ u.attempts = t.attempts + 1
  /\ u.max >= t.max
  /\ u.attempts < u.max

Step(t, u) ==
  \/ u = t
  \/ Submit(t, u) \/ Attempt(t, u) \/ TryAgain(t, u) \/ Succeed(t, u)
  \/ Fail(t, u) \/ Pause(t, u) \/ Resume(t, u) \/ Cancel(t, u) \/ Retry(t, u)

Init == task \in [Jobs -> Task] /\ \A j \in Jobs : task[j].state = "absent"

Next == task' \in [Jobs -> Task] /\ \A j \in Jobs : Step(task[j], task'[j])

Spec == Init /\ [][Next]_task
=============================================================================
