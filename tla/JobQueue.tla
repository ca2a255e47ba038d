------------------------------ MODULE JobQueue ------------------------------
(***************************************************************************)
(* The durable job queue of PRTS: the rows of table jobs, the worker loops *)
(* of the API processes that lease and execute them, and the deletion      *)
(* gate of the project a job belongs to (schedule, cancel, DB-first purge, *)
(* external cleanup).                                                      *)
(*                                                                         *)
(* Every action is one database transaction or one step of a worker.  Time *)
(* is abstract: a lease is live or expired, a queued row is due or not, a  *)
(* deletion deadline has passed or not.  Leases and run_after are compared *)
(* with the database's clock, the deadline with the API process's clock.   *)
(***************************************************************************)
EXTENDS Integers, FiniteSets

CONSTANTS
  Jobs,          \* job ids the run may use up
  Projects,
  Workers,       \* worker incarnations: a process draws a fresh worker id
  NoJob,
  NoWorker,
  NoProject,
  RequestKinds,  \* the ordinary kinds the requests of this instance create
  Budget,        \* max_attempts, by kind
  RetryCap,      \* bound: no manual retry of a row with this many attempts
  MaxFaults      \* bound: crashes, errors, stalls and clock skews altogether

VARIABLES
  job,     \* Jobs -> row of table jobs
  proj,    \* Projects -> deletion state of the projects row
  media,   \* Projects -> the project's media and temp objects still exist
  exec,    \* Workers -> what the worker loop is doing
  faults   \* faults so far

vars == <<job, proj, media, exec, faults>>

Kinds == {"purge", "lexical", "embedding", "upload"}
Terminal == {"succeeded", "failed", "cancelled"}
States == {"absent", "queued", "running", "paused"} \union Terminal
Busy == {"run", "external", "done", "error"}
Phases == {"unborn", "idle", "polled", "dead"} \union Busy

ASSUME ConstantsOK ==
  /\ NoJob \notin Jobs
  /\ NoWorker \notin Workers
  /\ NoProject \notin Projects
  /\ IsFiniteSet(Workers)
  /\ RequestKinds \subseteq {"lexical", "upload"}
  /\ Budget \in [Kinds -> Nat \ {0}]
  /\ RetryCap \in Nat
  /\ MaxFaults \in Nat

Row ==
  [kind: Kinds, home: Projects \union {NoProject}, linked: BOOLEAN, state: States,
   reason: {"none", "pending_deletion"}, stage: {"start", "external"},
   attempts: Nat, max: Nat, due: BOOLEAN,
   worker: Workers \union {NoWorker}, lease: {"none", "live", "expired"}]

Execution ==
  [phase: Phases, job: Jobs \union {NoJob}, attempt: Nat,
   snap: SUBSET Projects]

ProjectRow ==
  [state: {"active", "pending", "gone"}, passed: BOOLEAN,
   purge: Jobs \union {NoJob}]

-----------------------------------------------------------------------------
(* Rows *)

NewRow(k, p, due) ==
  [kind |-> k, home |-> p, linked |-> TRUE, state |-> "queued",
   reason |-> "none", stage |-> "start", attempts |-> 0, max |-> Budget[k],
   due |-> due, worker |-> NoWorker, lease |-> "none"]

(* No row has been inserted under this id yet. *)
Blank ==
  [NewRow("upload", NoProject, FALSE) EXCEPT !.state = "absent", !.linked = FALSE]

(* jobs.project_id = p *)
Of(j, p) == job[j].state # "absent" /\ job[j].linked /\ job[j].home = p

(* CHECK jobs_pause_reason_chk: a statement that breaks it aborts its
   transaction. *)
ReasonOK(r) == (r.state = "paused") <=> (r.reason # "none")

Pausable(j, ps) ==
  /\ job[j].kind # "purge"
  /\ job[j].state \in {"queued", "running"}
  /\ \E p \in ps : Of(j, p)

Paused(r) ==
  [r EXCEPT !.state = "paused", !.reason = "pending_deletion",
            !.worker = NoWorker, !.lease = "none"]

PauseAll(ps) ==
  [j \in Jobs |-> IF Pausable(j, ps) THEN Paused(job[j]) ELSE job[j]]

Resumable(j, p) ==
  Of(j, p) /\ job[j].state = "paused" /\ job[j].reason = "pending_deletion"

Resumed(r) == [r EXCEPT !.state = "queued", !.reason = "none", !.due = TRUE]

Cancelled(r) ==
  [r EXCEPT !.state = "cancelled", !.worker = NoWorker, !.lease = "none"]

Unlinked(r) == [r EXCEPT !.linked = FALSE]

(* Slip: the purge cancels its own job with the others. *)
DetachedAll(j, p, purge) ==
  IF Of(j, p) THEN Unlinked(Cancelled(job[j])) ELSE job[j]

(* Slip: the purge unlinks the other jobs without cancelling them. *)
DetachedLive(j, p, purge) == IF Of(j, p) THEN Unlinked(job[j]) ELSE job[j]

(* detach_project_jobs_tx: pause_reason is not among the columns it sets. *)
Detached(j, p, purge) ==
  IF ~Of(j, p) THEN job[j]
  ELSE IF j = purge THEN Unlinked(job[j])
  ELSE Unlinked(Cancelled(job[j]))

-----------------------------------------------------------------------------
(* Requests: each holds the project row lock, then the job row lock. *)

Absent(j) == job[j].state = "absent"

(* A request of an active project creates an ordinary job. *)
CreateJob(j, p, k) ==
  /\ Absent(j)
  /\ proj[p].state = "active"
  /\ job' = [job EXCEPT ![j] = NewRow(k, p, TRUE)]
  /\ UNCHANGED <<proj, media, exec, faults>>

ScheduleDeletion(j, p) ==
  /\ Absent(j)
  /\ proj[p].state = "active"
  /\ job' = [PauseAll({p}) EXCEPT ![j] = NewRow("purge", p, FALSE)]
  /\ proj' = [proj EXCEPT ![p] =
                [state |-> "pending", passed |-> FALSE, purge |-> j]]
  /\ UNCHANGED <<media, exec, faults>>

(* Slip: the cancellation forgets the purge job. *)
CancelKeepsPurge(p) ==
  /\ proj[p].state = "pending"
  /\ ~proj[p].passed
  /\ job' = [j \in Jobs |->
               IF Resumable(j, p) THEN Resumed(job[j]) ELSE job[j]]
  /\ proj' = [proj EXCEPT ![p] =
                [state |-> "active", passed |-> FALSE, purge |-> NoJob]]
  /\ UNCHANGED <<media, exec, faults>>

CancelDeletion(p) ==
  /\ proj[p].state = "pending"
  /\ ~proj[p].passed
  /\ job[proj[p].purge].state \in {"queued", "paused"}
  /\ job' = [j \in Jobs |->
               IF j = proj[p].purge THEN Cancelled(job[j])
               ELSE IF Resumable(j, p) THEN Resumed(job[j])
               ELSE job[j]]
  /\ proj' = [proj EXCEPT ![p] =
                [state |-> "active", passed |-> FALSE, purge |-> NoJob]]
  /\ UNCHANGED <<media, exec, faults>>

(* require_view hides a pending project from POST /jobs/{id}/retry. *)
RetryPermitted(j) ==
  /\ job[j].state = "failed"
  /\ job[j].linked
  /\ proj[job[j].home].state = "active"

Retried(r) ==
  [r EXCEPT !.state = "queued", !.reason = "none", !.due = TRUE,
            !.worker = NoWorker, !.lease = "none", !.attempts = @ + 1,
            !.max = IF @ > r.attempts + 2 THEN @ ELSE r.attempts + 2]

ManualRetry(j) ==
  /\ RetryPermitted(j)
  /\ job[j].attempts < RetryCap
  /\ job' = [job EXCEPT ![j] = Retried(@)]
  /\ UNCHANGED <<proj, media, exec, faults>>

-----------------------------------------------------------------------------
(* The worker loop *)

Idle == [phase |-> "idle", job |-> NoJob, attempt |-> 0, snap |-> {}]
Dead == [Idle EXCEPT !.phase = "dead"]

StartWorker(w) ==
  /\ exec[w].phase = "unborn"
  /\ exec' = [exec EXCEPT ![w] = Idle]
  /\ UNCHANGED <<job, proj, media, faults>>

(* The pending ids are read by a query of their own, before the claim. *)
ReadPending(w) ==
  /\ exec[w].phase = "idle"
  /\ exec' = [exec EXCEPT ![w].phase = "polled",
       ![w].snap = {p \in Projects : proj[p].state = "pending"}]
  /\ UNCHANGED <<job, proj, media, faults>>

(* Slip: only queued rows are claimed, a lost worker's row is not. *)
ClaimableQueued(r) == r.state = "queued" /\ r.due

Claimable(r) == \/ r.state = "queued" /\ r.due
                \/ r.state = "running" /\ r.lease = "expired"

Exhausted(r) == Claimable(r) /\ r.attempts >= r.max

Candidate(r, snap) ==
  /\ Claimable(r)
  /\ r.attempts < r.max
  /\ r.kind = "purge" \/ (r.linked /\ r.home \notin snap)

Failed(r) ==
  [r EXCEPT !.state = "failed", !.worker = NoWorker, !.lease = "none"]

Leased(r, w) ==
  [r EXCEPT !.state = "running", !.reason = "none", !.worker = w,
            !.lease = "live", !.attempts = @ + 1]

(* The rows after the claim has paused the snapshot's jobs and failed the
   exhausted ones. *)
Swept(snap) ==
  [j \in Jobs |-> LET r == PauseAll(snap)[j]
                  IN IF Exhausted(r) THEN Failed(r) ELSE r]

(* Slip: the handler is given the row as it was before the lease. *)
HandedUnleased(r, j) ==
  [phase |-> IF r.kind = "purge" /\ r.stage = "external"
             THEN "external" ELSE "run",
   job |-> j, attempt |-> r.attempts, snap |-> {}]

Handed(r, j) ==
  [phase |-> IF r.kind = "purge" /\ r.stage = "external"
             THEN "external" ELSE "run",
   job |-> j, attempt |-> r.attempts + 1, snap |-> {}]

Claim(w, j) ==
  LET rows == Swept(exec[w].snap)
  IN /\ exec[w].phase = "polled"
     /\ Candidate(rows[j], exec[w].snap)
     /\ job' = [rows EXCEPT ![j] = Leased(@, w)]
     /\ exec' = [exec EXCEPT ![w] = Handed(rows[j], j)]
     /\ UNCHANGED <<proj, media, faults>>

ClaimNothing(w) ==
  LET rows == Swept(exec[w].snap)
  IN /\ exec[w].phase = "polled"
     /\ \A j \in Jobs : ~Candidate(rows[j], exec[w].snap)
     /\ job' = rows
     /\ exec' = [exec EXCEPT ![w] = Idle]
     /\ UNCHANGED <<proj, media, faults>>

(* The fence of renew_lease, complete and fail_attempt_tx. *)
Owns(w) ==
  LET r == job[exec[w].job]
  IN r.state = "running" /\ r.worker = w /\ r.lease = "live"

(* A renewal that updates no row drops the execution; one that succeeds
   leaves the lease live. *)
LoseLease(w) ==
  /\ exec[w].phase \in Busy
  /\ ~Owns(w)
  /\ exec' = [exec EXCEPT ![w] = Idle]
  /\ UNCHANGED <<job, proj, media, faults>>

(* The worker records an outcome if the fence holds, and polls again. *)
Record(w, row) ==
  /\ job' = IF Owns(w) THEN [job EXCEPT ![exec[w].job] = row] ELSE job
  /\ exec' = [exec EXCEPT ![w] = Idle]

Succeeded(r) ==
  [r EXCEPT !.state = "succeeded", !.worker = NoWorker, !.lease = "none"]

Complete(w) ==
  LET r == job[exec[w].job]
  IN /\ \/ exec[w].phase = "done"
        \/ exec[w].phase = "run" /\ r.kind \in {"embedding", "upload"}
     /\ Record(w, Succeeded(r))
     /\ UNCHANGED <<proj, media, faults>>

(* A retryable error with budget left requeues the row with a back-off. *)
Requeued(r) ==
  [r EXCEPT !.state = "queued", !.due = FALSE,
            !.worker = NoWorker, !.lease = "none"]

(* Slip: the budget is compared with <=. *)
AfterErrorLate(r, retryable) ==
  IF retryable /\ r.attempts <= r.max THEN Requeued(r) ELSE Failed(r)

AfterError(r, retryable) ==
  IF retryable /\ r.attempts < r.max THEN Requeued(r) ELSE Failed(r)

(* The purge handler's errors are all retryable. *)
FailAttempt(w, retryable) ==
  LET r == job[exec[w].job]
  IN /\ exec[w].phase = "error"
     /\ r.kind = "purge" => retryable
     /\ Record(w, AfterError(r, retryable))
     /\ UNCHANGED <<proj, media, faults>>

-----------------------------------------------------------------------------
(* The handlers *)

ActiveEmbedding(p) ==
  \E j \in Jobs : /\ Of(j, p)
                  /\ job[j].kind = "embedding"
                  /\ job[j].state \in {"queued", "running", "paused"}

(* The lexical handler's last transaction: it reuses the project's active
   embedding job or inserts one.  It checks neither the lease nor the
   deletion state; the foreign key refuses a project that is gone. *)
Spawn(w, j) ==
  LET p == job[exec[w].job].home
  IN /\ exec[w].phase = "run"
     /\ job[exec[w].job].kind = "lexical"
     /\ proj[p].state # "gone"
     /\ IF ActiveEmbedding(p) THEN job' = job
        ELSE /\ Absent(j)
             /\ job' = [job EXCEPT ![j] = NewRow("embedding", p, TRUE)]
     /\ exec' = [exec EXCEPT ![w].phase = "done"]
     /\ UNCHANGED <<proj, media, faults>>

(* The insert fails: no project row, or (bound) no job id left. *)
SpawnRefused(w) ==
  LET p == job[exec[w].job].home
  IN /\ exec[w].phase = "run"
     /\ job[exec[w].job].kind = "lexical"
     /\ \/ proj[p].state = "gone"
        \/ ~ActiveEmbedding(p) /\ \A j \in Jobs : ~Absent(j)
     /\ exec' = [exec EXCEPT ![w].phase = "error"]
     /\ UNCHANGED <<job, proj, media, faults>>

Marked(r) == [r EXCEPT !.stage = "external"]

(* The rows after the purge transaction: the purge job is marked external
   only if this worker still holds it. *)
Purged(w, p) ==
  LET me == exec[w].job
      held == job[me].state = "running" /\ job[me].worker = w
  IN [j \in Jobs |-> IF j = me /\ held THEN Marked(Detached(j, p, me))
                     ELSE Detached(j, p, me)]

Binding(w, p) == proj[p].purge = exec[w].job /\ proj[p].passed

PurgeDatabase(w) ==
  LET p == job[exec[w].job].home
      rows == Purged(w, p)
      ok == Binding(w, p) /\ \A j \in Jobs : ReasonOK(rows[j])
  IN /\ exec[w].phase = "run"
     /\ job[exec[w].job].kind = "purge"
     /\ \/ /\ proj[p].state = "gone"
           /\ exec' = [exec EXCEPT ![w].phase = "external"]
           /\ UNCHANGED <<job, proj>>
        \/ /\ proj[p].state # "gone"
           /\ ok
           /\ job' = rows
           /\ proj' = [proj EXCEPT ![p].state = "gone", ![p].purge = NoJob]
           /\ exec' = [exec EXCEPT ![w].phase = "external"]
        \/ /\ proj[p].state # "gone"
           /\ ~ok
           /\ exec' = [exec EXCEPT ![w].phase = "error"]
           /\ UNCHANGED <<job, proj>>
     /\ UNCHANGED <<media, faults>>

CleanupExternal(w) ==
  /\ exec[w].phase = "external"
  /\ media' = [media EXCEPT ![job[exec[w].job].home] = FALSE]
  /\ exec' = [exec EXCEPT ![w].phase = "done"]
  /\ UNCHANGED <<job, proj, faults>>

-----------------------------------------------------------------------------
(* Faults and time *)

Fault == faults < MaxFaults /\ faults' = faults + 1

(* An error of the database, of the provider or of the object store. *)
HandlerError(w) ==
  /\ Fault
  /\ exec[w].phase \in {"run", "external"}
  /\ exec' = [exec EXCEPT ![w].phase = "error"]
  /\ UNCHANGED <<job, proj, media>>

(* run_once returns an error: the outcome is not recorded. *)
LoseRecord(w) ==
  /\ Fault
  /\ exec[w].phase \in Busy
  /\ exec' = [exec EXCEPT ![w] = Idle]
  /\ UNCHANGED <<job, proj, media>>

(* The process dies; (bound) not the last one that may run. *)
Crash(w) ==
  /\ Fault
  /\ exec[w].phase \notin {"unborn", "dead"}
  /\ \E v \in Workers \ {w} : exec[v].phase # "dead"
  /\ exec' = [exec EXCEPT ![w] = Dead]
  /\ UNCHANGED <<job, proj, media>>

Expired(r) == [r EXCEPT !.lease = "expired"]
Due(r) == [r EXCEPT !.due = TRUE]

(* Some worker is executing the row's current attempt. *)
Attended(j) ==
  \E w \in Workers : /\ exec[w].phase \in Busy
                     /\ exec[w].job = j
                     /\ exec[w].attempt = job[j].attempts

(* A lease expires when nobody renews it, or when its holder stalls. *)
LeaseExpires(j) ==
  /\ job[j].lease = "live"
  /\ IF Attended(j) THEN Fault ELSE UNCHANGED faults
  /\ job' = [job EXCEPT ![j] = Expired(@)]
  /\ UNCHANGED <<proj, media, exec>>

(* A purge falls due by the database's clock; unless the clocks differ its
   deadline has then passed by the process's clock. *)
BecomeDue(j) ==
  /\ job[j].state = "queued"
  /\ ~job[j].due
  /\ IF job[j].kind = "purge" /\ ~proj[job[j].home].passed
     THEN Fault ELSE UNCHANGED faults
  /\ job' = [job EXCEPT ![j] = Due(@)]
  /\ UNCHANGED <<proj, media, exec>>

DeadlinePasses(p) ==
  /\ proj[p].state = "pending"
  /\ ~proj[p].passed
  /\ proj' = [proj EXCEPT ![p].passed = TRUE]
  /\ UNCHANGED <<job, media, exec, faults>>

-----------------------------------------------------------------------------
Init ==
  /\ job = [j \in Jobs |-> Blank]
  /\ proj = [p \in Projects |->
               [state |-> "active", passed |-> FALSE, purge |-> NoJob]]
  /\ media = [p \in Projects |-> TRUE]
  /\ exec = [w \in Workers |-> [Idle EXCEPT !.phase = "unborn"]]
  /\ faults = 0

Request ==
  \/ \E j \in Jobs, p \in Projects :
       \/ \E k \in RequestKinds : CreateJob(j, p, k)
       \/ ScheduleDeletion(j, p)
  \/ \E p \in Projects : CancelDeletion(p)
  \/ \E j \in Jobs : ManualRetry(j)

Loop(w) ==
  \/ ReadPending(w)
  \/ \E j \in Jobs : Claim(w, j)
  \/ ClaimNothing(w)
  \/ LoseLease(w)
  \/ Complete(w)
  \/ \E retryable \in BOOLEAN : FailAttempt(w, retryable)

Handler(w) ==
  \/ \E j \in Jobs : Spawn(w, j)
  \/ SpawnRefused(w)
  \/ PurgeDatabase(w)
  \/ CleanupExternal(w)

Faulty(w) == HandlerError(w) \/ LoseRecord(w) \/ Crash(w)

Clock ==
  \/ \E j \in Jobs : LeaseExpires(j) \/ BecomeDue(j)
  \/ \E p \in Projects : DeadlinePasses(p)

Next ==
  \/ Request
  \/ \E w \in Workers :
       StartWorker(w) \/ Loop(w) \/ Handler(w) \/ Faulty(w)
  \/ Clock

(* A process that runs keeps polling and its handlers return; clocks run;
   a process is started whenever none is up.  Nothing obliges a user to
   send a request and no fault has to happen. *)
Fairness ==
  /\ \A w \in Workers : WF_vars(StartWorker(w))
                        /\ WF_vars(Loop(w) \/ Handler(w))
  /\ \A j \in Jobs :
       /\ WF_vars(LeaseExpires(j) /\ UNCHANGED faults)
       /\ WF_vars(BecomeDue(j) /\ UNCHANGED faults)
  /\ \A p \in Projects : WF_vars(DeadlinePasses(p))

Spec == Init /\ [][Next]_vars
FairSpec == Spec /\ Fairness

-----------------------------------------------------------------------------
(* Properties *)

(* Every row has a legal type; a row that exists belongs to a project. *)
TypeOK ==
  /\ job \in [Jobs -> Row]
  /\ \A j \in Jobs : job[j].state # "absent" => job[j].home \in Projects
  /\ proj \in [Projects -> ProjectRow]
  /\ media \in [Projects -> BOOLEAN]
  /\ exec \in [Workers -> Execution]
  /\ \A w \in Workers : exec[w].phase \in Busy => exec[w].job \in Jobs
  /\ faults \in 0..MaxFaults

(* The columns of a row that different statements write stay consistent: a
   row has a worker and a lease exactly while it runs, and a pause reason
   exactly while it is paused, which a purge never is; its attempts never
   exceed its budget. *)
RowConsistent ==
  \A j \in Jobs :
    /\ (job[j].state = "running") <=> (job[j].worker # NoWorker)
    /\ (job[j].state = "running") <=> (job[j].lease # "none")
    /\ ReasonOK(job[j])
    /\ job[j].kind = "purge" => job[j].state # "paused"
    /\ job[j].attempts <= job[j].max

(* Fencing by worker id suffices: while the row is leased to a worker that
   is executing it, the worker executes the row's latest attempt, however
   often the row was paused, resumed, expired, taken over or retried. *)
FencedExecution ==
  \A w \in Workers :
    LET r == job[exec[w].job]
    IN exec[w].phase \in Busy /\ r.state = "running" /\ r.worker = w
       => r.attempts = exec[w].attempt

(* No request leaves an ordinary job of a pending project queued or running:
   only the embedding job a lexical handler inserts escapes the gate. *)
QuiescedByRoutes ==
  \A j \in Jobs : \A p \in Projects :
    proj[p].state = "pending" /\ Of(j, p)
    /\ job[j].kind \in {"lexical", "upload"}
    => job[j].state \notin {"queued", "running"}

Live(j) == job[j].state \in {"queued", "running", "paused"}

(* A purge job of project p that is queued or running, or has failed. *)
OpenPurge(j, p) ==
  /\ job[j].kind = "purge" /\ job[j].home = p
  /\ Live(j) \/ job[j].state = "failed"

(* A project has at most one purge job that is not over, and it is the one
   the pending project or the cleanup after its deletion is bound to: a
   cancelled deletion leaves no purge behind that could still act. *)
OnePurge ==
  \A p \in Projects : \A j \in Jobs :
    OpenPurge(j, p)
    => /\ proj[p].state # "active"
       /\ proj[p].state = "pending" => proj[p].purge = j
       /\ \A i \in Jobs \ {j} : ~OpenPurge(i, p)

(* The external objects of a project are deleted only after its rows are. *)
DbFirst == \A p \in Projects : ~media[p] => proj[p].state = "gone"

(* Crashes, lost leases and errors between the commit of the database purge
   and the deletion of the external objects do not lose the cleanup: while
   the objects of a deleted project exist, its purge job is queued or runs,
   unless it has failed with its whole budget used up. *)
Spent(j) == job[j].state = "failed" /\ job[j].attempts >= job[j].max

CleanupOwed ==
  \A p \in Projects :
    proj[p].state = "gone" /\ media[p]
    => \E j \in Jobs :
         /\ job[j].kind = "purge" /\ job[j].home = p
         /\ Live(j) \/ Spent(j)

(* A purge job that reports success has deleted both the rows and the
   external objects. *)
PurgeComplete ==
  \A j \in Jobs :
    job[j].kind = "purge" /\ job[j].state = "succeeded"
    => proj[job[j].home].state = "gone" /\ ~media[job[j].home]

(* Nothing but the purge job can still act for a deleted project. *)
NoOrphans ==
  \A j \in Jobs :
    Live(j) /\ proj[job[j].home].state = "gone" => job[j].kind = "purge"

(* The invariant the proofs carry: the properties above, with what relates a
   pending project to its purge job and a purge handler's progress to what
   the database already holds. *)
BoundPurge ==
  \A p \in Projects :
    /\ proj[p].state = "pending" <=> proj[p].purge # NoJob
    /\ proj[p].state = "pending" => OpenPurge(proj[p].purge, p)

HandlerProgress ==
  /\ \A j \in Jobs :
       job[j].state # "absent" /\ job[j].stage = "external"
       => proj[job[j].home].state = "gone"
  /\ \A w \in Workers :
       LET r == job[exec[w].job]
       IN /\ exec[w].phase \in Busy => r.state # "absent"
          /\ exec[w].phase = "external"
             => r.kind = "purge" /\ proj[r.home].state = "gone"
          /\ exec[w].phase = "done" /\ r.kind = "purge"
             => proj[r.home].state = "gone" /\ ~media[r.home]

(* Nothing but its budget ends a purge job that has not succeeded. *)
PurgeSpent ==
  \A j \in Jobs : job[j].kind = "purge" /\ job[j].state = "failed" => Spent(j)

OrdinaryLinked ==
  \A j \in Jobs :
    job[j].kind # "purge" /\ job[j].state \notin {"absent", "cancelled"}
    => job[j].linked

Inductive ==
  /\ TypeOK
  /\ RowConsistent
  /\ FencedExecution
  /\ QuiescedByRoutes
  /\ OnePurge
  /\ BoundPurge
  /\ HandlerProgress
  /\ PurgeSpent
  /\ OrdinaryLinked
  /\ DbFirst
  /\ CleanupOwed
  /\ PurgeComplete
  /\ NoOrphans

(* A recorded outcome is final: success and cancellation are never undone
   (a purge may cancel the finished jobs it detaches), and a failed job runs
   again only with a budget larger than its attempts. *)
OutcomeKept ==
  \A j \in Jobs :
    /\ job[j].state = "succeeded" => job'[j].state \in {"succeeded", "cancelled"}
    /\ job[j].state = "cancelled" => job'[j].state = "cancelled"
    /\ job[j].state = "failed" /\ job'[j].state = "queued"
       => job'[j].attempts < job'[j].max
OutcomeFinal == [][OutcomeKept]_vars

(* A project disappears only out of a deletion whose own deadline passed,
   never after that deletion was cancelled, and leaves no job linked to it. *)
PurgeOfDue ==
  \A p \in Projects :
    proj[p].state # "gone" /\ proj'[p].state = "gone"
    => /\ proj[p].state = "pending" /\ proj[p].passed
       /\ \A j \in Jobs : ~Of(j, p)'
PurgeOnlyWhenDue == [][PurgeOfDue]_vars

(* The queue implements the life cycle of a job: each transition of a row,
   by whichever request, worker, sweep or gate, is one of JobState's, and no
   attempt starts beyond the budget. *)
Tasks == [j \in Jobs |-> [state |-> job[j].state, attempts |-> job[j].attempts,
                          max |-> job[j].max]]
Life == INSTANCE JobLifecycle WITH task <- Tasks
LifeSpec == Life!Spec

(* Whatever crashes, a job that is queued or running settles or is paused. *)
JobsSettle ==
  \A j \in Jobs :
    job[j].state \in {"queued", "running"}
    ~> job[j].state \in Terminal \union {"paused"}
=============================================================================
