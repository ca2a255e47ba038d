------------------------------ MODULE Uploads ------------------------------
(***************************************************************************)
(* One upload batch: its files, the byte-zero attempts of each file, the   *)
(* temporary objects on disk, and the job that replaces the contents.      *)
(*                                                                         *)
(* Four parties share them without a common lock: the requests of the      *)
(* owner (under the row lock of the project), the process that receives a  *)
(* stream, the workers of the queue, and the cleanup handler, which sweeps *)
(* the batches of every project and may run at any time.  Processing a     *)
(* file is one transaction that holds project, batch, file and attempt, so *)
(* the state processing is never seen from outside.                        *)
(***************************************************************************)
EXTENDS Integers, FiniteSets, FiniteSetsExt

CONSTANTS
  Files, Workers, NoWorker, NoFile,
  MaxTries,    \* bound: attempts of one file
  MaxRetries,  \* bound: attempts beyond the first one of each file
  RetryCap,    \* bound: attempts after which a job is not retried by hand
  MaxFaults    \* bound: crashes, stalls, failed commits, scheduled deletions and
               \* jobs retried by hand

ASSUME UploadsAssumption ==
  /\ Files # {} /\ IsFiniteSet(Files)
  /\ NoFile \notin Files /\ NoWorker \notin Workers
  /\ MaxTries \in Nat \ {0} /\ MaxRetries \in Nat /\ RetryCap \in Nat
  /\ MaxFaults \in Nat

VARIABLES
  batch,     \* its state
  file,      \* Files -> state and number of the current attempt
  attempt,   \* Files \X 1..MaxTries -> row, temporary objects and receiver
  job,       \* Files -> the reusable upload_process job
  exec,      \* Workers -> what the worker executes
  sweeper,   \* the attempt whose object, but not its part, is removed
  retry,     \* file whose retry has read the batch and not yet locked the file
  pending,   \* the project is pending deletion
  faults

vars == <<batch, file, attempt, job, exec, sweeper, retry, pending, faults>>

Tries == 1..MaxTries
Attempts == Files \X Tries

Expirable == {"uploading", "queued", "processing", "cancelling"}
Ended == {"cancelled", "partially_succeeded", "succeeded", "failed", "expired"}
Batch == {"absent"} \union Expirable \union Ended

ActiveFile == {"uploading", "queued"}
Discarded == {"failed", "cancelled", "expired"}
File == [state: ActiveFile \union Discarded \union {"succeeded"}, current: Tries]

Terminal == Discarded \union {"succeeded"}

(* receiver: claimed (no object yet), writing (.part), renamed (the object is
   in place), failing (the failure is not recorded yet), dead, lost (it took
   a commit that succeeded for one that failed and removed the object).
   *)
Receiving == {"claimed", "writing", "renamed", "failing"}
Attempt ==
  [state: {"absent", "uploading", "receiving", "queued"} \union Terminal,
   temp: SUBSET {"part", "object"}, cleaned: BOOLEAN,
   receiver: {"none", "dead", "lost"} \union Receiving]

Job == [state: {"absent", "queued", "running", "paused", "succeeded", "failed",
                "cancelled"},
        attempts: 0..(RetryCap + 2), max: 1..(RetryCap + 2),
        try: Tries, worker: Workers \union {NoWorker},
        lease: {"none", "live", "expired"}]

(* counts: what the failure of a job has counted and not yet written *)
Verdict == {"active", "succeeded", "partially_succeeded", "failed"}
Execution == [phase: {"idle", "run", "applied", "error", "failing"},
              file: Files \union {NoFile}, try: Tries, counts: {"none"} \union Verdict]

Idle == [phase |-> "idle", file |-> NoFile, try |-> 1, counts |-> "none"]

NoAttempt == [state |-> "absent", temp |-> {}, cleaned |-> FALSE,
              receiver |-> "none"]
NoJob == [state |-> "absent", attempts |-> 0, max |-> 1, try |-> 1,
          worker |-> NoWorker, lease |-> "none"]

Current(f) == <<f, file[f].current>>

(* Requests hold the row lock of the project, and so does a retry between its
   two reads; PROJECT_FILE_UPLOAD is denied while a deletion is pending. *)
Open == batch # "absent" /\ ~pending /\ retry = NoFile

(* The transaction that fails the job of f has locked the rows of the job, the
   file and its current attempt, but not that of the batch. *)
Locked(f) == \E w \in Workers : exec[w].phase = "failing" /\ exec[w].file = f

Fault == faults < MaxFaults /\ faults' = faults + 1

-----------------------------------------------------------------------------
(* The batch as the sum of its files *)

(* Slip: a file that waits for its processing is not active. *)
CountsSent(files) ==
  LET succeeded == {f \in Files : files[f].state = "succeeded"}
  IN IF \E f \in Files : files[f].state = "uploading" THEN "active"
     ELSE IF succeeded = Files THEN "succeeded"
     ELSE IF succeeded # {} THEN "partially_succeeded"
     ELSE "failed"

(* reconcile_batch_state_tx: one statement that counts in its snapshot, then
   waits for the row of the batch and looks at its state as it is by then. *)
Counts(files) ==
  LET succeeded == {f \in Files : files[f].state = "succeeded"}
  IN IF \E f \in Files : files[f].state \in ActiveFile THEN "active"
     ELSE IF succeeded = Files THEN "succeeded"
     ELSE IF succeeded # {} THEN "partially_succeeded"
     ELSE "failed"

Reconciled(counts, state) ==
  IF state = "cancelling"
  THEN IF counts = "active" THEN "cancelling" ELSE "cancelled"
  ELSE IF counts = "active" THEN "processing" ELSE counts

(* fail_attempt_tx closes a batch that has no active file left, and only
   while it is being uploaded. *)
Closed(files, state) ==
  IF state = "uploading" /\ \A f \in Files : files[f].state \notin ActiveFile
  THEN IF \E f \in Files : files[f].state = "succeeded"
       THEN "partially_succeeded" ELSE "failed"
  ELSE state

-----------------------------------------------------------------------------
(* Requests *)

FreshAttempt == [NoAttempt EXCEPT !.state = "uploading"]

(* create_batch_tx *)
NewBatch ==
  /\ batch' = "uploading"
  /\ attempt' = [a \in Attempts |-> IF a[2] = 1 THEN FreshAttempt ELSE attempt[a]]
  /\ UNCHANGED <<file, job, exec, sweeper, retry, pending, faults>>

CreateBatch == batch = "absent" /\ ~pending /\ NewBatch

(* Every file is received or failed, and one at least is received. *)
Completable ==
  /\ \A f \in Files : file[f].state # "uploading"
  /\ \E f \in Files : file[f].state = "queued"
  /\ \A f \in Files :
       file[f].state = "queued" => attempt[Current(f)].state = "queued"

(* Slip: the payload of the earlier attempt is kept. *)
RequeuedOldTry(f) ==
  [job[f] EXCEPT !.state = "queued", !.attempts = 0,
                 !.worker = NoWorker, !.lease = "none"]

(* The job of an earlier attempt is used again, its budget included. *)
Requeued(f) ==
  [job[f] EXCEPT !.state = "queued", !.attempts = 0, !.try = file[f].current,
                 !.worker = NoWorker, !.lease = "none"]

(* queue_batch_tx; a paused job would break the CHECK on pause_reason. *)
QueueBatch ==
  LET ready == {f \in Files : file[f].state = "queued"}
  IN /\ batch = "uploading"
     /\ Completable
     /\ \A f \in ready : job[f].state # "paused"
     /\ job' = [f \in Files |-> IF f \in ready THEN Requeued(f) ELSE job[f]]
     /\ batch' = "queued"
     /\ UNCHANGED <<file, attempt, exec, sweeper, retry, pending, faults>>

CompleteBatch == Open /\ (\A f \in Files : ~Locked(f)) /\ QueueBatch

(* retry_file_tx looks at the batch and the other files without locking them,
   then locks its own file. *)
NothingActive(f) ==
  /\ batch \notin {"cancelling", "cancelled", "expired", "succeeded"}
  /\ \A g \in Files \ {f} : file[g].state \notin ActiveFile

Retries == {a \in Attempts : a[2] > 1 /\ attempt[a].state # "absent"}

Affordable(f) == file[f].current < MaxTries /\ Cardinality(Retries) < MaxRetries

BeginRetry(f) ==
  /\ Open
  /\ NothingActive(f)
  /\ Affordable(f)
  /\ retry' = f
  /\ UNCHANGED <<batch, file, attempt, job, exec, sweeper, pending, faults>>

Retryable(f) == file[f].state \in Discarded

(* A new attempt from byte zero; the old ones stay as history. *)
FinishRetry(f) ==
  LET n == file[f].current + 1
  IN /\ retry = f
     /\ ~Locked(f)
     /\ Retryable(f)
     /\ Affordable(f)
     /\ attempt' = [attempt EXCEPT ![<<f, n>>] = FreshAttempt]
     /\ file' = [file EXCEPT ![f] = [state |-> "uploading", current |-> n]]
     /\ batch' = "uploading"
     /\ retry' = NoFile
     /\ UNCHANGED <<job, exec, sweeper, pending, faults>>

RefuseRetry(f) ==
  /\ retry = f
  /\ ~Locked(f)
  /\ ~Retryable(f)
  /\ retry' = NoFile
  /\ UNCHANGED <<batch, file, attempt, job, exec, sweeper, pending, faults>>

Cancelled(r) ==
  IF r.state \in {"uploading", "receiving", "queued"}
  THEN [r EXCEPT !.state = "cancelled"] ELSE r

Unqueued(r) == IF r.state = "queued" THEN [r EXCEPT !.state = "cancelled"] ELSE r

(* cancel_batch_tx: what has not started is cancelled; a job that runs is waited
   for.  A paused job breaks the CHECK on pause_reason and aborts the request.  It
   holds the row of the batch when it comes to the files: a failure that has
   locked one is waited for, or one of the two is aborted as a deadlock. *)
CancelRest ==
  /\ batch \notin {"cancelled", "expired", "succeeded"}
  /\ \A f \in Files : Locked(f) => file[f].state \in {"succeeded", "cancelled"}
  /\ \A f \in Files : job[f].state # "paused"
  /\ job' = [f \in Files |-> Unqueued(job[f])]
  /\ attempt' = [a \in Attempts |-> Cancelled(attempt[a])]
  /\ file' = [f \in Files |-> IF file[f].state = "succeeded" THEN file[f]
                              ELSE [file[f] EXCEPT !.state = "cancelled"]]
  /\ batch' = IF \E f \in Files : job[f].state = "running"
              THEN "cancelling" ELSE "cancelled"
  /\ UNCHANGED <<exec, sweeper, retry, pending, faults>>

CancelBatch == Open /\ CancelRest

(* Some time after the commit the request removes what it cancelled. *)
RemoveCancelled(a) ==
  /\ attempt[a].state = "cancelled" /\ attempt[a].temp # {}
  /\ attempt' = [attempt EXCEPT ![a].temp = {}]
  /\ UNCHANGED <<batch, file, job, exec, sweeper, retry, pending, faults>>

(* POST /jobs/{id}/retry of a failed job: the file is not looked at. *)
RetryJob(f) ==
  /\ Open
  /\ job[f].state = "failed"
  /\ job[f].attempts < RetryCap
  /\ Fault
  /\ job' = [job EXCEPT ![f].state = "queued", ![f].attempts = @ + 1,
                        ![f].max = Max({@, job[f].attempts + 2})]
  /\ UNCHANGED <<batch, file, attempt, exec, sweeper, retry, pending>>

(* Scheduling the deletion pauses the jobs, cancelling it resumes them. *)
ScheduleDeletion ==
  /\ Open
  /\ Fault
  /\ \A f \in Files : ~Locked(f)
  /\ pending' = TRUE
  /\ job' = [f \in Files |-> IF job[f].state \in {"queued", "running"}
                             THEN [job[f] EXCEPT !.state = "paused",
                                     !.worker = NoWorker, !.lease = "none"]
                             ELSE job[f]]
  /\ UNCHANGED <<batch, file, attempt, exec, sweeper, retry>>

CancelDeletion ==
  /\ pending
  /\ pending' = FALSE
  /\ job' = [f \in Files |-> IF job[f].state = "paused"
                             THEN [job[f] EXCEPT !.state = "queued"] ELSE job[f]]
  /\ UNCHANGED <<batch, file, attempt, exec, sweeper, retry, faults>>

-----------------------------------------------------------------------------
(* Receiving one attempt *)

Receiver(a, r, temp) ==
  attempt' = [attempt EXCEPT ![a].receiver = r, ![a].temp = temp]

(* claim_attempt_for_receive_tx *)
MarkReceiving(a) ==
  /\ attempt[a].state = "uploading"
  /\ attempt' = [attempt EXCEPT ![a].state = "receiving", ![a].receiver = "claimed"]

(* The route looks at the rows the claim has locked. *)
ClaimAttempt(a) ==
  /\ Open
  /\ ~Locked(a[1])
  /\ MarkReceiving(a)
  /\ batch = "uploading"
  /\ file[a[1]].state = "uploading"
  /\ a = Current(a[1])
  /\ UNCHANGED <<batch, file, job, exec, sweeper, retry, pending, faults>>

OpenPart(a) ==
  /\ attempt[a].receiver = "claimed"
  /\ \/ Receiver(a, "writing", attempt[a].temp \union {"part"})
     \/ Receiver(a, "failing", attempt[a].temp)
  /\ UNCHANGED <<batch, file, job, exec, sweeper, retry, pending, faults>>

(* All declared bytes are there: the part becomes the object, unless somebody
   has removed it. *)
Deliver(a) ==
  /\ attempt[a].receiver = "writing"
  /\ IF "part" \in attempt[a].temp THEN Receiver(a, "renamed", {"object"})
     ELSE Receiver(a, "failing", attempt[a].temp)
  /\ UNCHANGED <<batch, file, job, exec, sweeper, retry, pending, faults>>

(* A broken stream, a wrong size or a failed write. *)
Interrupt(a) ==
  /\ attempt[a].receiver = "writing"
  /\ Receiver(a, "failing", attempt[a].temp \ {"part"})
  /\ UNCHANGED <<batch, file, job, exec, sweeper, retry, pending, faults>>

FilesWith(f, state) == [file EXCEPT ![f].state = state]

FailedFiles(a) == IF a = Current(a[1]) THEN FilesWith(a[1], "failed") ELSE file

(* record_attempt_failure; the attempt may have been cancelled or expired. *)
RecordFailure(a) ==
  /\ attempt[a].receiver = "failing"
  /\ Open
  /\ ~Locked(a[1])
  /\ attempt[a].state \in {"uploading", "receiving"}
  /\ attempt' = [attempt EXCEPT ![a].state = "failed", ![a].receiver = "none"]
  /\ file' = FailedFiles(a)
  /\ batch' = Closed(FailedFiles(a), batch)
  /\ UNCHANGED <<job, exec, sweeper, retry, pending, faults>>

FailureUnrecorded(a) ==
  /\ attempt[a].receiver = "failing"
  /\ retry = NoFile
  /\ pending \/ attempt[a].state \notin {"uploading", "receiving"}
  /\ Receiver(a, "none", attempt[a].temp)
  /\ UNCHANGED <<batch, file, job, exec, sweeper, retry, pending, faults>>

Accepted(a) == Open /\ attempt[a].state = "receiving" /\ a = Current(a[1])

(* mark_attempt_received_tx *)
Finalize(a) ==
  /\ attempt[a].receiver = "renamed"
  /\ ~Locked(a[1])
  /\ Accepted(a)
  /\ attempt' = [attempt EXCEPT ![a].state = "queued", ![a].receiver = "none"]
  /\ file' = FilesWith(a[1], "queued")
  /\ UNCHANGED <<batch, job, exec, sweeper, retry, pending, faults>>

RefusedTemp(a) == {}

RefuseFinal(a) ==
  /\ attempt[a].receiver = "renamed"
  /\ retry = NoFile
  /\ ~Accepted(a)
  /\ Receiver(a, "none", RefusedTemp(a))
  /\ UNCHANGED <<batch, file, job, exec, sweeper, retry, pending, faults>>

(* The commit fails, or its answer is lost: the object is removed even so. *)
FinalizeFails(a) ==
  /\ attempt[a].receiver = "renamed"
  /\ ~Locked(a[1])
  /\ Accepted(a)
  /\ Fault
  /\ \/ Receiver(a, "none", {}) /\ UNCHANGED file
     \/ /\ attempt' = [attempt EXCEPT ![a].state = "queued", ![a].temp = {},
                                      ![a].receiver = "lost"]
        /\ file' = FilesWith(a[1], "queued")
  /\ UNCHANGED <<batch, job, exec, sweeper, retry, pending>>

Die(a) ==
  /\ attempt[a].receiver \in Receiving
  /\ Fault
  /\ Receiver(a, "dead", attempt[a].temp)
  /\ UNCHANGED <<batch, file, job, exec, sweeper, retry, pending>>

-----------------------------------------------------------------------------
(* The cleanup handler *)

Expired(r) ==
  IF r.state \in {"absent", "succeeded"} THEN r ELSE [r EXCEPT !.state = "expired"]

(* expire_due.  The deadline may pass at any time, so it needs no state.  A paused job
   breaks the CHECK on pause_reason, which aborts the transaction of all batches. *)
ExpireDue ==
  /\ sweeper = {}
  /\ batch \in Expirable
  /\ \A f \in Files : Locked(f) => file[f].state = "succeeded"
  /\ \A f \in Files : job[f].state # "paused"
  /\ job' = [f \in Files |-> Unqueued(job[f])]
  /\ attempt' = [a \in Attempts |-> Expired(attempt[a])]
  /\ file' = [f \in Files |-> IF file[f].state = "succeeded" THEN file[f]
                              ELSE [file[f] EXCEPT !.state = "expired"]]
  /\ batch' = "expired"
  /\ UNCHANGED <<exec, sweeper, retry, pending, faults>>

(* Slip: an attempt that is being processed is swept as well. *)
SweepableAny(a) == attempt[a].state \in Terminal \union {"queued"}

Sweepable(a) == attempt[a].state \in Terminal

(* The object, then the part, then the row.  The handler may end after each;
   nobody looks at the row between the last two, so they are one step. *)
SweepObject(a) ==
  /\ sweeper = {}
  /\ Sweepable(a) /\ ~attempt[a].cleaned
  /\ sweeper' = {a}
  /\ attempt' = [attempt EXCEPT ![a].temp = @ \ {"object"}]
  /\ UNCHANGED <<batch, file, job, exec, retry, pending, faults>>

SweepPart(a) ==
  /\ sweeper = {a}
  /\ sweeper' = {}
  /\ \E marked \in {TRUE, attempt[a].cleaned} :
       attempt' = [attempt EXCEPT ![a].temp = @ \ {"part"}, ![a].cleaned = marked]
  /\ UNCHANGED <<batch, file, job, exec, retry, pending, faults>>

AbandonSweep ==
  /\ sweeper # {}
  /\ sweeper' = {}
  /\ UNCHANGED <<batch, file, attempt, job, exec, retry, pending, faults>>

-----------------------------------------------------------------------------
(* The workers *)

Claimable(r) == r.state = "queued" \/ (r.state = "running" /\ r.lease = "expired")

Failed(r) == [r EXCEPT !.state = "failed", !.worker = NoWorker, !.lease = "none"]

(* A claim first fails the jobs whose budget is spent.  It does so in SQL: the
   files of these jobs stay queued. *)
Swept == [f \in Files |-> IF Claimable(job[f]) /\ job[f].attempts >= job[f].max
                          THEN Failed(job[f]) ELSE job[f]]

Claim(w, f) ==
  /\ exec[w] = Idle
  /\ Claimable(Swept[f])
  /\ job' = [Swept EXCEPT ![f].state = "running", ![f].worker = w,
                          ![f].lease = "live", ![f].attempts = @ + 1]
  /\ exec' = [exec EXCEPT ![w] = [Idle EXCEPT !.phase = "run", !.file = f,
                                              !.try = job[f].try]]
  /\ UNCHANGED <<batch, file, attempt, sweeper, retry, pending, faults>>

ClaimNothing(w) ==
  /\ exec[w] = Idle
  /\ Swept # job
  /\ \A f \in Files : ~Claimable(Swept[f])
  /\ job' = Swept
  /\ UNCHANGED <<batch, file, attempt, exec, sweeper, retry, pending, faults>>

(* begin_processing_tx; the job need not run under this worker. *)
Fresh(w) ==
  LET f == exec[w].file
  IN /\ job[f].state = "running"
     /\ file[f] = [state |-> "queued", current |-> exec[w].try]
     /\ attempt[Current(f)].state = "queued"
     /\ batch \in {"queued", "processing", "cancelling"}

(* mark_processing_succeeded_tx *)
MarkSucceeded(f, a) ==
  /\ attempt' = [attempt EXCEPT ![a].state = "succeeded"]
  /\ file' = FilesWith(f, "succeeded")
  /\ batch' = Reconciled(Counts(FilesWith(f, "succeeded")), batch)

(* The contents are replaced in the transaction that records it; it has held the
   batch from its first statement, so what it counts is what is there. *)
Process(w) ==
  LET f == exec[w].file
      a == <<f, exec[w].try>>
  IN /\ exec[w].phase = "run"
     /\ retry = NoFile
     /\ ~Locked(f)
     /\ Fresh(w)
     /\ "object" \in attempt[a].temp
     /\ MarkSucceeded(f, a)
     /\ exec' = [exec EXCEPT ![w].phase = "applied"]
     /\ UNCHANGED <<job, sweeper, retry, pending, faults>>

(* A stale payload, an unreadable object, a permission that was revoked, a
   database that fails. *)
Err(w) ==
  /\ exec[w].phase = "run"
  /\ exec' = [exec EXCEPT ![w].phase = "error"]
  /\ UNCHANGED <<batch, file, attempt, job, sweeper, retry, pending, faults>>

(* The raw object is removed after the commit, at best effort. *)
RemoveRaw(w) ==
  LET a == <<exec[w].file, exec[w].try>>
  IN /\ exec[w].phase = "applied"
     /\ "object" \in attempt[a].temp
     /\ attempt' = [attempt EXCEPT ![a].temp = @ \ {"object"}]
     /\ UNCHANGED <<batch, file, job, exec, sweeper, retry, pending, faults>>

(* The fence of complete, renew_lease and fail_attempt_tx. *)
Owns(w) ==
  LET r == job[exec[w].file]
  IN r.state = "running" /\ r.worker = w /\ r.lease = "live"

Finish(w) ==
  LET f == exec[w].file
  IN /\ exec[w].phase = "applied"
     /\ Owns(w)
     /\ job' = [job EXCEPT ![f].state = "succeeded", ![f].worker = NoWorker,
                           ![f].lease = "none"]
     /\ exec' = [exec EXCEPT ![w] = Idle]
     /\ UNCHANGED <<batch, file, attempt, sweeper, retry, pending, faults>>

TryAgain(w) ==
  LET f == exec[w].file
  IN /\ exec[w].phase = "error"
     /\ Owns(w)
     /\ job[f].attempts < job[f].max
     /\ job' = [job EXCEPT ![f].state = "queued", ![f].worker = NoWorker,
                           ![f].lease = "none"]
     /\ exec' = [exec EXCEPT ![w] = Idle]
     /\ UNCHANGED <<batch, file, attempt, sweeper, retry, pending, faults>>

FailedFile(f) == IF file[f].state = "queued" THEN FilesWith(f, "failed") ELSE file

Fails(w) == exec[w].phase = "error" /\ Owns(w)

(* mark_processing_failed_tx looks at the current attempt, not at that of the
   payload, and reconciles a batch in any state.  What it writes is seen at its
   commit: before, it has counted, and waits for the row of the batch, which a
   request may hold that has locked no file of its own. *)
BeginFail(w) ==
  LET f == exec[w].file
  IN /\ Fails(w)
     /\ exec' = [exec EXCEPT ![w].phase = "failing", ![w].counts = Counts(FailedFile(f))]
     /\ UNCHANGED <<batch, file, attempt, job, sweeper, retry, pending, faults>>

EndFail(w) ==
  LET f == exec[w].file
      a == Current(f)
  IN /\ exec[w].phase = "failing"
     /\ job' = [job EXCEPT ![f] = Failed(@)]
     /\ attempt' = IF attempt[a].state = "queued"
                   THEN [attempt EXCEPT ![a].state = "failed"] ELSE attempt
     /\ file' = FailedFile(f)
     /\ batch' = Reconciled(exec[w].counts, batch)
     /\ exec' = [exec EXCEPT ![w] = Idle]
     /\ UNCHANGED <<sweeper, retry, pending, faults>>

(* A retry of the file has committed while the failure waited for its row: the
   join with the attempt it had found no longer holds, and only the job fails. *)
FailJobOnly(w) ==
  LET f == exec[w].file
  IN /\ Fails(w)
     /\ file[f].current > 1 /\ attempt[Current(f)].state = "uploading"
     /\ job' = [job EXCEPT ![f] = Failed(@)]
     /\ exec' = [exec EXCEPT ![w] = Idle]
     /\ UNCHANGED <<batch, file, attempt, sweeper, retry, pending, faults>>

(* An outcome or a renewal that updates no row ends the execution. *)
LoseLease(w) ==
  /\ exec[w] # Idle
  /\ ~Owns(w)
  /\ exec' = [exec EXCEPT ![w] = Idle]
  /\ UNCHANGED <<batch, file, attempt, job, sweeper, retry, pending, faults>>

Vanish(w) ==
  /\ exec[w] # Idle
  /\ Fault
  /\ exec' = [exec EXCEPT ![w] = Idle]
  /\ UNCHANGED <<batch, file, attempt, job, sweeper, retry, pending>>

(* The lease of a job nobody executes runs out; that of one that is executed
   only if its worker stalls. *)
LeaseExpires(f) ==
  /\ job[f].state = "running" /\ job[f].lease = "live"
  /\ ~Locked(f)
  /\ job' = [job EXCEPT ![f].lease = "expired"]
  /\ IF exec[job[f].worker].file = f THEN Fault ELSE UNCHANGED faults
  /\ UNCHANGED <<batch, file, attempt, exec, sweeper, retry, pending>>

-----------------------------------------------------------------------------
Init ==
  /\ batch = "absent"
  /\ file = [f \in Files |-> [state |-> "uploading", current |-> 1]]
  /\ attempt = [a \in Attempts |-> NoAttempt]
  /\ job = [f \in Files |-> NoJob]
  /\ exec = [w \in Workers |-> Idle]
  /\ sweeper = {}
  /\ retry = NoFile
  /\ pending = FALSE
  /\ faults = 0

Requests ==
  \/ CreateBatch \/ CompleteBatch \/ CancelBatch
  \/ ScheduleDeletion \/ CancelDeletion
  \/ \E f \in Files : \/ BeginRetry(f) \/ FinishRetry(f) \/ RefuseRetry(f)
                      \/ RetryJob(f)

Receive(a) ==
  \/ ClaimAttempt(a) \/ OpenPart(a) \/ Deliver(a) \/ Interrupt(a)
  \/ RecordFailure(a) \/ FailureUnrecorded(a)
  \/ Finalize(a) \/ RefuseFinal(a) \/ FinalizeFails(a) \/ Die(a)

Sweep ==
  \/ ExpireDue \/ AbandonSweep
  \/ \E a \in Attempts : SweepObject(a) \/ SweepPart(a)

Work(w) ==
  \/ \E f \in Files : Claim(w, f)
  \/ ClaimNothing(w) \/ Process(w) \/ Err(w) \/ RemoveRaw(w)
  \/ Finish(w) \/ TryAgain(w) \/ BeginFail(w) \/ EndFail(w) \/ FailJobOnly(w)
  \/ LoseLease(w) \/ Vanish(w)

Next ==
  \/ Requests
  \/ \E a \in Attempts : Receive(a) \/ RemoveCancelled(a)
  \/ Sweep
  \/ \E w \in Workers : Work(w)
  \/ \E f \in Files : LeaseExpires(f)

Spec == Init /\ [][Next]_vars

-----------------------------------------------------------------------------
(* Properties *)

(* A received file waits for its processing with its object on disk: neither
   the cleanup of cancelled and expired attempts nor a stream that ends late
   takes it away.  Only a receiver that mistook its commit for a failed one
   may have done so. *)
ReceivedKept ==
  \A f \in Files :
    file[f].state = "queued" =>
      \/ "object" \in attempt[Current(f)].temp
      \/ attempt[Current(f)].receiver = "lost"

(* The state of a file is that of its current attempt, and its older attempts
   are over without success: no late stream, cancellation, expiry or job
   failure moves one without the other. *)
Matches ==
  [uploading |-> {"uploading", "receiving"}, queued |-> {"queued"},
   failed |-> {"failed"}, cancelled |-> {"cancelled", "failed", "expired"},
   expired |-> {"expired"}, succeeded |-> {"succeeded"}]

FilesAgree ==
  batch # "absent" =>
    \A a \in Attempts :
      LET f == a[1] IN
      /\ a[2] = file[f].current => attempt[a].state \in Matches[file[f].state]
      /\ a[2] < file[f].current => attempt[a].state \in Discarded
      /\ a[2] > file[f].current => attempt[a].state = "absent"

(* A batch does not end over the head of a file that is still sent or waits
   for its processing, and one that is open for uploads or queued has such a
   file.  Two things are true of the code that one would not expect: an old job
   that fails turns a batch that is sent again into "processing", and one that
   has counted before a retry commits turns it into "failed". *)
BatchAgrees ==
  LET active == {f \in Files : file[f].state \in ActiveFile}
  IN batch # "absent" =>
       /\ active # {} => batch \notin {"cancelling", "cancelled", "expired", "succeeded"}
       /\ batch \in {"uploading", "queued"} => active # {}
       /\ batch \in {"failed", "partially_succeeded"} =>
            \A f \in active : file[f].current > 1

(* No interleaving of streams, retries, cancellations, expiries and job
   failures makes the three levels contradict each other. *)
BooksAgree == FilesAgree /\ BatchAgrees

(* The completion of a batch gives each received file a job for its current
   attempt, and that job is not lost: while the file is queued it runs, will
   run or can be retried.  A file that was received only after an old job had
   turned its batch into "processing" never gets such a job. *)
Assigned(f) == job[f].state # "absent" /\ job[f].try = file[f].current

QueuedOwed ==
  \A f \in Files :
    file[f].state = "queued" =>
      /\ batch = "queued" => Assigned(f)
      /\ batch \in {"queued", "processing"} /\ Assigned(f) =>
           job[f].state \in {"queued", "running", "paused", "failed"}

=============================================================================
