--------------------------- MODULE JobQueueProofs ---------------------------
(* Proofs about JobQueue, for every number of jobs, projects and workers. *)
EXTENDS JobQueue, TLAPS

USE DEF Terminal, States, Kinds, Busy, Phases

(* Two rows that agree on the columns no life-cycle statement sets. *)
Same(r, s) ==
  /\ s.kind = r.kind /\ s.home = r.home /\ s.linked = r.linked
  /\ s.stage = r.stage /\ s.max = r.max

Released(s, state) ==
  s.state = state /\ s.worker = NoWorker /\ s.lease = "none"

(* What each statement makes of a row. *)
LEMMA PausedRow ==
  ASSUME NEW r \in Row
  PROVE  /\ Paused(r) \in Row
         /\ Same(r, Paused(r)) /\ Paused(r).attempts = r.attempts
         /\ Released(Paused(r), "paused") /\ Paused(r).reason = "pending_deletion"
BY DEF Row, Paused, Same, Released

LEMMA ResumedRow ==
  ASSUME NEW r \in Row
  PROVE  /\ Resumed(r) \in Row
         /\ Same(r, Resumed(r)) /\ Resumed(r).attempts = r.attempts
         /\ Resumed(r).state = "queued" /\ Resumed(r).reason = "none"
         /\ Resumed(r).worker = r.worker /\ Resumed(r).lease = r.lease
BY DEF Row, Resumed, Same

LEMMA CancelledRow ==
  ASSUME NEW r \in Row
  PROVE  /\ Cancelled(r) \in Row
         /\ Same(r, Cancelled(r)) /\ Cancelled(r).attempts = r.attempts
         /\ Released(Cancelled(r), "cancelled") /\ Cancelled(r).reason = r.reason
BY DEF Row, Cancelled, Same, Released

LEMMA FailedRow ==
  ASSUME NEW r \in Row
  PROVE  /\ Failed(r) \in Row
         /\ Same(r, Failed(r)) /\ Failed(r).attempts = r.attempts
         /\ Released(Failed(r), "failed") /\ Failed(r).reason = r.reason
BY DEF Row, Failed, Same, Released

LEMMA SucceededRow ==
  ASSUME NEW r \in Row
  PROVE  /\ Succeeded(r) \in Row
         /\ Same(r, Succeeded(r)) /\ Succeeded(r).attempts = r.attempts
         /\ Released(Succeeded(r), "succeeded") /\ Succeeded(r).reason = r.reason
BY DEF Row, Succeeded, Same, Released

LEMMA RequeuedRow ==
  ASSUME NEW r \in Row
  PROVE  /\ Requeued(r) \in Row
         /\ Same(r, Requeued(r)) /\ Requeued(r).attempts = r.attempts
         /\ Released(Requeued(r), "queued") /\ Requeued(r).reason = r.reason
BY DEF Row, Requeued, Same, Released

LEMMA LeasedRow ==
  ASSUME NEW r \in Row, NEW w \in Workers
  PROVE  /\ Leased(r, w) \in Row
         /\ Same(r, Leased(r, w)) /\ Leased(r, w).attempts = r.attempts + 1
         /\ Leased(r, w).state = "running" /\ Leased(r, w).reason = "none"
         /\ Leased(r, w).worker = w /\ Leased(r, w).lease = "live"
<1>1. r.attempts + 1 \in Nat
  BY DEF Row
<1> QED
  BY <1>1 DEF Row, Leased, Same

LEMMA RetriedRow ==
  ASSUME NEW r \in Row
  PROVE  /\ Retried(r) \in Row
         /\ Retried(r).kind = r.kind /\ Retried(r).home = r.home
         /\ Retried(r).linked = r.linked /\ Retried(r).stage = r.stage
         /\ Retried(r).attempts = r.attempts + 1
         /\ Retried(r).max >= r.max /\ Retried(r).max >= r.attempts + 2
         /\ Released(Retried(r), "queued") /\ Retried(r).reason = "none"
<1>1. r.attempts \in Nat /\ r.max \in Nat
  BY DEF Row
<1> DEFINE m == IF r.max > r.attempts + 2 THEN r.max ELSE r.attempts + 2
<1>2. m \in Nat /\ m >= r.max /\ m >= r.attempts + 2
  BY <1>1
<1>3. Retried(r) = [r EXCEPT !.state = "queued", !.reason = "none", !.due = TRUE,
                            !.worker = NoWorker, !.lease = "none",
                            !.attempts = r.attempts + 1, !.max = m]
  BY DEF Retried, Row
<1> HIDE DEF m
<1>4. Retried(r) \in Row
  <2>1. r.attempts + 1 \in Nat
    BY <1>1
  <2> QED
    BY <1>2, <1>3, <2>1 DEF Row
<1>5. /\ Retried(r).attempts = r.attempts + 1 /\ Retried(r).max = m
      /\ Retried(r).kind = r.kind /\ Retried(r).home = r.home
      /\ Retried(r).linked = r.linked /\ Retried(r).stage = r.stage
      /\ Retried(r).state = "queued" /\ Retried(r).worker = NoWorker
      /\ Retried(r).lease = "none" /\ Retried(r).reason = "none"
  BY <1>3 DEF Row
<1> QED
  BY <1>2, <1>4, <1>5 DEF Released

LEMMA UnlinkedRow ==
  ASSUME NEW r \in Row
  PROVE  /\ Unlinked(r) \in Row
         /\ Unlinked(r).kind = r.kind /\ Unlinked(r).home = r.home
         /\ ~Unlinked(r).linked /\ Unlinked(r).stage = r.stage
         /\ Unlinked(r).attempts = r.attempts /\ Unlinked(r).max = r.max
         /\ Unlinked(r).state = r.state /\ Unlinked(r).reason = r.reason
         /\ Unlinked(r).worker = r.worker /\ Unlinked(r).lease = r.lease
BY DEF Row, Unlinked

LEMMA MarkedRow ==
  ASSUME NEW r \in Row
  PROVE  /\ Marked(r) \in Row
         /\ Marked(r).kind = r.kind /\ Marked(r).home = r.home
         /\ Marked(r).linked = r.linked /\ Marked(r).stage = "external"
         /\ Marked(r).attempts = r.attempts /\ Marked(r).max = r.max
         /\ Marked(r).state = r.state /\ Marked(r).reason = r.reason
         /\ Marked(r).worker = r.worker /\ Marked(r).lease = r.lease
BY DEF Row, Marked

LEMMA ExpiredRow ==
  ASSUME NEW r \in Row
  PROVE  /\ Expired(r) \in Row
         /\ Same(r, Expired(r)) /\ Expired(r).attempts = r.attempts
         /\ Expired(r).state = r.state /\ Expired(r).reason = r.reason
         /\ Expired(r).worker = r.worker /\ Expired(r).lease = "expired"
BY DEF Row, Expired, Same

LEMMA DueRow ==
  ASSUME NEW r \in Row
  PROVE  /\ Due(r) \in Row
         /\ Same(r, Due(r)) /\ Due(r).attempts = r.attempts
         /\ Due(r).state = r.state /\ Due(r).reason = r.reason
         /\ Due(r).worker = r.worker /\ Due(r).lease = r.lease
BY DEF Row, Due, Same

LEMMA NewRowType ==
  ASSUME NEW k \in Kinds, NEW p \in Projects \union {NoProject}, NEW d \in BOOLEAN
  PROVE  NewRow(k, p, d) \in Row
BY ConstantsOK DEF Row, NewRow

LEMMA BlankType == Blank \in Row
<1>1. NewRow("upload", NoProject, FALSE) \in Row
  BY NewRowType
<1> QED
  BY <1>1 DEF Row, Blank

LEMMA InitTypeOK == Init => TypeOK
<1> SUFFICES ASSUME Init PROVE TypeOK
  OBVIOUS
<1>1. job \in [Jobs -> Row]
  BY BlankType DEF Init
<1>2. \A j \in Jobs : job[j].state = "absent"
  BY DEF Init, Blank, NewRow
<1>3. proj \in [Projects -> ProjectRow]
  BY DEF Init, ProjectRow
<1>4. exec \in [Workers -> Execution]
  BY DEF Init, Execution, Idle
<1>5. \A w \in Workers : exec[w].phase \notin Busy
  BY DEF Init, Idle
<1>6. faults \in 0..MaxFaults
  BY ConstantsOK DEF Init
<1>7. media \in [Projects -> BOOLEAN]
  BY DEF Init
<1> QED
  BY <1>1, <1>2, <1>3, <1>4, <1>5, <1>6, <1>7 DEF TypeOK

(* The sweep of a claim leaves a row alone, pauses it or fails it. *)
LEMMA SweptRow ==
  ASSUME TypeOK, NEW snap, NEW j \in Jobs
  PROVE  LET r == Swept(snap)[j]
         IN \/ r = job[j] /\ ~Exhausted(r) /\ ~Pausable(j, snap)
            \/ r = Paused(job[j]) /\ Pausable(j, snap)
            \/ r = Failed(job[j]) /\ Exhausted(job[j]) /\ ~Pausable(j, snap)
<1>1. job[j] \in Row
  BY DEF TypeOK
<1>2. ~Exhausted(Paused(job[j]))
  BY <1>1, PausedRow DEF Exhausted, Claimable, Released
<1> QED
  BY <1>2 DEF Swept, PauseAll

LEMMA SweptType ==
  ASSUME TypeOK, NEW snap, NEW j \in Jobs
  PROVE  /\ Swept(snap)[j] \in Row
         /\ Same(job[j], Swept(snap)[j])
         /\ Swept(snap)[j].attempts = job[j].attempts
         /\ job[j].state = "absent" => Swept(snap)[j].state = "absent"
<1>1. job[j] \in Row
  BY DEF TypeOK
<1>2. Same(job[j], job[j])
  BY DEF Same
<1>3. job[j].state = "absent" => ~Pausable(j, snap) /\ ~Exhausted(job[j])
  BY DEF Pausable, Exhausted, Claimable
<1> QED
  BY <1>1, <1>2, <1>3, SweptRow, PausedRow, FailedRow

NewRowFields(s, k, p) ==
  /\ s \in Row
  /\ s.kind = k /\ s.home = p /\ s.linked /\ s.state = "queued"
  /\ s.reason = "none" /\ s.stage = "start" /\ s.attempts = 0
  /\ s.max = Budget[k] /\ s.worker = NoWorker /\ s.lease = "none"

LEMMA NewRowIs ==
  ASSUME NEW k \in Kinds, NEW p \in Projects
  PROVE  /\ NewRowFields(NewRow(k, p, TRUE), k, p)
         /\ NewRowFields(NewRow(k, p, FALSE), k, p)
<1>1. NewRow(k, p, TRUE) \in Row /\ NewRow(k, p, FALSE) \in Row
  BY NewRowType
<1> QED
  BY <1>1 DEF NewRow, NewRowFields

(* What the type invariant says of the jobs. *)
JobsOK(f) ==
  /\ f \in [Jobs -> Row]
  /\ \A j \in Jobs : f[j].state # "absent" => f[j].home \in Projects

ExecOK(e) ==
  /\ e \in [Workers -> Execution]
  /\ \A w \in Workers : e[w].phase \in Busy => e[w].job \in Jobs

LEMMA SplitType ==
  TypeOK <=> /\ JobsOK(job)
             /\ ExecOK(exec)
             /\ proj \in [Projects -> ProjectRow]
             /\ media \in [Projects -> BOOLEAN]
             /\ faults \in 0..MaxFaults
BY DEF TypeOK, JobsOK, ExecOK

LEMMA SweptOK ==
  ASSUME TypeOK, NEW snap
  PROVE  JobsOK(Swept(snap))
<1>1. ASSUME NEW j \in Jobs
      PROVE  /\ Swept(snap)[j] \in Row
             /\ Swept(snap)[j].state # "absent" => Swept(snap)[j].home \in Projects
  <2>1. job[j].state # "absent" => job[j].home \in Projects
    BY DEF TypeOK
  <2> QED
    BY <2>1, SweptType DEF Same
<1>2. Swept(snap) \in [Jobs -> Row]
  BY <1>1 DEF Swept
<1> QED
  BY <1>1, <1>2 DEF JobsOK

(* Replacing one row by one that belongs to a project, or an execution by
   one that is idle or keeps its job, preserves the types. *)
LEMMA OneRow ==
  ASSUME NEW f, JobsOK(f), NEW j \in Jobs, NEW r \in Row, r.home \in Projects
  PROVE  JobsOK([f EXCEPT ![j] = r])
BY DEF JobsOK

LEMMA OneExecution ==
  ASSUME ExecOK(exec), NEW w \in Workers, NEW e \in Execution,
         e.phase \in Busy => e.job \in Jobs
  PROVE  ExecOK([exec EXCEPT ![w] = e])
BY DEF ExecOK

LEMMA ExecutionTypes ==
  /\ Idle \in Execution /\ Idle.phase = "idle" /\ Idle.phase \notin Busy
  /\ Dead \in Execution /\ Dead.phase = "dead" /\ Dead.phase \notin Busy
  /\ \A e \in Execution : \A ph \in Busy :
       /\ [e EXCEPT !.phase = ph] \in Execution
       /\ [e EXCEPT !.phase = ph].job = e.job
       /\ [e EXCEPT !.phase = ph].attempt = e.attempt
       /\ [e EXCEPT !.phase = ph].phase = ph
BY DEF Execution, Idle, Dead

LEMMA NextPhase ==
  ASSUME TypeOK, NEW w \in Workers, exec[w].phase \in Busy, NEW ph \in Busy,
         exec' = [exec EXCEPT ![w].phase = ph]
  PROVE  ExecOK(exec')
<1>1. exec' = [exec EXCEPT ![w] = [exec[w] EXCEPT !.phase = ph]]
  BY DEF TypeOK
<1>2. exec[w] \in Execution /\ exec[w].job \in Jobs
  BY DEF TypeOK
<1> DEFINE e == [exec[w] EXCEPT !.phase = ph]
<1>3. e \in Execution /\ e.job \in Jobs
  BY <1>2, ExecutionTypes
<1>4. ExecOK(exec)
  BY SplitType
<1> HIDE DEF e
<1> QED
  BY <1>1, <1>3, <1>4, OneExecution DEF e

LEMMA BackToIdle ==
  ASSUME TypeOK, NEW w \in Workers, NEW e \in {Idle, Dead},
         exec' = [exec EXCEPT ![w] = e]
  PROVE  ExecOK(exec')
BY ExecutionTypes, OneExecution, SplitType

(* The rows Record may write. *)
LEMMA RecordOK ==
  ASSUME TypeOK, NEW w \in Workers, exec[w].phase \in Busy, NEW r \in Row,
         Same(job[exec[w].job], r), Record(w, r)
  PROVE  JobsOK(job') /\ ExecOK(exec')
<1>1. exec[w].job \in Jobs
  BY DEF TypeOK
<1>2. ExecOK(exec')
  BY BackToIdle DEF Record
<1>3. CASE Owns(w)
  <2>1. job[exec[w].job].home \in Projects
    BY <1>1, <1>3 DEF Owns, TypeOK
  <2>2. r.home \in Projects
    BY <2>1 DEF Same
  <2> QED
    BY <1>1, <1>2, <1>3, <2>2, OneRow, SplitType DEF Record
<1>4. CASE ~Owns(w)
  BY <1>2, <1>4, SplitType DEF Record
<1> QED
  BY <1>3, <1>4

(* What the purge makes of a row: it is left alone, cancelled or unlinked. *)
LEMMA PurgedRow ==
  ASSUME TypeOK, NEW w, NEW p, NEW j \in Jobs
  PROVE  LET r == job[j]
             s == Purged(w, p)[j]
         IN /\ s \in Row
            /\ s.kind = r.kind /\ s.home = r.home /\ s.reason = r.reason
            /\ s.attempts = r.attempts /\ s.max = r.max
            /\ IF Of(j, p) THEN ~s.linked ELSE s.linked = r.linked
            /\ s.stage = r.stage \/ (s.stage = "external" /\ j = exec[w].job)
            /\ IF Of(j, p) /\ j # exec[w].job THEN Released(s, "cancelled")
               ELSE s.state = r.state /\ s.worker = r.worker /\ s.lease = r.lease
<1> DEFINE d == Detached(j, p, exec[w].job)
<1>1. job[j] \in Row
  BY DEF TypeOK
<1>2. /\ d \in Row
      /\ d.kind = job[j].kind /\ d.home = job[j].home /\ d.reason = job[j].reason
      /\ d.attempts = job[j].attempts /\ d.max = job[j].max
      /\ IF Of(j, p) THEN ~d.linked ELSE d.linked = job[j].linked
      /\ d.stage = job[j].stage
      /\ IF Of(j, p) /\ j # exec[w].job THEN Released(d, "cancelled")
         ELSE d.state = job[j].state /\ d.worker = job[j].worker /\ d.lease = job[j].lease
  <2>1. CASE ~Of(j, p)
    <3>1. d = job[j]
      BY <2>1 DEF Detached
    <3> QED
      BY <1>1, <2>1, <3>1
  <2>2. CASE Of(j, p) /\ j = exec[w].job
    <3>1. d = Unlinked(job[j])
      BY <2>2 DEF Detached
    <3> QED
      BY <1>1, <2>2, <3>1, UnlinkedRow
  <2>3. CASE Of(j, p) /\ j # exec[w].job
    <3>1. d = Unlinked(Cancelled(job[j]))
      BY <2>3 DEF Detached
    <3> QED
      BY <1>1, <2>3, <3>1, UnlinkedRow, CancelledRow DEF Same, Released
  <2> QED
    BY <2>1, <2>2, <2>3
<1>3. Purged(w, p)[j] = d \/ (Purged(w, p)[j] = Marked(d) /\ j = exec[w].job)
  BY DEF Purged
<1> HIDE DEF d
<1> QED
  BY <1>2, <1>3, MarkedRow DEF Released

LEMMA PurgedOK ==
  ASSUME TypeOK, NEW w, NEW p
  PROVE  JobsOK(Purged(w, p))
<1>1. ASSUME NEW j \in Jobs
      PROVE  /\ Purged(w, p)[j] \in Row
             /\ Purged(w, p)[j].state # "absent" => Purged(w, p)[j].home \in Projects
  <2>1. job[j].state # "absent" => job[j].home \in Projects
    BY DEF TypeOK
  <2>2. Of(j, p) => job[j].state # "absent"
    BY DEF Of
  <2> QED
    BY <2>1, <2>2, PurgedRow
<1>2. Purged(w, p) \in [Jobs -> Row]
  BY <1>1 DEF Purged
<1> QED
  BY <1>1, <1>2 DEF JobsOK

(* The type invariant, statement by statement. *)
LEMMA TypeStep ==
  ASSUME TypeOK, HandlerProgress, [Next]_vars
  PROVE  TypeOK'
<1> SUFFICES /\ JobsOK(job') /\ ExecOK(exec')
             /\ proj' \in [Projects -> ProjectRow]
             /\ media' \in [Projects -> BOOLEAN]
             /\ faults' \in 0..MaxFaults
  BY DEF TypeOK, JobsOK, ExecOK
<1> DEFINE Goal == /\ JobsOK(job') /\ ExecOK(exec')
                   /\ proj' \in [Projects -> ProjectRow]
                   /\ media' \in [Projects -> BOOLEAN]
                   /\ faults' \in 0..MaxFaults
<1>0. /\ JobsOK(job) /\ ExecOK(exec)
      /\ proj \in [Projects -> ProjectRow]
      /\ media \in [Projects -> BOOLEAN]
      /\ faults \in 0..MaxFaults
  BY SplitType
<1>1. ASSUME NEW j \in Jobs, NEW p \in Projects, NEW k \in RequestKinds,
             CreateJob(j, p, k)
      PROVE  Goal
  <2>1. k \in Kinds
    BY ConstantsOK
  <2> DEFINE r == NewRow(k, p, TRUE)
  <2>2. NewRowFields(r, k, p)
    BY <2>1, NewRowIs
  <2>3. job' = [job EXCEPT ![j] = r]
    BY <1>1 DEF CreateJob
  <2> HIDE DEF r
  <2>4. JobsOK(job')
    BY <1>0, <2>2, <2>3, OneRow DEF NewRowFields
  <2> QED
    BY <1>0, <1>1, <2>4 DEF CreateJob
<1>2. ASSUME NEW j \in Jobs, NEW p \in Projects, ScheduleDeletion(j, p)
      PROVE  Goal
  <2> DEFINE q == NewRow("purge", p, FALSE)
  <2>0. NewRowFields(q, "purge", p)
    <3>1. "purge" \in Kinds
      BY DEF Kinds
    <3> QED
      BY <3>1, NewRowIs
  <2> HIDE DEF q
  <2>1. q \in Row /\ q.home = p
    BY <2>0 DEF NewRowFields
  <2>2. ASSUME NEW i \in Jobs
        PROVE  /\ PauseAll({p})[i] \in Row
               /\ PauseAll({p})[i].state # "absent" => PauseAll({p})[i].home \in Projects
    <3>1. job[i] \in Row /\ (job[i].state # "absent" => job[i].home \in Projects)
      BY <1>0 DEF JobsOK
    <3>2. Pausable(i, {p}) => job[i].state # "absent"
      BY DEF Pausable
    <3> QED
      BY <3>1, <3>2, PausedRow DEF PauseAll, Same
  <2>3. PauseAll({p}) \in [Jobs -> Row]
    BY <2>2 DEF PauseAll
  <2>4. JobsOK(PauseAll({p}))
    BY <2>2, <2>3 DEF JobsOK
  <2>5. JobsOK(job')
    BY <1>2, <2>1, <2>4, OneRow DEF ScheduleDeletion, q
  <2>6. proj' \in [Projects -> ProjectRow]
    BY <1>0, <1>2 DEF ScheduleDeletion, ProjectRow
  <2> QED
    BY <1>0, <1>2, <2>5, <2>6 DEF ScheduleDeletion
<1>3. ASSUME NEW p \in Projects, CancelDeletion(p)
      PROVE  Goal
  <2>1. ASSUME NEW i \in Jobs
        PROVE  /\ job'[i] \in Row
               /\ job'[i].state # "absent" => job'[i].home \in Projects
    <3>1. job[i] \in Row /\ (job[i].state # "absent" => job[i].home \in Projects)
      BY <1>0 DEF JobsOK
    <3>2. Resumable(i, p) => job[i].state # "absent"
      BY DEF Resumable
    <3>3. i = proj[p].purge => job[i].state # "absent"
      BY <1>3 DEF CancelDeletion
    <3>4. job'[i] = IF i = proj[p].purge THEN Cancelled(job[i])
                    ELSE IF Resumable(i, p) THEN Resumed(job[i]) ELSE job[i]
      BY <1>3 DEF CancelDeletion
    <3> QED
      BY <3>1, <3>2, <3>3, <3>4, CancelledRow, ResumedRow DEF Same
  <2>2. JobsOK(job')
    <3>1. job' = [i \in Jobs |-> job'[i]]
      BY <1>3 DEF CancelDeletion
    <3> QED
      BY <2>1, <3>1 DEF JobsOK
  <2>3. proj' \in [Projects -> ProjectRow]
    BY <1>0, <1>3 DEF CancelDeletion, ProjectRow
  <2> QED
    BY <1>0, <1>3, <2>2, <2>3 DEF CancelDeletion
<1>4. ASSUME NEW j \in Jobs, ManualRetry(j)
      PROVE  Goal
  <2>1. job[j] \in Row /\ job[j].home \in Projects
    BY <1>0, <1>4 DEF JobsOK, ManualRetry, RetryPermitted
  <2>2. job' = [job EXCEPT ![j] = Retried(job[j])]
    BY <1>4 DEF ManualRetry
  <2>3. JobsOK(job')
    BY <1>0, <2>1, <2>2, RetriedRow, OneRow
  <2> QED
    BY <1>0, <1>4, <2>3 DEF ManualRetry
<1>5. ASSUME NEW w \in Workers, StartWorker(w) \/ LoseLease(w)
      PROVE  Goal
  BY <1>0, <1>5, BackToIdle DEF StartWorker, LoseLease
<1>6. ASSUME NEW w \in Workers, ReadPending(w)
      PROVE  Goal
  <2>1. ExecOK(exec')
    BY <1>0, <1>6 DEF ReadPending, ExecOK, Execution
  <2> QED
    BY <1>0, <1>6, <2>1 DEF ReadPending
<1>7. ASSUME NEW w \in Workers, NEW j \in Jobs, Claim(w, j)
      PROVE  Goal
  <2> DEFINE rows == Swept(exec[w].snap)
  <2>1. /\ Candidate(rows[j], exec[w].snap)
        /\ job' = [rows EXCEPT ![j] = Leased(rows[j], w)]
        /\ exec' = [exec EXCEPT ![w] = Handed(rows[j], j)]
        /\ UNCHANGED <<proj, media, faults>>
    BY <1>7 DEF Claim
  <2>2. JobsOK(rows)
    BY SweptOK
  <2> HIDE DEF rows
  <2>3. rows[j] \in Row /\ rows[j].home \in Projects
    BY <2>1, <2>2 DEF Candidate, Claimable, JobsOK
  <2>4. JobsOK(job')
    BY <2>1, <2>2, <2>3, LeasedRow, OneRow DEF Same
  <2>5. rows[j].attempts + 1 \in Nat
    BY <2>3 DEF Row
  <2>6. Handed(rows[j], j) \in Execution /\ Handed(rows[j], j).job = j
    BY <2>5 DEF Handed, Execution
  <2>7. ExecOK(exec')
    BY <1>0, <2>1, <2>6, OneExecution
  <2> QED
    BY <1>0, <2>1, <2>4, <2>7
<1>8. ASSUME NEW w \in Workers, ClaimNothing(w)
      PROVE  Goal
  <2>1. JobsOK(job')
    BY <1>8, SweptOK DEF ClaimNothing
  <2> QED
    BY <1>0, <1>8, <2>1, BackToIdle DEF ClaimNothing
<1>9. ASSUME NEW w \in Workers, Complete(w)
      PROVE  Goal
  <2>1. exec[w].phase \in Busy /\ job[exec[w].job] \in Row
    BY <1>0, <1>9 DEF Complete, JobsOK, ExecOK
  <2>2. JobsOK(job') /\ ExecOK(exec')
    BY <1>9, <2>1, SucceededRow, RecordOK DEF Complete
  <2> QED
    BY <1>0, <1>9, <2>2 DEF Complete
<1>10. ASSUME NEW w \in Workers, NEW retryable \in BOOLEAN,
              FailAttempt(w, retryable)
       PROVE  Goal
  <2> DEFINE r == job[exec[w].job]
  <2>1. exec[w].phase \in Busy /\ r \in Row
    BY <1>0, <1>10 DEF FailAttempt, JobsOK, ExecOK
  <2>2. AfterError(r, retryable) \in Row /\ Same(r, AfterError(r, retryable))
    BY <2>1, FailedRow, RequeuedRow DEF AfterError
  <2>3. JobsOK(job') /\ ExecOK(exec')
    BY <1>10, <2>1, <2>2, RecordOK DEF FailAttempt
  <2> QED
    BY <1>0, <1>10, <2>3 DEF FailAttempt
<1>11. ASSUME NEW w \in Workers, NEW j \in Jobs, Spawn(w, j)
       PROVE  Goal
  <2> DEFINE p == job[exec[w].job].home
  <2>1. ExecOK(exec')
    BY <1>11, NextPhase DEF Spawn
  <2>2. exec[w].job \in Jobs /\ job[exec[w].job] \in Row
    BY <1>0, <1>11 DEF Spawn, JobsOK, ExecOK
  <2>3. p \in Projects
    BY <1>0, <1>11, <2>2 DEF Spawn, JobsOK, HandlerProgress
  <2> DEFINE r == NewRow("embedding", p, TRUE)
  <2>4. NewRowFields(r, "embedding", p)
    BY <2>3, NewRowIs
  <2>5. job' = job \/ job' = [job EXCEPT ![j] = r]
    BY <1>11 DEF Spawn
  <2> HIDE DEF p, r
  <2>6. JobsOK(job')
    BY <1>0, <2>3, <2>4, <2>5, OneRow DEF NewRowFields
  <2> QED
    BY <1>0, <1>11, <2>1, <2>6 DEF Spawn
<1>12. ASSUME NEW w \in Workers, SpawnRefused(w) \/ CleanupExternal(w)
       PROVE  Goal
  <2>1. ExecOK(exec')
    BY <1>12, NextPhase DEF SpawnRefused, CleanupExternal
  <2>2. media' \in [Projects -> BOOLEAN]
    BY <1>0, <1>12 DEF SpawnRefused, CleanupExternal
  <2> QED
    BY <1>0, <1>12, <2>1, <2>2 DEF SpawnRefused, CleanupExternal
<1>13. ASSUME NEW w \in Workers, PurgeDatabase(w)
       PROVE  Goal
  <2> DEFINE p == job[exec[w].job].home
  <2>1. ExecOK(exec')
    BY <1>13, NextPhase DEF PurgeDatabase
  <2>2. JobsOK(Purged(w, p))
    BY PurgedOK
  <2>3. JobsOK(job')
    BY <1>0, <1>13, <2>2 DEF PurgeDatabase
  <2>4. proj' \in [Projects -> ProjectRow]
    <3>1. \/ UNCHANGED proj
          \/ proj' = [proj EXCEPT ![p].state = "gone", ![p].purge = NoJob]
      BY <1>13 DEF PurgeDatabase
    <3> HIDE DEF p
    <3> QED
      BY <1>0, <3>1 DEF ProjectRow
  <2> QED
    BY <1>0, <1>13, <2>1, <2>3, <2>4 DEF PurgeDatabase
<1>14. ASSUME NEW w \in Workers, Faulty(w)
       PROVE  Goal
  <2>1. ExecOK(exec')
    <3>1. CASE HandlerError(w)
      BY <3>1, NextPhase DEF HandlerError
    <3>2. CASE LoseRecord(w) \/ Crash(w)
      BY <3>2, BackToIdle DEF LoseRecord, Crash
    <3> QED
      BY <1>14, <3>1, <3>2 DEF Faulty
  <2>2. faults' \in 0..MaxFaults
    BY <1>0, <1>14, ConstantsOK DEF Faulty, HandlerError, LoseRecord, Crash, Fault
  <2> QED
    BY <1>0, <1>14, <2>1, <2>2 DEF Faulty, HandlerError, LoseRecord, Crash
<1>15. ASSUME NEW j \in Jobs, LeaseExpires(j) \/ BecomeDue(j)
       PROVE  Goal
  <2>1. faults' \in 0..MaxFaults
    BY <1>0, <1>15, ConstantsOK DEF LeaseExpires, BecomeDue, Fault
  <2>2. JobsOK(job')
    <3>1. job[j] \in Row /\ (job[j].state # "absent" => job[j].home \in Projects)
      BY <1>0 DEF JobsOK
    <3>2. \E r \in {Expired(job[j]), Due(job[j])} : job' = [job EXCEPT ![j] = r]
      BY <1>15 DEF LeaseExpires, BecomeDue
    <3> QED
      BY <1>0, <3>1, <3>2, ExpiredRow, DueRow DEF JobsOK, Same
  <2> QED
    BY <1>0, <1>15, <2>1, <2>2 DEF LeaseExpires, BecomeDue
<1>16. ASSUME NEW p \in Projects, DeadlinePasses(p)
       PROVE  Goal
  BY <1>0, <1>16 DEF DeadlinePasses, ProjectRow
<1>17. ASSUME UNCHANGED vars
       PROVE  Goal
  BY <1>0, <1>17 DEF vars
<1> QED
  BY <1>1, <1>2, <1>3, <1>4, <1>5, <1>6, <1>7, <1>8, <1>9, <1>10, <1>11, <1>12,
     <1>13, <1>14, <1>15, <1>16, <1>17 DEF Next, Request, Loop, Handler, Clock

-----------------------------------------------------------------------------
(* How a step may move one row, one project and one worker.  The step lemmas
   below establish the moves action by action; the invariants then follow
   from the moves alone. *)

Kept(r, s) == s \in Row /\ Same(r, s) /\ s.attempts = r.attempts

Created(j) ==
  LET s == job'[j]
  IN /\ job[j].state = "absent"
     /\ s.home \in Projects /\ s.kind \in Kinds
     /\ NewRowFields(s, s.kind, s.home)
     /\ proj'[s.home].state # "gone"
     /\ s.kind \in {"lexical", "upload"} => proj'[s.home].state = "active"
     /\ s.kind = "purge" => /\ proj[s.home].state = "active"
                            /\ proj'[s.home].state = "pending"
                            /\ proj'[s.home].purge = j

PausedMove(j) ==
  /\ job[j].state \in {"queued", "running"} /\ job[j].kind # "purge"
  /\ Kept(job[j], job'[j])
  /\ Released(job'[j], "paused") /\ job'[j].reason = "pending_deletion"

ResumedMove(j) ==
  /\ job[j].state = "paused"
  /\ Kept(job[j], job'[j])
  /\ job'[j].state = "queued" /\ job'[j].reason = "none"
  /\ job'[j].worker = job[j].worker /\ job'[j].lease = job[j].lease
  /\ proj'[job[j].home].state = "active"

CancelledMove(j) ==
  /\ job[j].state \in {"queued", "paused"} /\ job[j].kind = "purge"
  /\ Kept(job[j], job'[j])
  /\ Released(job'[j], "cancelled") /\ job'[j].reason = job[j].reason
  /\ proj[job[j].home].state = "pending"
  /\ proj'[job[j].home].state = "active"

LeasedMove(j) ==
  /\ Claimable(job[j]) /\ job[j].attempts < job[j].max
  /\ job'[j] \in Row /\ Same(job[j], job'[j])
  /\ job'[j].attempts = job[j].attempts + 1
  /\ job'[j].state = "running" /\ job'[j].reason = "none"
  /\ job'[j].worker \in Workers /\ job'[j].lease = "live"
  /\ exec[job'[j].worker].phase = "polled"

FailedMove(j) ==
  /\ Exhausted(job[j])
  /\ Kept(job[j], job'[j])
  /\ Released(job'[j], "failed") /\ job'[j].reason = job[j].reason

SettledMove(j) ==
  /\ job[j].state = "running"
  /\ Kept(job[j], job'[j])
  /\ \E st \in {"queued", "failed", "succeeded"} : Released(job'[j], st)
  /\ job'[j].state = "queued" => job[j].attempts < job[j].max
  /\ job'[j].reason = job[j].reason
  /\ job[j].kind = "purge" /\ job'[j].state = "succeeded"
     => proj[job[j].home].state = "gone" /\ ~media[job[j].home]
  /\ job[j].kind = "purge" /\ job'[j].state = "failed"
     => job[j].attempts >= job[j].max

RetriedMove(j) ==
  LET r == job[j]
      s == job'[j]
  IN /\ r.state = "failed"
     /\ s \in Row
     /\ s.kind = r.kind /\ s.home = r.home /\ s.linked = r.linked /\ s.stage = r.stage
     /\ s.attempts = r.attempts + 1 /\ s.max >= r.max /\ s.max >= r.attempts + 2
     /\ Released(s, "queued") /\ s.reason = "none"
     /\ proj'[r.home].state = "active"

DetachedMove(j) ==
  LET r == job[j]
      s == job'[j]
  IN /\ r.state # "absent"
     /\ s \in Row
     /\ s.kind = r.kind /\ s.home = r.home /\ s.stage = r.stage
     /\ s.attempts = r.attempts /\ s.max = r.max
     /\ Released(s, "cancelled") /\ ReasonOK(s)
     /\ proj[r.home].state # "gone" /\ proj'[r.home].state = "gone"
     /\ proj[r.home].purge # j

PurgerMove(j) ==
  LET r == job[j]
      s == job'[j]
  IN /\ r.kind = "purge"
     /\ s \in Row
     /\ s.kind = r.kind /\ s.home = r.home /\ s.attempts = r.attempts /\ s.max = r.max
     /\ s.state = r.state /\ s.reason = r.reason /\ s.worker = r.worker
     /\ s.lease = r.lease
     /\ proj'[r.home].state = "gone"

ClockMove(j) ==
  /\ Kept(job[j], job'[j])
  /\ job'[j].state = job[j].state /\ job'[j].reason = job[j].reason
  /\ job'[j].worker = job[j].worker
  /\ job'[j].lease = job[j].lease \/ (job[j].lease = "live" /\ job'[j].lease = "expired")

RowMove(j) ==
  \/ job'[j] = job[j] \/ Created(j) \/ PausedMove(j) \/ ResumedMove(j)
  \/ CancelledMove(j) \/ LeasedMove(j) \/ FailedMove(j) \/ SettledMove(j)
  \/ RetriedMove(j) \/ DetachedMove(j) \/ PurgerMove(j) \/ ClockMove(j)

Scheduled(p) ==
  /\ proj[p].state = "active" /\ proj'[p].state = "pending"
  /\ proj'[p].purge \in Jobs
  /\ job[proj'[p].purge].state = "absent"
  /\ NewRowFields(job'[proj'[p].purge], "purge", p)
  /\ \A j \in Jobs : Pausable(j, {p}) => job'[j].state = "paused"

Reprieved(p) ==
  /\ proj[p].state = "pending" /\ proj'[p].state = "active"
  /\ proj'[p].purge = NoJob
  /\ job'[proj[p].purge].state = "cancelled"

Erased(p) ==
  /\ proj[p].state # "gone" /\ proj'[p].state = "gone"
  /\ proj[p].passed /\ proj'[p].purge = NoJob
  /\ proj[p].purge \in Jobs
  /\ LET i == proj[p].purge
     IN job'[i].kind = job[i].kind /\ job'[i].home = job[i].home
        /\ job'[i].state = job[i].state
  /\ \A j \in Jobs :
       Of(j, p) => ~job'[j].linked
                   /\ (j # proj[p].purge => job'[j].state = "cancelled")
  /\ \A j \in Jobs : ~Of(j, p) => job'[j].state = job[j].state
                                  /\ job'[j].home = job[j].home
                                  /\ job'[j].linked = job[j].linked

ProjectMove(p) ==
  \/ proj'[p].state = proj[p].state /\ proj'[p].purge = proj[p].purge
  \/ Scheduled(p) \/ Reprieved(p) \/ Erased(p)

Progress(w) ==
  LET r == job[exec[w].job]
  IN /\ exec[w].phase \in Busy
     /\ exec'[w].job = exec[w].job /\ exec'[w].attempt = exec[w].attempt
     /\ \/ exec'[w].phase = exec[w].phase
        \/ exec'[w].phase = "error"
        \/ exec'[w].phase = "done" /\ r.kind = "lexical"
        \/ /\ exec'[w].phase = "external"
           /\ r.kind = "purge" /\ proj'[r.home].state = "gone"
        \/ /\ exec'[w].phase = "done" /\ exec[w].phase = "external"
           /\ ~media'[r.home]

Handover(w) ==
  LET j == exec'[w].job
  IN /\ j \in Jobs
     /\ exec'[w].attempt = job[j].attempts + 1
     /\ job[j].state # "absent"
     /\ LeasedMove(j)
     /\ \/ exec'[w].phase = "run"
        \/ /\ exec'[w].phase = "external"
           /\ job[j].kind = "purge" /\ job[j].stage = "external"

WorkerMove(w) ==
  \/ exec'[w].phase \notin Busy
  \/ Progress(w)
  \/ Handover(w)

MediaMove(p) ==
  \/ media'[p] = media[p]
  \/ /\ ~media'[p]
     /\ \E w \in Workers :
          exec[w].phase = "external" /\ job[exec[w].job].home = p

Moves ==
  /\ \A j \in Jobs : RowMove(j)
  /\ \A p \in Projects : ProjectMove(p)
  /\ \A w \in Workers : WorkerMove(w)
  /\ \A p \in Projects : MediaMove(p)

-----------------------------------------------------------------------------
(* Every step consists of moves, action by action. *)

LEMMA RowFrame == UNCHANGED job => \A j \in Jobs : RowMove(j)
BY DEF RowMove

LEMMA ProjectFrame == UNCHANGED proj => \A p \in Projects : ProjectMove(p)
BY DEF ProjectMove

LEMMA WorkerFrame == UNCHANGED exec => \A w \in Workers : WorkerMove(w)
BY DEF WorkerMove, Progress

LEMMA MediaFrame == UNCHANGED media => \A p \in Projects : MediaMove(p)
BY DEF MediaMove

LEMMA CreateMoves ==
  ASSUME Inductive, NEW j \in Jobs, NEW p \in Projects, NEW k \in RequestKinds,
         CreateJob(j, p, k)
  PROVE  Moves
<1> DEFINE r == NewRow(k, p, TRUE)
<1>1. k \in {"lexical", "upload"} /\ k \in Kinds
  BY ConstantsOK
<1>2. NewRowFields(r, k, p)
  BY <1>1, NewRowIs
<1>3. job' = [job EXCEPT ![j] = r] /\ UNCHANGED <<proj, media, exec, faults>>
  BY DEF CreateJob
<1>4. proj[p].state = "active" /\ job[j].state = "absent"
  BY DEF CreateJob, Absent
<1> HIDE DEF r
<1>5. job'[j] = r /\ \A i \in Jobs \ {j} : job'[i] = job[i]
  BY <1>3 DEF Inductive, TypeOK
<1>6. Created(j)
  BY <1>1, <1>2, <1>3, <1>4, <1>5 DEF Created, NewRowFields
<1>7. \A i \in Jobs : RowMove(i)
  BY <1>5, <1>6 DEF RowMove
<1> QED
  BY <1>3, <1>7, ProjectFrame, WorkerFrame, MediaFrame DEF Moves

LEMMA ScheduleMoves ==
  ASSUME Inductive, NEW j \in Jobs, NEW p \in Projects, ScheduleDeletion(j, p)
  PROVE  Moves
<1> DEFINE r == NewRow("purge", p, FALSE)
<1>1. NewRowFields(r, "purge", p)
  <2>1. "purge" \in Kinds
    BY DEF Kinds
  <2> QED
    BY <2>1, NewRowIs
<1>2. /\ job' = [PauseAll({p}) EXCEPT ![j] = r]
      /\ UNCHANGED <<media, exec, faults>>
      /\ proj[p].state = "active" /\ job[j].state = "absent"
      /\ proj' = [proj EXCEPT ![p] =
                     [state |-> "pending", passed |-> FALSE, purge |-> j]]
  BY DEF ScheduleDeletion, Absent
<1>3. /\ proj'[p].state = "pending" /\ proj'[p].purge = j
      /\ \A q \in Projects \ {p} : proj'[q] = proj[q]
  BY <1>2 DEF Inductive, TypeOK
<1> HIDE DEF r
<1>4. job'[j] = r
  BY <1>2 DEF PauseAll
<1>5. ASSUME NEW i \in Jobs, i # j
      PROVE  job'[i] = IF Pausable(i, {p}) THEN Paused(job[i]) ELSE job[i]
  BY <1>2, <1>5 DEF PauseAll
<1>6. \A i \in Jobs : job[i] \in Row
  BY DEF Inductive, TypeOK
<1>7. Created(j)
  BY <1>1, <1>2, <1>3, <1>4 DEF Created, NewRowFields
<1>8. ASSUME NEW i \in Jobs
      PROVE  RowMove(i)
  <2>1. CASE i = j
    BY <1>7, <2>1 DEF RowMove
  <2>2. CASE i # j /\ ~Pausable(i, {p})
    BY <1>5, <2>2 DEF RowMove
  <2>3. CASE i # j /\ Pausable(i, {p})
    BY <1>5, <1>6, <2>3, PausedRow DEF RowMove, PausedMove, Pausable, Kept
  <2> QED
    BY <2>1, <2>2, <2>3
<1>9. \A i \in Jobs : Pausable(i, {p}) => job'[i].state = "paused"
  <2>1. ~Pausable(j, {p})
    BY <1>2 DEF Pausable
  <2> QED
    BY <1>5, <1>6, <2>1, PausedRow DEF Released
<1>10. Scheduled(p)
  BY <1>1, <1>2, <1>3, <1>4, <1>9 DEF Scheduled
<1>11. \A q \in Projects : ProjectMove(q)
  BY <1>3, <1>10 DEF ProjectMove
<1> QED
  BY <1>2, <1>8, <1>11, WorkerFrame, MediaFrame DEF Moves

LEMMA CancelMoves ==
  ASSUME Inductive, NEW p \in Projects, CancelDeletion(p)
  PROVE  Moves
<1> DEFINE b == proj[p].purge
<1>1. /\ UNCHANGED <<media, exec, faults>>
      /\ proj[p].state = "pending" /\ job[b].state \in {"queued", "paused"}
      /\ proj' = [proj EXCEPT ![p] =
                     [state |-> "active", passed |-> FALSE, purge |-> NoJob]]
  BY DEF CancelDeletion
<1>2. b \in Jobs /\ job[b].kind = "purge" /\ job[b].home = p
  <2>1. b # NoJob /\ OpenPurge(b, p)
    BY <1>1 DEF Inductive, BoundPurge
  <2>2. b \in Jobs \union {NoJob}
    BY DEF Inductive, TypeOK, ProjectRow
  <2> QED
    BY <2>1, <2>2 DEF OpenPurge
<1>3. /\ proj'[p].state = "active" /\ proj'[p].purge = NoJob
      /\ \A q \in Projects \ {p} : proj'[q] = proj[q]
  BY <1>1 DEF Inductive, TypeOK
<1>4. ASSUME NEW i \in Jobs
      PROVE  job'[i] = IF i = b THEN Cancelled(job[i])
                       ELSE IF Resumable(i, p) THEN Resumed(job[i]) ELSE job[i]
  BY DEF CancelDeletion
<1>5. \A i \in Jobs : job[i] \in Row
  BY DEF Inductive, TypeOK
<1> HIDE DEF b
<1>6. ASSUME NEW i \in Jobs
      PROVE  RowMove(i)
  <2>1. CASE i = b
    BY <1>1, <1>2, <1>3, <1>4, <1>5, <2>1, CancelledRow
       DEF RowMove, CancelledMove, Kept
  <2>2. CASE i # b /\ Resumable(i, p)
    BY <1>3, <1>4, <1>5, <2>2, ResumedRow
       DEF RowMove, ResumedMove, Kept, Resumable, Of
  <2>3. CASE i # b /\ ~Resumable(i, p)
    BY <1>4, <2>3 DEF RowMove
  <2> QED
    BY <2>1, <2>2, <2>3
<1>7. Reprieved(p)
  BY <1>1, <1>2, <1>3, <1>4, <1>5, CancelledRow DEF Reprieved, Released, b
<1>8. \A q \in Projects : ProjectMove(q)
  BY <1>3, <1>7 DEF ProjectMove
<1> QED
  BY <1>1, <1>6, <1>8, WorkerFrame, MediaFrame DEF Moves

LEMMA RetryMoves ==
  ASSUME Inductive, NEW j \in Jobs, ManualRetry(j)
  PROVE  Moves
<1>1. /\ job[j].state = "failed" /\ proj[job[j].home].state = "active"
      /\ job' = [job EXCEPT ![j] = Retried(job[j])]
      /\ UNCHANGED <<proj, media, exec, faults>>
  BY DEF ManualRetry, RetryPermitted
<1>2. job[j] \in Row
  BY DEF Inductive, TypeOK
<1>3. job'[j] = Retried(job[j]) /\ \A i \in Jobs \ {j} : job'[i] = job[i]
  BY <1>1 DEF Inductive, TypeOK
<1>4. RetriedMove(j)
  BY <1>1, <1>2, <1>3, RetriedRow DEF RetriedMove
<1>5. \A i \in Jobs : RowMove(i)
  BY <1>3, <1>4 DEF RowMove
<1> QED
  BY <1>1, <1>5, ProjectFrame, WorkerFrame, MediaFrame DEF Moves

(* A swept row was left alone, paused or failed. *)
LEMMA SweptMove ==
  ASSUME Inductive, NEW snap, NEW j \in Jobs, job'[j] = Swept(snap)[j]
  PROVE  RowMove(j)
<1>1. TypeOK /\ job[j] \in Row
  BY DEF Inductive, TypeOK
<1>2. \/ job'[j] = job[j]
      \/ job'[j] = Paused(job[j]) /\ Pausable(j, snap)
      \/ job'[j] = Failed(job[j]) /\ Exhausted(job[j])
  BY <1>1, SweptRow
<1>3. CASE job'[j] = job[j]
  BY <1>3 DEF RowMove
<1>4. CASE job'[j] = Paused(job[j]) /\ Pausable(j, snap)
  BY <1>1, <1>4, PausedRow DEF RowMove, PausedMove, Pausable, Kept
<1>5. CASE job'[j] = Failed(job[j]) /\ Exhausted(job[j])
  BY <1>1, <1>5, FailedRow DEF RowMove, FailedMove, Kept
<1> QED
  BY <1>2, <1>3, <1>4, <1>5

LEMMA ClaimMoves ==
  ASSUME Inductive, NEW w \in Workers, NEW j \in Jobs, Claim(w, j)
  PROVE  Moves
<1> DEFINE snap == exec[w].snap
           rows == Swept(snap)
<1>0. TypeOK /\ job[j] \in Row
  BY DEF Inductive, TypeOK
<1>1. /\ exec[w].phase = "polled"
      /\ Candidate(rows[j], snap)
      /\ job' = [rows EXCEPT ![j] = Leased(rows[j], w)]
      /\ exec' = [exec EXCEPT ![w] = Handed(rows[j], j)]
      /\ UNCHANGED <<proj, media, faults>>
  BY DEF Claim
<1>2. rows[j] = job[j]
  <2>1. Claimable(rows[j]) /\ ~Exhausted(rows[j])
    BY <1>0, <1>1, SweptType DEF Candidate, Exhausted, Row
  <2> QED
    BY <1>0, <2>1, SweptRow, PausedRow, FailedRow DEF Claimable, Released
<1>3. DOMAIN rows = Jobs
  BY DEF Swept
<1> HIDE DEF rows
<1>4. job'[j] = Leased(job[j], w) /\ \A i \in Jobs \ {j} : job'[i] = rows[i]
  BY <1>1, <1>2, <1>3
<1>5. Claimable(job[j]) /\ job[j].attempts < job[j].max
  BY <1>1, <1>2 DEF Candidate
<1>6. LeasedMove(j)
  BY <1>0, <1>1, <1>4, <1>5, LeasedRow DEF LeasedMove
<1>7. \A i \in Jobs : RowMove(i)
  BY <1>4, <1>6, SweptMove DEF RowMove, rows
<1>8. /\ exec'[w] = Handed(job[j], j)
      /\ \A v \in Workers \ {w} : exec'[v] = exec[v]
  BY <1>0, <1>1, <1>2 DEF TypeOK
<1>9. Handover(w)
  BY <1>5, <1>6, <1>8 DEF Handover, Handed, Claimable
<1>10. \A v \in Workers : WorkerMove(v)
  BY <1>8, <1>9 DEF WorkerMove, Progress
<1> QED
  BY <1>1, <1>7, <1>10, ProjectFrame, MediaFrame DEF Moves

LEMMA IdleMove ==
  ASSUME Inductive, NEW w \in Workers, NEW e, e.phase \notin Busy,
         exec' = [exec EXCEPT ![w] = e]
  PROVE  \A v \in Workers : WorkerMove(v)
<1>1. exec'[w] = e /\ \A v \in Workers \ {w} : exec'[v] = exec[v]
  BY DEF Inductive, TypeOK
<1> QED
  BY <1>1 DEF WorkerMove, Progress

LEMMA SweepMoves ==
  ASSUME Inductive, NEW w \in Workers, ClaimNothing(w)
  PROVE  Moves
<1>1. /\ job' = Swept(exec[w].snap)
      /\ exec' = [exec EXCEPT ![w] = Idle]
      /\ UNCHANGED <<proj, media, faults>>
  BY DEF ClaimNothing
<1> QED
  BY <1>1, SweptMove, IdleMove, ExecutionTypes, ProjectFrame, MediaFrame DEF Moves

(* Recording an outcome settles the row or changes nothing. *)
LEMMA RecordMoves ==
  ASSUME Inductive, NEW w \in Workers, exec[w].phase \in Busy, NEW s,
         LET r == job[exec[w].job]
         IN /\ Kept(r, s)
            /\ \E st \in {"queued", "failed", "succeeded"} : Released(s, st)
            /\ s.state = "queued" => r.attempts < r.max
            /\ s.reason = r.reason
            /\ r.kind = "purge" /\ s.state = "succeeded"
               => proj[r.home].state = "gone" /\ ~media[r.home]
            /\ r.kind = "purge" /\ s.state = "failed" => r.attempts >= r.max,
         Record(w, s), UNCHANGED <<proj, media, faults>>
  PROVE  Moves
<1> DEFINE j == exec[w].job
<1>1. j \in Jobs
  BY DEF Inductive, TypeOK
<1>2. \/ UNCHANGED job
      \/ /\ job[j].state = "running"
         /\ job' = [job EXCEPT ![j] = s]
  BY DEF Record, Owns
<1>3. exec' = [exec EXCEPT ![w] = Idle]
  BY DEF Record
<1>4. ASSUME job[j].state = "running", job' = [job EXCEPT ![j] = s]
      PROVE  \A i \in Jobs : RowMove(i)
  <2>1. job'[j] = s /\ \A i \in Jobs \ {j} : job'[i] = job[i]
    BY <1>1, <1>4 DEF Inductive, TypeOK
  <2>2. SettledMove(j)
    BY <1>4, <2>1 DEF SettledMove
  <2> HIDE DEF j
  <2> QED
    BY <2>1, <2>2 DEF RowMove
<1>5. \A i \in Jobs : RowMove(i)
  BY <1>2, <1>4, RowFrame
<1> QED
  BY <1>3, <1>5, IdleMove, ExecutionTypes, ProjectFrame, MediaFrame DEF Moves

LEMMA CompleteMoves ==
  ASSUME Inductive, NEW w \in Workers, Complete(w)
  PROVE  Moves
<1> DEFINE r == job[exec[w].job]
<1>1. /\ exec[w].phase \in {"done", "run"}
      /\ r.kind = "purge" => exec[w].phase = "done"
      /\ Record(w, Succeeded(r)) /\ UNCHANGED <<proj, media, faults>>
  BY DEF Complete
<1>2. r \in Row
  BY <1>1 DEF Inductive, TypeOK
<1>3. r.kind = "purge" => proj[r.home].state = "gone" /\ ~media[r.home]
  BY <1>1 DEF Inductive, HandlerProgress
<1>4. /\ Kept(r, Succeeded(r)) /\ Released(Succeeded(r), "succeeded")
      /\ Succeeded(r).reason = r.reason
  BY <1>2, SucceededRow DEF Kept
<1>5. Succeeded(r).state = "succeeded"
  BY <1>4 DEF Released
<1> QED
  BY <1>1, <1>3, <1>4, <1>5, RecordMoves

LEMMA FailMoves ==
  ASSUME Inductive, NEW w \in Workers, NEW retryable \in BOOLEAN,
         FailAttempt(w, retryable)
  PROVE  Moves
<1> DEFINE r == job[exec[w].job]
           s == AfterError(r, retryable)
<1>1. /\ exec[w].phase = "error"
      /\ r.kind = "purge" => retryable
      /\ Record(w, s) /\ UNCHANGED <<proj, media, faults>>
  BY DEF FailAttempt
<1>2. r \in Row
  BY <1>1 DEF Inductive, TypeOK
<1>3. s = Failed(r) \/ (s = Requeued(r) /\ r.attempts < r.max)
  BY DEF AfterError
<1>4. /\ Kept(r, s) /\ s.reason = r.reason
      /\ Released(s, "failed") \/ (Released(s, "queued") /\ r.attempts < r.max)
  BY <1>2, <1>3, FailedRow, RequeuedRow DEF Kept
<1>5. /\ s.state \in {"failed", "queued"}
      /\ s.state = "queued" => r.attempts < r.max
  BY <1>4 DEF Released
<1>6. r.kind = "purge" /\ s.state = "failed" => r.attempts >= r.max
  <2>1. SUFFICES ASSUME r.kind = "purge", s.state = "failed", r.attempts < r.max
                 PROVE  FALSE
    BY <1>2 DEF Row
  <2>2. s = Requeued(r)
    BY <1>1, <2>1 DEF AfterError
  <2> QED
    BY <1>2, <2>1, <2>2, RequeuedRow DEF Released
<1> HIDE DEF s
<1> QED
  BY <1>1, <1>4, <1>5, <1>6, RecordMoves

(* A handler that moves on to another phase. *)
LEMMA PhaseMove ==
  ASSUME Inductive, NEW w \in Workers, NEW ph, exec[w].phase \in Busy,
         exec' = [exec EXCEPT ![w].phase = ph]
  PROVE  /\ exec'[w].phase = ph
         /\ exec'[w].job = exec[w].job /\ exec'[w].attempt = exec[w].attempt
         /\ \A v \in Workers \ {w} : WorkerMove(v)
<1>1. /\ exec'[w] = [exec[w] EXCEPT !.phase = ph]
      /\ \A v \in Workers \ {w} : exec'[v] = exec[v]
  BY DEF Inductive, TypeOK
<1>2. exec[w] \in Execution
  BY DEF Inductive, TypeOK
<1>3. \A v \in Workers \ {w} : WorkerMove(v)
  BY <1>1 DEF WorkerMove, Progress
<1> QED
  BY <1>1, <1>2, <1>3 DEF Execution

LEMMA SpawnMoves ==
  ASSUME Inductive, NEW w \in Workers, NEW j \in Jobs, Spawn(w, j)
  PROVE  Moves
<1> DEFINE p == job[exec[w].job].home
           r == NewRow("embedding", p, TRUE)
<1>1. /\ exec[w].phase = "run" /\ job[exec[w].job].kind = "lexical"
      /\ proj[p].state # "gone"
      /\ exec' = [exec EXCEPT ![w].phase = "done"]
      /\ UNCHANGED <<proj, media, faults>>
  BY DEF Spawn
<1>2. p \in Projects
  BY <1>1 DEF Inductive, TypeOK, HandlerProgress
<1>3. NewRowFields(r, "embedding", p)
  BY <1>2, NewRowIs
<1>4. job' = job \/ (job[j].state = "absent" /\ job' = [job EXCEPT ![j] = r])
  BY DEF Spawn, Absent
<1> HIDE DEF r
<1>5. ASSUME job[j].state = "absent", job' = [job EXCEPT ![j] = r]
      PROVE  \A i \in Jobs : RowMove(i)
  <2>1. job'[j] = r /\ \A i \in Jobs \ {j} : job'[i] = job[i]
    BY <1>5 DEF Inductive, TypeOK
  <2> HIDE DEF p
  <2>2. Created(j)
    BY <1>1, <1>2, <1>3, <1>5, <2>1 DEF Created, NewRowFields
  <2> QED
    BY <2>1, <2>2 DEF RowMove
<1>6. \A i \in Jobs : RowMove(i)
  BY <1>4, <1>5, RowFrame
<1>7. \A v \in Workers : WorkerMove(v)
  BY <1>1, PhaseMove DEF WorkerMove, Progress
<1> QED
  BY <1>1, <1>6, <1>7, ProjectFrame, MediaFrame DEF Moves

LEMMA RefusalMoves ==
  ASSUME Inductive, NEW w \in Workers, SpawnRefused(w) \/ HandlerError(w)
  PROVE  Moves
<1>1. /\ exec[w].phase \in Busy
      /\ exec' = [exec EXCEPT ![w].phase = "error"]
      /\ UNCHANGED <<job, proj, media>>
  BY DEF SpawnRefused, HandlerError
<1>2. \A v \in Workers : WorkerMove(v)
  BY <1>1, PhaseMove DEF WorkerMove, Progress
<1> QED
  BY <1>1, <1>2, RowFrame, ProjectFrame, MediaFrame DEF Moves

LEMMA CleanupMoves ==
  ASSUME Inductive, NEW w \in Workers, CleanupExternal(w)
  PROVE  Moves
<1> DEFINE p == job[exec[w].job].home
<1>1. /\ exec[w].phase = "external"
      /\ media' = [media EXCEPT ![p] = FALSE]
      /\ exec' = [exec EXCEPT ![w].phase = "done"]
      /\ UNCHANGED <<job, proj, faults>>
  BY DEF CleanupExternal
<1>2. p \in Projects
  BY <1>1 DEF Inductive, TypeOK, HandlerProgress
<1>3. ~media'[p] /\ \A q \in Projects \ {p} : media'[q] = media[q]
  BY <1>1, <1>2 DEF Inductive, TypeOK
<1>4. \A v \in Workers : WorkerMove(v)
  BY <1>1, <1>3, PhaseMove DEF WorkerMove, Progress
<1>5. \A q \in Projects : MediaMove(q)
  BY <1>1, <1>3 DEF MediaMove
<1> QED
  BY <1>1, <1>4, <1>5, RowFrame, ProjectFrame DEF Moves

(* The purge: either the project was gone, or its rows go in one commit, or
   the handler reports an error. *)
LEMMA PurgeMoves ==
  ASSUME Inductive, NEW w \in Workers, PurgeDatabase(w)
  PROVE  Moves
<1> DEFINE me == exec[w].job
           p == job[me].home
           rows == Purged(w, p)
<1>1. /\ exec[w].phase = "run" /\ job[me].kind = "purge"
      /\ UNCHANGED <<media, faults>>
  BY DEF PurgeDatabase
<1>2. TypeOK /\ me \in Jobs /\ job[me].state # "absent" /\ p \in Projects
  BY <1>1 DEF Inductive, TypeOK, HandlerProgress
<1>3. \A q \in Projects : MediaMove(q)
  BY <1>1, MediaFrame
<1>4. CASE proj[p].state = "gone" /\ exec' = [exec EXCEPT ![w].phase = "external"]
           /\ UNCHANGED <<job, proj>>
  <2>1. \A v \in Workers : WorkerMove(v)
    BY <1>1, <1>4, PhaseMove DEF WorkerMove, Progress
  <2> QED
    BY <1>3, <1>4, <2>1, RowFrame, ProjectFrame DEF Moves
<1>5. CASE exec' = [exec EXCEPT ![w].phase = "error"] /\ UNCHANGED <<job, proj>>
  <2>1. \A v \in Workers : WorkerMove(v)
    BY <1>1, <1>5, PhaseMove DEF WorkerMove, Progress
  <2> QED
    BY <1>3, <1>5, <2>1, RowFrame, ProjectFrame DEF Moves
<1>6. CASE /\ proj[p].state # "gone"
           /\ Binding(w, p) /\ \A j \in Jobs : ReasonOK(rows[j])
           /\ job' = rows
           /\ proj' = [proj EXCEPT ![p].state = "gone", ![p].purge = NoJob]
           /\ exec' = [exec EXCEPT ![w].phase = "external"]
  <2>1. proj[p].purge = me /\ proj[p].passed /\ proj[p].state # "gone"
    BY <1>6 DEF Binding
  <2>2. /\ proj'[p].state = "gone" /\ proj'[p].purge = NoJob
        /\ \A q \in Projects \ {p} : proj'[q] = proj[q]
    BY <1>2, <1>6 DEF TypeOK, ProjectRow
  <2>3. \A v \in Workers : WorkerMove(v)
    BY <1>1, <1>6, <2>2, PhaseMove DEF WorkerMove, Progress
  <2>4. ASSUME NEW j \in Jobs
        PROVE  LET r == job[j]
                   s == job'[j]
               IN /\ s \in Row
                  /\ s.kind = r.kind /\ s.home = r.home /\ s.reason = r.reason
                  /\ s.attempts = r.attempts /\ s.max = r.max
                  /\ IF Of(j, p) THEN ~s.linked ELSE s.linked = r.linked
                  /\ s.stage = r.stage \/ (s.stage = "external" /\ j = me)
                  /\ IF Of(j, p) /\ j # me THEN Released(s, "cancelled")
                     ELSE s.state = r.state /\ s.worker = r.worker /\ s.lease = r.lease
    <3>1. job'[j] = Purged(w, p)[j]
      BY <1>6
    <3> HIDE DEF me, p, rows
    <3> QED
      BY <1>2, <3>1, PurgedRow DEF me
  <2>10. \A j \in Jobs : ReasonOK(job'[j])
    BY <1>6
  <2> HIDE DEF rows, me, p
  <2>5. PurgerMove(me)
    BY <1>1, <1>2, <2>2, <2>4 DEF PurgerMove, p
  <2>6. ASSUME NEW j \in Jobs, j # me
        PROVE  RowMove(j)
    <3>1. CASE Of(j, p)
      BY <2>1, <2>2, <2>4, <2>6, <2>10, <3>1 DEF RowMove, DetachedMove, Of
    <3>2. CASE ~Of(j, p)
      <4>1. job'[j] = job[j]
        BY <1>6, <2>6, <3>2 DEF rows, Purged, Detached, me
      <4> QED
        BY <4>1 DEF RowMove
    <3> QED
      BY <3>1, <3>2
  <2>7. \A j \in Jobs : RowMove(j)
    BY <2>5, <2>6 DEF RowMove
  <2>8. Erased(p)
    BY <1>2, <2>1, <2>2, <2>4 DEF Erased, Released, Of
  <2>9. \A q \in Projects : ProjectMove(q)
    BY <2>2, <2>8 DEF ProjectMove
  <2> QED
    BY <1>3, <2>3, <2>7, <2>9 DEF Moves
<1> QED
  BY <1>4, <1>5, <1>6 DEF PurgeDatabase

LEMMA PollMoves ==
  ASSUME Inductive, NEW w \in Workers,
         \/ StartWorker(w) \/ ReadPending(w) \/ LoseLease(w)
         \/ LoseRecord(w) \/ Crash(w)
  PROVE  Moves
<1>1. UNCHANGED <<job, proj, media>>
  BY DEF StartWorker, ReadPending, LoseLease, LoseRecord, Crash
<1>2. ASSUME ReadPending(w)
      PROVE  \A v \in Workers : WorkerMove(v)
  <2>1. exec'[w].phase = "polled" /\ \A v \in Workers \ {w} : exec'[v] = exec[v]
    BY <1>2 DEF ReadPending, Inductive, TypeOK, Execution
  <2> QED
    BY <2>1 DEF WorkerMove, Progress
<1>3. ASSUME StartWorker(w) \/ LoseLease(w) \/ LoseRecord(w) \/ Crash(w)
      PROVE  \A v \in Workers : WorkerMove(v)
  <2>1. exec' = [exec EXCEPT ![w] = Idle] \/ exec' = [exec EXCEPT ![w] = Dead]
    BY <1>3 DEF StartWorker, LoseLease, LoseRecord, Crash
  <2> QED
    BY <2>1, IdleMove, ExecutionTypes
<1>4. \A v \in Workers : WorkerMove(v)
  BY <1>2, <1>3
<1> QED
  BY <1>1, <1>4, RowFrame, ProjectFrame, MediaFrame DEF Moves

LEMMA ClockMoves ==
  ASSUME Inductive, NEW j \in Jobs, LeaseExpires(j) \/ BecomeDue(j)
  PROVE  Moves
<1>1. UNCHANGED <<proj, media, exec>>
  BY DEF LeaseExpires, BecomeDue
<1>2. job[j] \in Row
  BY DEF Inductive, TypeOK
<1>3. ASSUME LeaseExpires(j)
      PROVE  \A i \in Jobs : RowMove(i)
  <2>1. job[j].lease = "live" /\ job' = [job EXCEPT ![j] = Expired(job[j])]
    BY <1>3 DEF LeaseExpires
  <2>2. job'[j] = Expired(job[j]) /\ \A i \in Jobs \ {j} : job'[i] = job[i]
    BY <2>1 DEF Inductive, TypeOK
  <2>3. ClockMove(j)
    BY <1>2, <2>1, <2>2, ExpiredRow DEF ClockMove, Kept
  <2> QED
    BY <2>2, <2>3 DEF RowMove
<1>4. ASSUME BecomeDue(j)
      PROVE  \A i \in Jobs : RowMove(i)
  <2>1. job' = [job EXCEPT ![j] = Due(job[j])]
    BY <1>4 DEF BecomeDue
  <2>2. job'[j] = Due(job[j]) /\ \A i \in Jobs \ {j} : job'[i] = job[i]
    BY <2>1 DEF Inductive, TypeOK
  <2>3. ClockMove(j)
    BY <1>2, <2>2, DueRow DEF ClockMove, Kept
  <2> QED
    BY <2>2, <2>3 DEF RowMove
<1>5. \A i \in Jobs : RowMove(i)
  BY <1>3, <1>4
<1> QED
  BY <1>1, <1>5, ProjectFrame, WorkerFrame, MediaFrame DEF Moves

LEMMA DeadlineMoves ==
  ASSUME Inductive, NEW p \in Projects, DeadlinePasses(p)
  PROVE  Moves
<1>1. UNCHANGED <<job, media, exec>> /\ proj' = [proj EXCEPT ![p].passed = TRUE]
  BY DEF DeadlinePasses
<1>2. \A q \in Projects : proj'[q].state = proj[q].state /\ proj'[q].purge = proj[q].purge
  BY <1>1 DEF Inductive, TypeOK, ProjectRow
<1> QED
  BY <1>1, <1>2, RowFrame, WorkerFrame, MediaFrame DEF Moves, ProjectMove

LEMMA StepMoves ==
  ASSUME Inductive, [Next]_vars
  PROVE  Moves
<1>1. CASE Request
  BY <1>1, CreateMoves, ScheduleMoves, CancelMoves, RetryMoves DEF Request
<1>2. ASSUME NEW w \in Workers, StartWorker(w) \/ Loop(w) \/ Handler(w) \/ Faulty(w)
      PROVE  Moves
  <2>1. CASE Loop(w)
    BY <2>1, PollMoves, ClaimMoves, SweepMoves, CompleteMoves, FailMoves DEF Loop
  <2>2. CASE Handler(w)
    BY <2>2, SpawnMoves, RefusalMoves, PurgeMoves, CleanupMoves DEF Handler
  <2>3. CASE StartWorker(w) \/ Faulty(w)
    BY <2>3, PollMoves, RefusalMoves DEF Faulty
  <2> QED
    BY <1>2, <2>1, <2>2, <2>3
<1>3. CASE Clock
  BY <1>3, ClockMoves, DeadlineMoves DEF Clock
<1>4. CASE UNCHANGED vars
  BY <1>4, RowFrame, ProjectFrame, WorkerFrame, MediaFrame DEF vars, Moves
<1> QED
  BY <1>1, <1>2, <1>3, <1>4 DEF Next

-----------------------------------------------------------------------------
(* The invariants follow from the moves. *)

(* A row that exists keeps its kind and its project for ever. *)
LEMMA RowKeeps ==
  ASSUME Inductive, Moves, NEW j \in Jobs, job[j].state # "absent"
  PROVE  /\ job[j].home \in Projects
         /\ job'[j].state # "absent"
         /\ job'[j].kind = job[j].kind /\ job'[j].home = job[j].home
<1>1. job[j].home \in Projects /\ job[j] \in Row
  BY DEF Inductive, TypeOK
<1>2. RowMove(j)
  BY DEF Moves
<1> QED
  BY <1>1, <1>2 DEF RowMove, Created, PausedMove, ResumedMove, CancelledMove,
     LeasedMove, FailedMove, SettledMove, RetriedMove, DetachedMove, PurgerMove,
     ClockMove, Kept, Same, Released

(* A deleted project and deleted objects never come back. *)
LEMMA GoneStays ==
  ASSUME Inductive, Moves, NEW p \in Projects
  PROVE  /\ proj[p].state = "gone" => proj'[p].state = "gone"
         /\ ~media[p] => ~media'[p]
<1>1. ProjectMove(p) /\ MediaMove(p)
  BY DEF Moves
<1> QED
  BY <1>1 DEF ProjectMove, Scheduled, Reprieved, Erased, MediaMove

(* A purge job opens only together with a deletion, which it is bound to. *)
LEMMA OpenedBySchedule ==
  ASSUME Inductive, Moves, NEW j \in Jobs, NEW p \in Projects, OpenPurge(j, p)'
  PROVE  \/ OpenPurge(j, p)
         \/ /\ proj[p].state = "active" /\ proj'[p].state = "pending"
            /\ proj'[p].purge = j
<1>1. job'[j].kind = "purge" /\ job'[j].home = p
      /\ job'[j].state \in {"queued", "running", "paused", "failed"}
  BY DEF OpenPurge, Live
<1>2. CASE Created(j)
  BY <1>1, <1>2 DEF Created
<1>3. CASE ~Created(j)
  <2>1. /\ job[j].kind = "purge" /\ job[j].home = p
        /\ job[j].state \in {"queued", "running", "paused", "failed"}
    BY <1>1, <1>3 DEF Moves, RowMove, PausedMove, ResumedMove, CancelledMove,
       LeasedMove, Claimable, FailedMove, Exhausted, SettledMove, RetriedMove,
       DetachedMove, PurgerMove, ClockMove, Kept, Same, Released
  <2> QED
    BY <2>1 DEF OpenPurge, Live
<1> QED
  BY <1>2, <1>3

LEMMA RowStep ==
  ASSUME Inductive, Moves
  PROVE  RowConsistent'
<1> SUFFICES ASSUME NEW j \in Jobs
             PROVE  LET s == job'[j]
                    IN /\ (s.state = "running") <=> (s.worker # NoWorker)
                       /\ (s.state = "running") <=> (s.lease # "none")
                       /\ ReasonOK(s)
                       /\ s.kind = "purge" => s.state # "paused"
                       /\ s.attempts <= s.max
  BY DEF RowConsistent, ReasonOK
<1>1. RowMove(j) /\ job[j] \in Row
  BY DEF Moves, Inductive, TypeOK
<1>2. /\ (job[j].state = "running") <=> (job[j].worker # NoWorker)
      /\ (job[j].state = "running") <=> (job[j].lease # "none")
      /\ ReasonOK(job[j])
      /\ job[j].kind = "purge" => job[j].state # "paused"
      /\ job[j].attempts <= job[j].max
  BY DEF Inductive, RowConsistent
<1>3. CASE Created(j)
  BY <1>3, ConstantsOK DEF Created, NewRowFields, ReasonOK
<1>4. CASE PausedMove(j) \/ ResumedMove(j) \/ CancelledMove(j)
  BY <1>2, <1>4 DEF PausedMove, ResumedMove, CancelledMove, Kept, Same, Released,
     ReasonOK
<1>5. CASE LeasedMove(j)
  <2>1. NoWorker \notin Workers
    BY ConstantsOK
  <2>2. job[j].attempts \in Nat /\ job[j].max \in Nat
    BY <1>1 DEF Row
  <2> QED
    BY <1>2, <1>5, <2>1, <2>2 DEF LeasedMove, Same, ReasonOK
<1>6. CASE FailedMove(j) \/ SettledMove(j)
  BY <1>2, <1>6 DEF FailedMove, SettledMove, Kept, Same, Released, ReasonOK,
     Exhausted, Claimable
<1>7. CASE RetriedMove(j)
  BY <1>1, <1>7 DEF RetriedMove, Released, ReasonOK, Row
<1>8. CASE DetachedMove(j)
  BY <1>2, <1>8 DEF DetachedMove, Released, ReasonOK
<1>9. CASE job'[j] = job[j] \/ PurgerMove(j) \/ ClockMove(j)
  BY <1>2, <1>9 DEF PurgerMove, ClockMove, Kept, Same, ReasonOK
<1> QED
  BY <1>1, <1>3, <1>4, <1>5, <1>6, <1>7, <1>8, <1>9 DEF RowMove

LEMMA FencedStep ==
  ASSUME Inductive, Moves
  PROVE  FencedExecution'
<1> SUFFICES ASSUME NEW w \in Workers, exec'[w].phase \in Busy,
                    job'[exec'[w].job].state = "running",
                    job'[exec'[w].job].worker = w
             PROVE  job'[exec'[w].job].attempts = exec'[w].attempt
  BY DEF FencedExecution
<1>1. CASE Progress(w)
  <2> DEFINE j == exec[w].job
  <2>1. /\ exec'[w].job = j /\ exec'[w].attempt = exec[w].attempt
        /\ exec[w].phase \in Busy
    BY <1>1 DEF Progress
  <2>2. j \in Jobs
    BY <2>1 DEF Inductive, TypeOK
  <2> HIDE DEF j
  <2>3. RowMove(j)
    BY <2>2 DEF Moves
  <2>4. ~LeasedMove(j)
    BY <2>1 DEF LeasedMove
  <2>5. /\ job[j].state = "running" /\ job[j].worker = w
        /\ job'[j].attempts = job[j].attempts
    BY <2>1, <2>3, <2>4 DEF RowMove, Created, NewRowFields, PausedMove,
       ResumedMove, CancelledMove, FailedMove, SettledMove, RetriedMove,
       DetachedMove, PurgerMove, ClockMove, Kept, Released
  <2> QED
    BY <2>1, <2>5 DEF Inductive, FencedExecution, j
<1>2. CASE Handover(w)
  BY <1>2 DEF Handover, LeasedMove
<1> QED
  BY <1>1, <1>2 DEF Moves, WorkerMove

LEMMA QuiescedStep ==
  ASSUME Inductive, Moves
  PROVE  QuiescedByRoutes'
<1> SUFFICES ASSUME NEW j \in Jobs, NEW p \in Projects,
                    proj'[p].state = "pending",
                    job'[j].state \in {"queued", "running"},
                    job'[j].linked, job'[j].home = p,
                    job'[j].kind \in {"lexical", "upload"}
             PROVE  FALSE
  BY DEF QuiescedByRoutes, Of
<1>1. RowMove(j)
  BY DEF Moves
<1>2. ~Created(j) /\ ~ResumedMove(j) /\ ~RetriedMove(j)
  BY DEF Created, ResumedMove, RetriedMove, Kept, Same
<1>3. /\ Of(j, p) /\ job[j].kind \in {"lexical", "upload"}
      /\ job[j].state \in {"queued", "running"}
  BY <1>1, <1>2 DEF RowMove, PausedMove, CancelledMove, LeasedMove, Claimable,
     FailedMove, SettledMove, DetachedMove, PurgerMove, ClockMove, Kept, Same,
     Released, Of
<1>4. proj[p].state # "pending"
  BY <1>3 DEF Inductive, QuiescedByRoutes
<1>5. Scheduled(p)
  BY <1>4 DEF Moves, ProjectMove, Reprieved, Erased
<1>6. Pausable(j, {p})
  BY <1>3 DEF Pausable
<1> QED
  BY <1>5, <1>6 DEF Scheduled

LEMMA OnePurgeStep ==
  ASSUME Inductive, Moves
  PROVE  OnePurge'
<1> SUFFICES ASSUME NEW j \in Jobs, NEW p \in Projects, OpenPurge(j, p)'
             PROVE  /\ proj'[p].state # "active"
                    /\ proj'[p].state = "pending" => proj'[p].purge = j
                    /\ \A i \in Jobs \ {j} : ~OpenPurge(i, p)'
  BY DEF OnePurge
<1>1. CASE ~OpenPurge(j, p)
  <2>1. /\ proj[p].state = "active" /\ proj'[p].state = "pending"
        /\ proj'[p].purge = j
    BY <1>1, OpenedBySchedule
  <2>2. \A i \in Jobs : ~OpenPurge(i, p)
    BY <2>1 DEF Inductive, OnePurge
  <2> QED
    BY <2>1, <2>2, OpenedBySchedule
<1>2. CASE OpenPurge(j, p)
  <2>1. /\ proj[p].state # "active"
        /\ proj[p].state = "pending" => proj[p].purge = j
        /\ \A i \in Jobs \ {j} : ~OpenPurge(i, p)
    BY <1>2 DEF Inductive, OnePurge
  <2>2. \A i \in Jobs \ {j} : ~OpenPurge(i, p)'
    BY <2>1, OpenedBySchedule
  <2>3. job'[j].state # "cancelled"
    BY DEF OpenPurge, Live
  <2>4. proj'[p].state # "active"
        /\ (proj'[p].state = "pending" => proj'[p].purge = j)
    <3>1. CASE proj'[p].state = proj[p].state /\ proj'[p].purge = proj[p].purge
      BY <2>1, <3>1
    <3>2. ~Scheduled(p)
      BY <2>1 DEF Scheduled
    <3>3. ~Reprieved(p)
      BY <2>1, <2>3 DEF Reprieved
    <3>4. CASE Erased(p)
      BY <3>4 DEF Erased
    <3> QED
      BY <3>1, <3>2, <3>3, <3>4 DEF Moves, ProjectMove
  <2> QED
    BY <2>2, <2>4
<1> QED
  BY <1>1, <1>2

Bound(p) ==
  /\ (proj[p].state = "pending") <=> (proj[p].purge # NoJob)
  /\ proj[p].state = "pending" => OpenPurge(proj[p].purge, p)

LEMMA BoundStep ==
  ASSUME Inductive, Moves
  PROVE  BoundPurge'
<1> SUFFICES ASSUME NEW p \in Projects
             PROVE  Bound(p)'
  BY DEF BoundPurge, Bound
<1>1. Bound(p) /\ proj[p].purge \in Jobs \union {NoJob}
  BY DEF Inductive, BoundPurge, TypeOK, ProjectRow, Bound
<1>2. NoJob \notin Jobs
  BY ConstantsOK
<1>3. CASE proj'[p].state = proj[p].state /\ proj'[p].purge = proj[p].purge
  <2>1. CASE proj[p].state = "pending"
    <3>1. PICK b \in Jobs : b = proj[p].purge
      BY <1>1, <2>1 DEF Bound
    <3>2. /\ job[b].kind = "purge" /\ job[b].home = p
          /\ job[b].state \in {"queued", "running", "paused", "failed"}
      BY <1>1, <2>1, <3>1 DEF Bound, OpenPurge, Live
    <3>3. proj'[p].state = "pending"
      BY <1>3, <2>1
    <3>4. /\ job'[b].kind = "purge" /\ job'[b].home = p
          /\ job'[b].state \in {"queued", "running", "paused", "failed"}
      BY <2>1, <3>2, <3>3 DEF Moves, RowMove, Created, PausedMove, ResumedMove,
         CancelledMove, LeasedMove, FailedMove, SettledMove, RetriedMove,
         DetachedMove, PurgerMove, ClockMove, Kept, Same, Released
    <3> QED
      BY <1>1, <1>3, <3>1, <3>4 DEF Bound, OpenPurge, Live
  <2>2. CASE proj[p].state # "pending"
    BY <1>1, <1>3, <2>2 DEF Bound
  <2> QED
    BY <2>1, <2>2
<1>4. CASE Scheduled(p)
  <2>1. PICK b \in Jobs : b = proj'[p].purge
    BY <1>4 DEF Scheduled
  <2>2. job'[b].kind = "purge" /\ job'[b].home = p /\ job'[b].state = "queued"
    BY <1>4, <2>1 DEF Scheduled, NewRowFields
  <2>3. proj'[p].state = "pending"
    BY <1>4 DEF Scheduled
  <2> QED
    BY <1>2, <2>1, <2>2, <2>3 DEF Bound, OpenPurge, Live
<1>5. CASE Reprieved(p) \/ Erased(p)
  <2>1. proj'[p].state # "pending" /\ proj'[p].purge = NoJob
    BY <1>5 DEF Reprieved, Erased
  <2> QED
    BY <2>1 DEF Bound
<1> QED
  BY <1>3, <1>4, <1>5 DEF Moves, ProjectMove

LEMMA ProgressStep ==
  ASSUME Inductive, Moves
  PROVE  HandlerProgress'
<1>1. ASSUME NEW j \in Jobs, job'[j].state # "absent", job'[j].stage = "external"
      PROVE  proj'[job'[j].home].state = "gone"
  <2>1. RowMove(j)
    BY DEF Moves
  <2>2. CASE Created(j)
    BY <1>1, <2>2 DEF Created, NewRowFields
  <2>3. CASE PurgerMove(j)
    BY <2>3 DEF PurgerMove
  <2>4. CASE ~Created(j) /\ ~PurgerMove(j)
    <3>1. job[j].state # "absent" /\ job[j].stage = "external"
      BY <1>1, <2>1, <2>4 DEF RowMove, PausedMove, ResumedMove, CancelledMove,
         LeasedMove, Claimable, FailedMove, Exhausted, SettledMove, RetriedMove,
         DetachedMove, ClockMove, Kept, Same
    <3>2. proj[job[j].home].state = "gone"
      BY <3>1 DEF Inductive, HandlerProgress
    <3> QED
      BY <3>1, <3>2, RowKeeps, GoneStays
  <2> QED
    BY <2>2, <2>3, <2>4
<1>2. ASSUME NEW w \in Workers
      PROVE  LET r == job'[exec'[w].job]
             IN /\ exec'[w].phase \in Busy => r.state # "absent"
                /\ exec'[w].phase = "external"
                   => r.kind = "purge" /\ proj'[r.home].state = "gone"
                /\ exec'[w].phase = "done" /\ r.kind = "purge"
                   => proj'[r.home].state = "gone" /\ ~media'[r.home]
  <2>1. CASE exec'[w].phase \notin Busy
    BY <2>1
  <2>2. CASE Progress(w)
    <3>1. PICK j \in Jobs : j = exec[w].job
      BY <2>2 DEF Progress, Inductive, TypeOK
    <3>2. exec[w].phase \in Busy /\ exec'[w].job = j
      BY <2>2, <3>1 DEF Progress
    <3>3. /\ job[j].state # "absent"
          /\ exec[w].phase = "external"
             => job[j].kind = "purge" /\ proj[job[j].home].state = "gone"
          /\ exec[w].phase = "done" /\ job[j].kind = "purge"
             => proj[job[j].home].state = "gone" /\ ~media[job[j].home]
      BY <3>1, <3>2 DEF Inductive, HandlerProgress
    <3>4. /\ job'[j].state # "absent" /\ job'[j].kind = job[j].kind
          /\ job'[j].home = job[j].home /\ job[j].home \in Projects
      BY <3>3, RowKeeps
    <3>5. /\ proj[job[j].home].state = "gone" => proj'[job[j].home].state = "gone"
          /\ ~media[job[j].home] => ~media'[job[j].home]
      BY <3>4, GoneStays
    <3>6. \/ exec'[w].phase = exec[w].phase
          \/ exec'[w].phase = "error"
          \/ exec'[w].phase = "done" /\ job[j].kind = "lexical"
          \/ /\ exec'[w].phase = "external"
             /\ job[j].kind = "purge" /\ proj'[job[j].home].state = "gone"
          \/ /\ exec'[w].phase = "done" /\ exec[w].phase = "external"
             /\ ~media'[job[j].home]
      BY <2>2, <3>1 DEF Progress
    <3> QED
      BY <3>2, <3>3, <3>4, <3>5, <3>6
  <2>3. CASE Handover(w)
    <3>1. PICK j \in Jobs : j = exec'[w].job
      BY <2>3 DEF Handover
    <3>2. /\ job[j].state # "absent"
          /\ \/ exec'[w].phase = "run"
             \/ /\ exec'[w].phase = "external"
                /\ job[j].kind = "purge" /\ job[j].stage = "external"
      BY <2>3, <3>1 DEF Handover
    <3>3. /\ job'[j].state # "absent" /\ job'[j].kind = job[j].kind
          /\ job'[j].home = job[j].home /\ job[j].home \in Projects
      BY <3>2, RowKeeps
    <3>4. job[j].stage = "external" => proj[job[j].home].state = "gone"
      BY <3>2 DEF Inductive, HandlerProgress
    <3> QED
      BY <3>1, <3>2, <3>3, <3>4, GoneStays
  <2> QED
    BY <2>1, <2>2, <2>3 DEF Moves, WorkerMove
<1> QED
  BY <1>1, <1>2 DEF HandlerProgress

LEMMA LinkedStep ==
  ASSUME Inductive, Moves
  PROVE  OrdinaryLinked'
<1> SUFFICES ASSUME NEW j \in Jobs, job'[j].kind # "purge",
                    job'[j].state \notin {"absent", "cancelled"}
             PROVE  job'[j].linked
  BY DEF OrdinaryLinked
<1>1. job[j].kind # "purge" /\ job[j].state \notin {"absent", "cancelled"}
      => job[j].linked
  BY DEF Inductive, OrdinaryLinked
<1>2. RowMove(j)
  BY DEF Moves
<1>3. CASE Created(j)
  BY <1>3 DEF Created, NewRowFields
<1>4. CASE ~Created(j)
  BY <1>1, <1>2, <1>4 DEF RowMove, PausedMove, ResumedMove, CancelledMove,
     LeasedMove, Claimable, FailedMove, Exhausted, SettledMove, RetriedMove,
     DetachedMove, PurgerMove, ClockMove, Kept, Same, Released
<1> QED
  BY <1>3, <1>4

LEMMA SpentStep ==
  ASSUME Inductive, Moves
  PROVE  PurgeSpent'
<1> SUFFICES ASSUME NEW j \in Jobs, job'[j].kind = "purge", job'[j].state = "failed"
             PROVE  job'[j].attempts >= job'[j].max
  BY DEF PurgeSpent, Spent
<1>1. RowMove(j)
  BY DEF Moves
<1>2. CASE FailedMove(j) \/ SettledMove(j)
  BY <1>2 DEF FailedMove, SettledMove, Exhausted, Kept, Same
<1>3. CASE job'[j] = job[j] \/ PurgerMove(j) \/ ClockMove(j)
  <2>1. /\ job[j].kind = "purge" /\ job[j].state = "failed"
        /\ job'[j].attempts = job[j].attempts /\ job'[j].max = job[j].max
    BY <1>3 DEF PurgerMove, ClockMove, Kept, Same
  <2> QED
    BY <2>1 DEF Inductive, PurgeSpent, Spent
<1> QED
  BY <1>1, <1>2, <1>3 DEF RowMove, Created, NewRowFields, PausedMove, ResumedMove,
     CancelledMove, LeasedMove, RetriedMove, DetachedMove, Released

LEMMA DbFirstStep ==
  ASSUME Inductive, Moves
  PROVE  DbFirst'
<1> SUFFICES ASSUME NEW p \in Projects, ~media'[p]
             PROVE  proj'[p].state = "gone"
  BY DEF DbFirst
<1>1. CASE media'[p] = media[p]
  BY <1>1, GoneStays DEF Inductive, DbFirst
<1>2. CASE \E w \in Workers :
             exec[w].phase = "external" /\ job[exec[w].job].home = p
  BY <1>2, GoneStays DEF Inductive, HandlerProgress
<1> QED
  BY <1>1, <1>2 DEF Moves, MediaMove

LEMMA OwedStep ==
  ASSUME Inductive, Moves
  PROVE  CleanupOwed'
<1> SUFFICES ASSUME NEW p \in Projects, proj'[p].state = "gone", media'[p]
             PROVE  \E j \in Jobs : OpenPurge(j, p)'
  <2>1. \A j \in Jobs, p \in Projects :
          OpenPurge(j, p)' => /\ job'[j].kind = "purge" /\ job'[j].home = p
                              /\ Live(j)' \/ Spent(j)'
    BY SpentStep DEF OpenPurge, PurgeSpent
  <2> QED
    BY <2>1 DEF CleanupOwed
<1>1. media[p] /\ ProjectMove(p)
  BY GoneStays DEF Moves
<1>2. CASE proj[p].state = "gone"
  <2>1. PICK j \in Jobs : OpenPurge(j, p)
    BY <1>1, <1>2 DEF Inductive, CleanupOwed, OpenPurge, Spent
  <2>2. RowMove(j) /\ job[j].kind = "purge" /\ job[j].home = p
        /\ job[j].state \in {"queued", "running", "paused", "failed"}
    BY <2>1 DEF Moves, OpenPurge, Live
  <2>3. /\ job'[j].kind = "purge" /\ job'[j].home = p
        /\ job'[j].state \in {"queued", "running", "paused", "failed"}
    BY <1>1, <1>2, <2>2 DEF RowMove, Created, PausedMove, ResumedMove,
       CancelledMove, LeasedMove, FailedMove, SettledMove, RetriedMove,
       DetachedMove, PurgerMove, ClockMove, Kept, Same, Released
  <2> QED
    BY <2>3 DEF OpenPurge, Live
<1>3. CASE proj[p].state # "gone"
  <2>1. Erased(p)
    BY <1>1, <1>3 DEF ProjectMove, Scheduled, Reprieved
  <2>2. PICK b \in Jobs : b = proj[p].purge
    BY <2>1 DEF Erased
  <2>3. OpenPurge(b, p)
    <3>1. b # NoJob
      BY <2>2, ConstantsOK
    <3> QED
      BY <2>2, <3>1 DEF Inductive, BoundPurge
  <2>4. job'[b].kind = job[b].kind /\ job'[b].home = job[b].home
        /\ job'[b].state = job[b].state
    BY <2>1, <2>2 DEF Erased
  <2> QED
    BY <2>3, <2>4 DEF OpenPurge, Live
<1> QED
  BY <1>2, <1>3

LEMMA CompleteStep ==
  ASSUME Inductive, Moves
  PROVE  PurgeComplete'
<1> SUFFICES ASSUME NEW j \in Jobs, job'[j].kind = "purge",
                    job'[j].state = "succeeded"
             PROVE  proj'[job'[j].home].state = "gone" /\ ~media'[job'[j].home]
  BY DEF PurgeComplete
<1>1. RowMove(j)
  BY DEF Moves
<1>2. job[j].state # "absent"
  BY <1>1 DEF RowMove, Created, NewRowFields, PausedMove, ResumedMove,
     CancelledMove, LeasedMove, Claimable, FailedMove, Exhausted, SettledMove,
     RetriedMove, DetachedMove, PurgerMove, ClockMove, Released
<1>3. /\ job'[j].kind = job[j].kind /\ job'[j].home = job[j].home
      /\ job[j].home \in Projects
  BY <1>2, RowKeeps
<1>4. job[j].state = "succeeded" \/ SettledMove(j)
  BY <1>1, <1>2 DEF RowMove, Created, PausedMove, ResumedMove, CancelledMove,
     LeasedMove, FailedMove, RetriedMove, DetachedMove, PurgerMove, ClockMove,
     Released
<1>5. proj[job[j].home].state = "gone" /\ ~media[job[j].home]
  BY <1>3, <1>4 DEF Inductive, PurgeComplete, SettledMove
<1> QED
  BY <1>3, <1>5, GoneStays

LEMMA OrphanStep ==
  ASSUME Inductive, Moves
  PROVE  NoOrphans'
<1> SUFFICES ASSUME NEW j \in Jobs, Live(j)',
                    proj'[job'[j].home].state = "gone"
             PROVE  job'[j].kind = "purge"
  BY DEF NoOrphans
<1>1. RowMove(j) /\ job'[j].state \in {"queued", "running", "paused"}
  BY DEF Moves, Live
<1>2. ~Created(j)
  BY DEF Created
<1>3. job[j].state # "absent"
  BY <1>1, <1>2 DEF RowMove, PausedMove, ResumedMove, CancelledMove, LeasedMove,
     Claimable, FailedMove, Exhausted, SettledMove, RetriedMove, DetachedMove,
     PurgerMove, ClockMove
<1>4. /\ job'[j].kind = job[j].kind /\ job'[j].home = job[j].home
      /\ job[j].home \in Projects
  BY <1>3, RowKeeps
<1>5. Live(j)
  BY <1>1, <1>2, <1>4 DEF RowMove, PausedMove, ResumedMove, CancelledMove,
     LeasedMove, Claimable, FailedMove, Exhausted, SettledMove, RetriedMove,
     DetachedMove, PurgerMove, ClockMove, Released, Live
<1>6. PICK p \in Projects : p = job[j].home
  BY <1>4
<1>7. CASE proj[p].state = "gone"
  BY <1>4, <1>5, <1>6, <1>7 DEF Inductive, NoOrphans
<1>8. CASE proj[p].state # "gone" /\ job[j].kind # "purge"
  <2>1. Erased(p)
    BY <1>4, <1>6, <1>8 DEF Moves, ProjectMove, Scheduled, Reprieved
  <2>2. Of(j, p)
    BY <1>5, <1>6, <1>8 DEF Inductive, OrdinaryLinked, Live, Of
  <2>3. proj[p].purge # j
    <3>1. proj[p].purge \in Jobs /\ proj[p].purge # NoJob
      BY <2>1, ConstantsOK DEF Erased
    <3> QED
      BY <1>8, <3>1 DEF Inductive, BoundPurge, OpenPurge
  <2>4. job'[j].state = "cancelled"
    BY <2>1, <2>2, <2>3 DEF Erased
  <2> QED
    BY <1>1, <2>4
<1> QED
  BY <1>4, <1>7, <1>8

LEMMA InductiveInit == Init => Inductive
<1> SUFFICES ASSUME Init PROVE Inductive
  OBVIOUS
<1>1. /\ \A j \in Jobs : /\ job[j].state = "absent" /\ job[j].reason = "none"
                         /\ job[j].worker = NoWorker /\ job[j].lease = "none"
                         /\ job[j].kind = "upload" /\ job[j].attempts = 0
                         /\ job[j].max = Budget["upload"]
      /\ \A p \in Projects : /\ proj[p].state = "active"
                             /\ proj[p].purge = NoJob /\ media[p]
      /\ \A w \in Workers : exec[w].phase = "unborn"
  BY DEF Init, Blank, NewRow, Idle
<1>2. Budget["upload"] \in Nat
  BY ConstantsOK
<1>3. TypeOK
  BY InitTypeOK
<1>4. RowConsistent /\ FencedExecution /\ QuiescedByRoutes
  BY <1>1, <1>2 DEF RowConsistent, FencedExecution, QuiescedByRoutes, ReasonOK
<1>5. OnePurge /\ BoundPurge /\ HandlerProgress /\ OrdinaryLinked
  BY <1>1 DEF OnePurge, BoundPurge, HandlerProgress, OrdinaryLinked, OpenPurge,
     Live
<1>6. DbFirst /\ CleanupOwed /\ PurgeComplete /\ NoOrphans /\ PurgeSpent
  BY <1>1 DEF DbFirst, CleanupOwed, PurgeComplete, NoOrphans, PurgeSpent, Live
<1> QED
  BY <1>3, <1>4, <1>5, <1>6 DEF Inductive

LEMMA InductiveStep ==
  ASSUME Inductive, [Next]_vars
  PROVE  Inductive'
<1>1. TypeOK'
  BY TypeStep DEF Inductive
<1>2. Moves
  BY StepMoves
<1> QED
  BY <1>1, <1>2, RowStep, FencedStep, QuiescedStep, OnePurgeStep, BoundStep,
     ProgressStep, SpentStep, LinkedStep, DbFirstStep, OwedStep, CompleteStep, OrphanStep
     DEF Inductive

-----------------------------------------------------------------------------
(* The inductive invariant holds in every reachable state, for any number of
   jobs, projects, workers and faults. *)
THEOREM InductiveHolds == Spec => []Inductive
<1>1. Init => Inductive
  BY InductiveInit
<1>2. Inductive /\ [Next]_vars => Inductive'
  BY InductiveStep
<1> QED
  BY <1>1, <1>2, PTL DEF Spec

(* The rows keep their types: a handler whose row was cancelled under it
   still finds a row of its kind. *)
THEOREM TypeCorrect == Spec => []TypeOK
<1>1. Inductive => TypeOK
  BY DEF Inductive
<1> QED
  BY <1>1, InductiveHolds, PTL

(* Worker-id fencing: a worker that holds a row executes its latest attempt. *)
THEOREM Fencing == Spec => []FencedExecution
<1>1. Inductive => FencedExecution
  BY DEF Inductive
<1> QED
  BY <1>1, InductiveHolds, PTL

(* A project never has two purge jobs that could act. *)
THEOREM SinglePurge == Spec => []OnePurge
<1>1. Inductive => OnePurge
  BY DEF Inductive
<1> QED
  BY <1>1, InductiveHolds, PTL

(* External objects go after the rows; their cleanup is not lost before the
   budget of the purge job is used up, and success is reported only after it. *)
THEOREM PurgeOrder == Spec => [](DbFirst /\ CleanupOwed /\ PurgeComplete)
<1>1. Inductive => DbFirst /\ CleanupOwed /\ PurgeComplete
  BY DEF Inductive
<1> QED
  BY <1>1, InductiveHolds, PTL

(* No other job outlives its project. *)
THEOREM Orphans == Spec => []NoOrphans
<1>1. Inductive => NoOrphans
  BY DEF Inductive
<1> QED
  BY <1>1, InductiveHolds, PTL

(* What a move does to the life cycle of the row. *)
LEMMA OutcomeStep ==
  ASSUME Inductive, Moves
  PROVE  OutcomeKept
<1> SUFFICES ASSUME NEW j \in Jobs
             PROVE  /\ job[j].state = "succeeded"
                       => job'[j].state \in {"succeeded", "cancelled"}
                    /\ job[j].state = "cancelled" => job'[j].state = "cancelled"
                    /\ job[j].state = "failed" /\ job'[j].state = "queued"
                       => job'[j].attempts < job'[j].max
  BY DEF OutcomeKept
<1>1. RowMove(j)
  BY DEF Moves
<1>2. CASE RetriedMove(j)
  <2>1. job[j].attempts \in Nat /\ job'[j].max \in Nat
    BY <1>2 DEF RetriedMove, Row, Inductive, TypeOK
  <2> QED
    BY <1>2, <2>1 DEF RetriedMove
<1>3. CASE ~RetriedMove(j)
  BY <1>1, <1>3 DEF RowMove, Created, PausedMove, ResumedMove, CancelledMove,
     LeasedMove, Claimable, FailedMove, Exhausted, SettledMove, DetachedMove,
     PurgerMove, ClockMove, Released
<1> QED
  BY <1>2, <1>3

LEMMA PurgeDueStep ==
  ASSUME Inductive, Moves
  PROVE  PurgeOfDue
<1> SUFFICES ASSUME NEW p \in Projects, proj[p].state # "gone",
                    proj'[p].state = "gone"
             PROVE  /\ proj[p].state = "pending" /\ proj[p].passed
                    /\ \A j \in Jobs : ~Of(j, p)'
  BY DEF PurgeOfDue
<1>1. Erased(p)
  BY DEF Moves, ProjectMove, Scheduled, Reprieved
<1>2. proj[p].passed /\ proj[p].purge # NoJob
  BY <1>1, ConstantsOK DEF Erased
<1>3. proj[p].state = "pending"
  BY <1>2 DEF Inductive, BoundPurge
<1>4. \A j \in Jobs : ~Of(j, p)'
  BY <1>1 DEF Erased, Of
<1> QED
  BY <1>2, <1>3, <1>4

LEMMA LifeInit == Init => Life!Init
<1> SUFFICES ASSUME Init PROVE Life!Init
  OBVIOUS
<1>1. \A j \in Jobs : /\ Tasks[j].state = "absent" /\ Tasks[j].attempts = 0
                     /\ Tasks[j].max = Budget["upload"]
                     /\ Tasks[j] = [state |-> "absent", attempts |-> 0,
                                    max |-> Budget["upload"]]
  BY DEF Init, Blank, NewRow, Tasks
<1>2. Budget["upload"] \in Nat
  BY ConstantsOK
<1>3. Tasks \in [Jobs -> Life!Task]
  <2>1. ASSUME NEW j \in Jobs
        PROVE  /\ job[j].state = "absent" /\ job[j].attempts \in Nat
               /\ job[j].max \in Nat
    BY <1>2 DEF Init, Blank, NewRow
  <2> QED
    BY <2>1 DEF Tasks, Life!Task
<1> QED
  BY <1>1, <1>3 DEF Life!Init

LEMMA LifeStep ==
  ASSUME Inductive, Inductive', Moves
  PROVE  Life!Next
<1>1. ASSUME NEW j \in Jobs
      PROVE  Life!Step(Tasks[j], Tasks'[j])
  <2> DEFINE t == [state |-> job[j].state, attempts |-> job[j].attempts,
                   max |-> job[j].max]
             u == [state |-> job'[j].state, attempts |-> job'[j].attempts,
                   max |-> job'[j].max]
  <2>1. Tasks[j] = t /\ Tasks'[j] = u
    BY DEF Tasks
  <2>2. /\ t.state = job[j].state /\ t.attempts = job[j].attempts
        /\ t.max = job[j].max /\ u.state = job'[j].state
        /\ u.attempts = job'[j].attempts /\ u.max = job'[j].max
    OBVIOUS
  <2>3. /\ job'[j].state = job[j].state /\ job'[j].attempts = job[j].attempts
        /\ job'[j].max = job[j].max
        => u = t
    OBVIOUS
  <2> HIDE DEF t, u
  <2>4. RowMove(j) /\ job[j] \in Row /\ job'[j] \in Row
    BY DEF Moves, Inductive, TypeOK
  <2>5. CASE Created(j)
    <3>1. Budget[job'[j].kind] > 0
      BY <2>5, ConstantsOK DEF Created
    <3>2. Life!Submit(t, u)
      BY <2>2, <2>5, <3>1 DEF Created, NewRowFields, Life!Submit, Life!Moves
    <3> QED
      BY <2>1, <3>2 DEF Life!Step
  <2>6. CASE PausedMove(j)
    BY <2>1, <2>2, <2>6 DEF PausedMove, Kept, Same, Released, Life!Step, Life!Pause,
       Life!Moves, Life!SameCount
  <2>7. CASE ResumedMove(j)
    BY <2>1, <2>2, <2>7 DEF ResumedMove, Kept, Same, Life!Step, Life!Resume,
       Life!Moves, Life!SameCount
  <2>8. CASE CancelledMove(j)
    BY <2>1, <2>2, <2>8 DEF CancelledMove, Kept, Same, Released, Life!Step,
       Life!Cancel, Life!Moves, Life!SameCount, Life!Active
  <2>9. CASE LeasedMove(j)
    BY <2>1, <2>2, <2>9 DEF LeasedMove, Claimable, Same, Life!Step, Life!Attempt,
       Life!Moves
  <2>10. CASE FailedMove(j)
    BY <2>1, <2>2, <2>10 DEF FailedMove, Exhausted, Claimable, Kept, Same,
       Released, Life!Step, Life!Fail, Life!Moves, Life!SameCount
  <2>11. CASE SettledMove(j)
    <3>1. Life!SameCount(t, u) /\ t.state = "running"
      BY <2>2, <2>11 DEF SettledMove, Kept, Same, Life!SameCount
    <3>2. CASE Released(job'[j], "queued")
      BY <2>1, <2>2, <2>11, <3>1, <3>2 DEF SettledMove, Released, Life!Step,
         Life!TryAgain, Life!Moves
    <3>3. CASE Released(job'[j], "failed")
      BY <2>1, <2>2, <3>1, <3>3 DEF Released, Life!Step, Life!Fail, Life!Moves
    <3>4. CASE Released(job'[j], "succeeded")
      BY <2>1, <2>2, <3>1, <3>4 DEF Released, Life!Step, Life!Succeed, Life!Moves
    <3> QED
      BY <2>11, <3>2, <3>3, <3>4 DEF SettledMove
  <2>12. CASE RetriedMove(j)
    <3>1. /\ job[j].attempts \in Nat /\ job[j].max \in Nat
          /\ job'[j].max \in Nat
      BY <2>4 DEF Row
    <3>2. Life!Retry(t, u)
      BY <2>2, <2>12, <3>1 DEF RetriedMove, Released, Life!Retry, Life!Moves
    <3> QED
      BY <2>1, <3>2 DEF Life!Step
  <2>13. CASE DetachedMove(j)
    <3>1. Life!Cancel(t, u)
      BY <2>2, <2>4, <2>13 DEF DetachedMove, Released, Row, Life!Cancel,
         Life!Moves, Life!SameCount, Life!Active, Life!Settled
    <3> QED
      BY <2>1, <3>1 DEF Life!Step
  <2>14. CASE job'[j] = job[j] \/ PurgerMove(j) \/ ClockMove(j)
    BY <2>1, <2>3, <2>14 DEF PurgerMove, ClockMove, Kept, Same, Life!Step
  <2> QED
    BY <2>4, <2>5, <2>6, <2>7, <2>8, <2>9, <2>10, <2>11, <2>12, <2>13, <2>14
       DEF RowMove
<1>2. Tasks' \in [Jobs -> Life!Task]
  <2>1. \A j \in Jobs : job'[j] \in Row
    BY DEF Inductive, TypeOK
  <2> QED
    BY <2>1 DEF Tasks, Life!Task, Life!Active, Life!Settled, Row
<1> QED
  BY <1>1, <1>2 DEF Life!Next

(* A recorded outcome is final, except that a failed job may be retried with
   a budget beyond its attempts. *)
THEOREM OutcomesFinal == Spec => OutcomeFinal
<1>1. Inductive /\ [Next]_vars => [OutcomeKept]_vars
  BY StepMoves, OutcomeStep
<1> QED
  BY <1>1, InductiveHolds, PTL DEF Spec, OutcomeFinal

(* No project is purged before its deadline or after a cancellation. *)
THEOREM PurgedWhenDue == Spec => PurgeOnlyWhenDue
<1>1. Inductive /\ [Next]_vars => [PurgeOfDue]_vars
  BY StepMoves, PurgeDueStep
<1> QED
  BY <1>1, InductiveHolds, PTL DEF Spec, PurgeOnlyWhenDue

(* The queue implements the life cycle of its jobs. *)
THEOREM Implements == Spec => LifeSpec
<1>1. Init => Life!Init
  BY LifeInit
<1>2. Inductive /\ Inductive' /\ [Next]_vars => [Life!Next]_Tasks
  BY StepMoves, LifeStep
<1> QED
  BY <1>1, <1>2, InductiveHolds, PTL DEF Spec, LifeSpec, Life!Spec
=============================================================================
