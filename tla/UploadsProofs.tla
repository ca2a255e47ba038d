---------------------------- MODULE UploadsProofs ----------------------------
(***************************************************************************)
(* BooksAgree, ReceivedKept and QueuedOwed of Uploads, for any number of   *)
(* files, workers, attempts and faults.                                    *)
(*                                                                         *)
(* The four parties of an upload meet in the rows of the attempts, which   *)
(* no lock covers as a whole.  What keeps the books right is that states   *)
(* go one way: an attempt that is over is never sent or processed again,   *)
(* and a retry takes a number no job knows.                                *)
(***************************************************************************)
EXTENDS Uploads, TLAPS

JobRow == [state: {"absent", "queued", "running", "paused", "succeeded", "failed",
                   "cancelled"},
           attempts: Nat, max: Nat, try: Tries, worker: Workers \union {NoWorker},
           lease: {"none", "live", "expired"}]

Types ==
  /\ batch \in Batch
  /\ file \in [Files -> File]
  /\ attempt \in [Attempts -> Attempt]
  /\ job \in [Files -> JobRow]
  /\ exec \in [Workers -> Execution]
  /\ retry \in Files \union {NoFile}

(* Before the batch is created nothing has happened. *)
Blank ==
  batch = "absent" =>
    /\ \A f \in Files : file[f] = [state |-> "uploading", current |-> 1] /\ job[f] = NoJob
    /\ \A a \in Attempts : attempt[a] = NoAttempt
    /\ \A w \in Workers : exec[w] = Idle
    /\ sweeper = {} /\ retry = NoFile /\ ~pending

(* A batch is queued when all its files are there. *)
Collected == batch = "queued" => \A f \in Files : file[f].state # "uploading"

(* Receiving an attempt ends with its object in place. *)
ObjectKept(r) ==
  /\ r.state = "queued" =>
       r.receiver = "lost" \/ (r.receiver = "none" /\ "object" \in r.temp)
  /\ r.state = "receiving" /\ r.receiver = "renamed" => "object" \in r.temp

ObjectsKept == \A a \in Attempts : ObjectKept(attempt[a])

(* A job is that of an attempt, of the current one at the latest, and not
   before it was received; it is not over before the file is. *)
Alive == {"queued", "running", "paused", "failed"}
JobsAgree ==
  \A f \in Files :
    /\ job[f].try <= file[f].current
    /\ file[f].state = "uploading" => ~Assigned(f)
    /\ file[f].state = "queued" /\ Assigned(f) => job[f].state \in Alive
    /\ file[f].state = "queued" /\ batch = "queued" => Assigned(f)

(* A worker that still owns its job executes the attempt of the job, and
   what it has applied is recorded. *)
ExecutesSoundly(w) ==
  exec[w].phase # "idle" =>
    /\ exec[w].file \in Files /\ job[exec[w].file].state # "absent"
    /\ Owns(w) => exec[w].try = job[exec[w].file].try
    /\ exec[w].phase = "applied" =>
         attempt[<<exec[w].file, exec[w].try>>].state = "succeeded"

WorkersAgree == \A w \in Workers : ExecutesSoundly(w)

(* What a failure has counted holds until it writes it, but for files that
   were sent again since: a succeeded file stays so, and one that is over only
   comes back by a retry. *)
Remaining(f, g) ==
  IF g = f THEN file[g].state = "uploading" ELSE file[g].state \in ActiveFile
Counted(x) ==
  x.phase = "failing" =>
    /\ x.counts \in Verdict
    /\ x.counts = "succeeded" => \A g \in Files : file[g].state = "succeeded"
    /\ x.counts # "active" =>
         \A g \in Files : Remaining(x.file, g) => file[g].current > 1

CountsAgree == \A w \in Workers : Counted(exec[w])

Inv ==
  /\ Types /\ Blank
  /\ FilesAgree /\ BatchAgrees /\ Collected
  /\ ObjectsKept /\ JobsAgree /\ WorkersAgree /\ CountsAgree

-----------------------------------------------------------------------------
(* Steps that change no state of batch, file or attempt *)

(* Files that go on, or are sent again under a new number. *)
LEMMA CountsStay ==
  ASSUME Inv,
         \A w \in Workers : exec'[w].phase = "failing" => exec'[w] = exec[w],
         \A g \in Files :
           /\ file[g].state = "succeeded" => file'[g].state = "succeeded"
           /\ file'[g].state \in ActiveFile =>
                \/ file'[g].current > 1
                \/ /\ file'[g].current = file[g].current
                   /\ file[g].state \in {file'[g].state, "uploading"}
  PROVE  CountsAgree'
<1> SUFFICES ASSUME NEW w \in Workers, exec'[w].phase = "failing" PROVE Counted(exec[w])'
    BY DEF CountsAgree, Counted
<1>1. exec'[w] = exec[w] /\ Counted(exec[w]) /\ exec[w].phase = "failing"
    BY DEF Inv, CountsAgree
<1>2. ASSUME exec[w].counts # "active", NEW g \in Files, Remaining(exec[w].file, g)'
      PROVE  file'[g].current > 1
  <2>1. file'[g].state \in ActiveFile
      BY <1>1, <1>2 DEF Remaining, ActiveFile
  <2>2. CASE file'[g].current = file[g].current /\ file[g].state \in {file'[g].state, "uploading"}
    <3>1. Remaining(exec[w].file, g)
        BY <1>1, <1>2, <2>1, <2>2 DEF Remaining, ActiveFile
    <3> QED
        BY <1>1, <1>2, <2>2, <3>1 DEF Counted
  <2> QED
      BY <2>1, <2>2
<1> QED
    BY <1>1, <1>2 DEF Counted

(* What lies on disk for one attempt, and who writes it. *)
LEMMA ObjectMoves ==
  ASSUME Inv, batch # "absent", NEW a \in Attempts, NEW r \in Attempt,
         attempt' = [attempt EXCEPT ![a] = r],
         r.state = attempt[a].state, ObjectKept(r),
         UNCHANGED <<batch, file, job, exec, retry>>
  PROVE  Inv'
<1>1. attempt'[a] = r /\ \A b \in Attempts \ {a} : attempt'[b] = attempt[b]
    BY DEF Inv, Types
<1>2. \A b \in Attempts : attempt'[b].state = attempt[b].state
    BY <1>1
<1>3. Types' /\ Blank'
    BY DEF Inv, Types, Blank
<1>8. CountsAgree'
    BY CountsStay
<1>4. FilesAgree' /\ BatchAgrees' /\ Collected'
    BY <1>2 DEF Inv, FilesAgree, BatchAgrees, Collected, Matches
<1>5. ObjectsKept'
    BY <1>1 DEF Inv, ObjectsKept
<1>6. JobsAgree'
    BY DEF Inv, JobsAgree, Assigned
<1>7. ASSUME NEW w \in Workers PROVE ExecutesSoundly(w)'
  <2>1. exec[w].phase = "applied" /\ exec[w].file \in Files
        => <<exec[w].file, exec[w].try>> \in Attempts
      BY DEF Inv, Types, Execution, Attempts
  <2> QED
      BY <1>2, <2>1 DEF Inv, WorkersAgree, ExecutesSoundly, Owns
<1> QED
    BY <1>3, <1>4, <1>5, <1>6, <1>7, <1>8 DEF Inv, WorkersAgree

(* The queue: jobs keep their attempts, and end only after their files. *)
LEMMA JobMoves ==
  ASSUME Inv, batch # "absent", UNCHANGED <<batch, file, attempt>>,
         job' \in [Files -> JobRow], exec' \in [Workers -> Execution],
         retry' \in Files \union {NoFile},
         \A f \in Files :
           /\ job'[f].try = job[f].try
           /\ job'[f].state = "absent" <=> job[f].state = "absent"
           /\ \/ job'[f].state \in Alive \union {job[f].state}
              \/ attempt[<<f, job[f].try>>].state = "succeeded",
         WorkersAgree', CountsAgree'
  PROVE  Inv'
<1>1. Types' /\ Blank'
    BY DEF Inv, Types, Blank
<1>2. FilesAgree' /\ BatchAgrees' /\ Collected' /\ ObjectsKept'
    BY DEF Inv, FilesAgree, BatchAgrees, Collected, Matches, ObjectsKept
<1>3. \A f \in Files : Assigned(f)' <=> Assigned(f)
    BY DEF Assigned
<1>4. ASSUME NEW f \in Files, file[f].state = "queued", Assigned(f)
      PROVE  job'[f].state \in Alive
  <2>1. <<f, file[f].current>> \in Attempts
      BY DEF Inv, Types, File, Attempts
  <2>2. attempt[<<f, file[f].current>>].state = "queued"
      BY <1>4, <2>1 DEF Inv, FilesAgree, Matches
  <2> QED
      BY <1>4, <2>2 DEF Inv, JobsAgree, Assigned
<1>5. JobsAgree'
    BY <1>3, <1>4 DEF Inv, JobsAgree
<1> QED
    BY <1>1, <1>2, <1>5 DEF Inv

(* The fields of a row of the queue *)
Given(r, state, worker, lease) ==
  [r EXCEPT !.state = state, !.worker = worker, !.lease = lease]

LEMMA JobFields ==
  ASSUME NEW r \in JobRow,
         NEW state \in {"queued", "running", "paused", "succeeded", "failed", "cancelled"},
         NEW worker \in Workers \union {NoWorker}, NEW lease \in {"none", "live", "expired"}
  PROVE  /\ Given(r, state, worker, lease) \in JobRow
         /\ Given(r, state, worker, lease).state = state
         /\ Given(r, state, worker, lease).try = r.try
BY DEF JobRow, Given

(* Workers that lose their jobs, and stay where they are. *)
LEMMA OthersExecute ==
  ASSUME Inv, UNCHANGED attempt, exec' \in [Workers -> Execution],
         job' \in [Files -> JobRow],
         \A f \in Files : job'[f].try = job[f].try
                         /\ (job[f].state # "absent" => job'[f].state # "absent"),
         NEW w \in Workers, exec'[w] = exec[w], exec[w].phase # "idle" => (Owns(w)' => Owns(w))
  PROVE  ExecutesSoundly(w)'
BY DEF Inv, WorkersAgree, ExecutesSoundly

-----------------------------------------------------------------------------
(* Receiving, removing, sweeping *)

LEMMA ReceiverKeeps ==
  ASSUME Inv, batch # "absent", NEW a \in Attempts,
         NEW receiver \in {"none", "dead", "lost"} \union Receiving,
         NEW temp \in SUBSET {"part", "object"},
         Receiver(a, receiver, temp),
         attempt[a].state = "queued" =>
           receiver = "lost" \/ (receiver = "none" /\ "object" \in temp),
         attempt[a].state = "receiving" /\ receiver = "renamed" => "object" \in temp,
         UNCHANGED <<batch, file, job, exec, retry>>
  PROVE  Inv'
<1> DEFINE r == [attempt[a] EXCEPT !.receiver = receiver, !.temp = temp]
<1>1. attempt[a] \in Attempt
    BY DEF Inv, Types
<1>2. /\ r \in Attempt /\ r.state = attempt[a].state
      /\ r.receiver = receiver /\ r.temp = temp
      /\ attempt' = [attempt EXCEPT ![a] = r]
    BY <1>1 DEF Receiver, Attempt, Receiving, Inv, Types
<1> HIDE DEF r
<1>3. ObjectKept(r)
    BY <1>2 DEF ObjectKept
<1> QED
    BY <1>2, <1>3, ObjectMoves

(* Nobody receives, and nothing is stored, before the batch is there. *)
LEMMA AttemptStarted ==
  ASSUME Inv, NEW a \in Attempts,
         attempt[a].receiver # "none" \/ attempt[a].temp # {} \/ attempt[a].state # "absent"
  PROVE  /\ batch # "absent" /\ attempt[a] \in Attempt
         /\ ObjectKept(attempt[a])
BY DEF Inv, Types, Blank, NoAttempt, ObjectsKept

LEMMA OpenPartKeeps ==
  ASSUME Inv, NEW a \in Attempts, OpenPart(a) PROVE Inv'
<1>1. batch # "absent" /\ attempt[a] \in Attempt /\ ObjectKept(attempt[a])
    BY AttemptStarted DEF OpenPart
<1>2. attempt[a].state # "queued" /\ attempt[a].temp \in SUBSET {"part", "object"}
    BY <1>1 DEF OpenPart, ObjectKept, Attempt
<1>3. CASE Receiver(a, "writing", attempt[a].temp \union {"part"})
    BY <1>1, <1>2, <1>3, ReceiverKeeps DEF OpenPart, Receiving
<1>4. CASE Receiver(a, "failing", attempt[a].temp)
    BY <1>1, <1>2, <1>4, ReceiverKeeps DEF OpenPart, Receiving
<1> QED
    BY <1>3, <1>4 DEF OpenPart

LEMMA DeliverKeeps ==
  ASSUME Inv, NEW a \in Attempts, Deliver(a) PROVE Inv'
<1>1. batch # "absent" /\ attempt[a] \in Attempt /\ ObjectKept(attempt[a])
    BY AttemptStarted DEF Deliver
<1>2. attempt[a].state # "queued" /\ attempt[a].temp \in SUBSET {"part", "object"}
    BY <1>1 DEF Deliver, ObjectKept, Attempt
<1>3. CASE Receiver(a, "renamed", {"object"})
    BY <1>1, <1>2, <1>3, ReceiverKeeps DEF Deliver, Receiving
<1>4. CASE Receiver(a, "failing", attempt[a].temp)
    BY <1>1, <1>2, <1>4, ReceiverKeeps DEF Deliver, Receiving
<1> QED
    BY <1>3, <1>4 DEF Deliver

LEMMA InterruptKeeps ==
  ASSUME Inv, NEW a \in Attempts, Interrupt(a) PROVE Inv'
<1>1. batch # "absent" /\ attempt[a] \in Attempt /\ ObjectKept(attempt[a])
    BY AttemptStarted DEF Interrupt
<1>2. attempt[a].state # "queued" /\ attempt[a].temp \ {"part"} \in SUBSET {"part", "object"}
    BY <1>1 DEF Interrupt, ObjectKept, Attempt
<1> QED
    BY <1>1, <1>2, ReceiverKeeps DEF Interrupt, Receiving

LEMMA FailureUnrecordedKeeps ==
  ASSUME Inv, NEW a \in Attempts, FailureUnrecorded(a) PROVE Inv'
<1>1. batch # "absent" /\ attempt[a] \in Attempt /\ ObjectKept(attempt[a])
    BY AttemptStarted DEF FailureUnrecorded
<1>2. attempt[a].state # "queued" /\ attempt[a].temp \in SUBSET {"part", "object"}
    BY <1>1 DEF FailureUnrecorded, ObjectKept, Attempt
<1> QED
    BY <1>1, <1>2, ReceiverKeeps DEF FailureUnrecorded

LEMMA RefuseFinalKeeps ==
  ASSUME Inv, NEW a \in Attempts, RefuseFinal(a) PROVE Inv'
<1>1. batch # "absent" /\ attempt[a] \in Attempt /\ ObjectKept(attempt[a])
    BY AttemptStarted DEF RefuseFinal
<1>2. attempt[a].state # "queued"
    BY <1>1 DEF RefuseFinal, ObjectKept
<1> QED
    BY <1>1, <1>2, ReceiverKeeps DEF RefuseFinal, RefusedTemp

LEMMA DieKeeps ==
  ASSUME Inv, NEW a \in Attempts, Die(a) PROVE Inv'
<1>1. batch # "absent" /\ attempt[a] \in Attempt /\ ObjectKept(attempt[a])
    BY AttemptStarted DEF Die, Receiving
<1>2. attempt[a].state # "queued" /\ attempt[a].temp \in SUBSET {"part", "object"}
    BY <1>1 DEF Die, Receiving, ObjectKept, Attempt
<1> QED
    BY <1>1, <1>2, ReceiverKeeps DEF Die

(* Whoever removes an object has seen the attempt over. *)
LEMMA Removal ==
  ASSUME Inv, batch # "absent", NEW a \in Attempts, NEW temp \in SUBSET {"part", "object"},
         NEW cleaned \in BOOLEAN,
         attempt' = [attempt EXCEPT ![a].temp = temp, ![a].cleaned = cleaned],
         attempt[a].state \in Terminal
           \/ ("object" \in attempt[a].temp => "object" \in temp),
         UNCHANGED <<batch, file, job, exec, retry>>
  PROVE  Inv'
<1> DEFINE r == [attempt[a] EXCEPT !.temp = temp, !.cleaned = cleaned]
<1>1. attempt[a] \in Attempt /\ ObjectKept(attempt[a])
    BY DEF Inv, Types, ObjectsKept
<1>2. /\ r \in Attempt /\ r.state = attempt[a].state
      /\ r.receiver = attempt[a].receiver /\ r.temp = temp
      /\ attempt' = [attempt EXCEPT ![a] = r]
    BY <1>1 DEF Attempt, Inv, Types
<1> HIDE DEF r
<1>3. ObjectKept(r)
    BY <1>1, <1>2 DEF ObjectKept, Terminal, Discarded
<1> QED
    BY <1>2, <1>3, ObjectMoves

LEMMA OnlyTemp ==
  ASSUME Inv, NEW a \in Attempts, NEW temp
  PROVE  /\ attempt[a].cleaned \in BOOLEAN /\ attempt[a].temp \in SUBSET {"part", "object"}
         /\ [attempt EXCEPT ![a].temp = temp]
              = [attempt EXCEPT ![a].temp = temp, ![a].cleaned = attempt[a].cleaned]
BY DEF Inv, Types, Attempt

LEMMA RemoveCancelledKeeps ==
  ASSUME Inv, NEW a \in Attempts, RemoveCancelled(a) PROVE Inv'
<1>1. batch # "absent"
    BY AttemptStarted DEF RemoveCancelled
<1>2. attempt' = [attempt EXCEPT ![a].temp = {}, ![a].cleaned = attempt[a].cleaned]
    BY OnlyTemp DEF RemoveCancelled
<1> QED
    BY <1>1, <1>2, OnlyTemp, Removal DEF RemoveCancelled, Terminal, Discarded

LEMMA SweepObjectKeeps ==
  ASSUME Inv, NEW a \in Attempts, SweepObject(a) PROVE Inv'
<1>1. batch # "absent"
    BY AttemptStarted DEF SweepObject, Sweepable, Terminal, Discarded
<1>2. attempt' = [attempt EXCEPT ![a].temp = attempt[a].temp \ {"object"},
                                 ![a].cleaned = attempt[a].cleaned]
    BY OnlyTemp DEF SweepObject
<1>3. /\ attempt[a].temp \ {"object"} \in SUBSET {"part", "object"}
      /\ attempt[a].cleaned \in BOOLEAN
    BY OnlyTemp
<1> QED
    BY <1>1, <1>2, <1>3, Removal DEF SweepObject, Sweepable

LEMMA SweepPartKeeps ==
  ASSUME Inv, NEW a \in Attempts, SweepPart(a) PROVE Inv'
<1>1. batch # "absent"
    BY DEF SweepPart, Inv, Blank
<1>2. PICK marked \in {TRUE, attempt[a].cleaned} :
        attempt' = [attempt EXCEPT ![a].temp = @ \ {"part"}, ![a].cleaned = marked]
    BY DEF SweepPart
<1>3. /\ attempt[a].temp \ {"part"} \in SUBSET {"part", "object"} /\ marked \in BOOLEAN
      /\ attempt' = [attempt EXCEPT ![a].temp = attempt[a].temp \ {"part"},
                                    ![a].cleaned = marked]
    BY <1>2, OnlyTemp
<1> QED
    BY <1>1, <1>3, Removal DEF SweepPart

LEMMA RemoveRawKeeps ==
  ASSUME Inv, NEW w \in Workers, RemoveRaw(w) PROVE Inv'
<1> DEFINE a == <<exec[w].file, exec[w].try>>
<1>1. exec[w].phase = "applied" /\ exec[w].file \in Files /\ attempt[a].state = "succeeded"
    BY DEF RemoveRaw, Inv, WorkersAgree, ExecutesSoundly
<1>2. a \in Attempts
    BY <1>1 DEF Inv, Types, Execution, Attempts
<1>3. attempt' = [attempt EXCEPT ![a].temp = @ \ {"object"}]
    BY DEF RemoveRaw
<1>4. UNCHANGED <<batch, file, job, exec, retry>>
    BY DEF RemoveRaw
<1>5. PICK b \in Attempts : b = a
    BY <1>2
<1>6. /\ attempt[b].temp \ {"object"} \in SUBSET {"part", "object"}
      /\ attempt[b].cleaned \in BOOLEAN
      /\ attempt' = [attempt EXCEPT ![b].temp = attempt[b].temp \ {"object"},
                                    ![b].cleaned = attempt[b].cleaned]
    BY <1>3, <1>5, OnlyTemp
<1>7. batch # "absent"
    BY <1>1, <1>5, AttemptStarted
<1> QED
    BY <1>1, <1>4, <1>5, <1>6, <1>7, Removal DEF Terminal

-----------------------------------------------------------------------------
(* The queue *)

LEMMA IdleIs == Idle \in Execution /\ Idle.phase = "idle"
BY UploadsAssumption DEF Idle, Execution, Tries

LEMMA QueueStarted ==
  ASSUME Inv, (\E f \in Files : job[f] # NoJob) \/ (\E w \in Workers : exec[w] # Idle)
              \/ sweeper # {} \/ retry # NoFile \/ pending
  PROVE  batch # "absent"
BY DEF Inv, Blank

(* Jobs that are taken from whoever has them, or left alone. *)
LEMMA JobsReleased ==
  ASSUME Inv, batch # "absent", UNCHANGED <<batch, file, attempt>>,
         job' \in [Files -> JobRow], exec' \in [Workers -> Execution],
         retry' \in Files \union {NoFile},
         \A f \in Files :
           /\ job'[f].try = job[f].try
           /\ job'[f].state = "absent" <=> job[f].state = "absent"
           /\ \/ job'[f].state \in Alive \union {job[f].state}
              \/ attempt[<<f, job[f].try>>].state = "succeeded"
           /\ job'[f].state = "running" /\ job'[f].lease = "live" => job'[f] = job[f],
         \A w \in Workers :
           \/ exec'[w] = Idle
           \/ exec'[w] = exec[w]
           \/ exec'[w].phase = "error" /\ exec[w].phase = "run"
              /\ exec'[w].file = exec[w].file /\ exec'[w].try = exec[w].try
  PROVE  Inv'
<1>1. ASSUME NEW w \in Workers PROVE ExecutesSoundly(w)'
  <2>1. ExecutesSoundly(w)
      BY DEF Inv, WorkersAgree
  <2>2. CASE exec'[w] = Idle
      BY <2>2, IdleIs DEF ExecutesSoundly
  <2>3. CASE exec'[w] # Idle
    <3>1. /\ exec[w].phase # "idle" \/ exec'[w].phase = "idle"
          /\ exec'[w].file = exec[w].file /\ exec'[w].try = exec[w].try
          /\ exec'[w].phase = "applied" => exec[w].phase = "applied"
        BY <2>3
    <3>2. exec[w].phase # "idle" => (Owns(w)' => Owns(w))
      <4> SUFFICES ASSUME exec[w].phase # "idle", Owns(w)' PROVE Owns(w)
          OBVIOUS
      <4>1. PICK f \in Files : f = exec[w].file
          BY <2>1 DEF ExecutesSoundly
      <4>2. job'[f].state = "running" /\ job'[f].lease = "live" /\ job'[f].worker = w
          BY <3>1, <4>1 DEF Owns
      <4>3. job'[f] = job[f]
          BY <4>2
      <4> QED
          BY <4>1, <4>2, <4>3 DEF Owns
    <3> SUFFICES ASSUME exec[w].phase # "idle"
                 PROVE  ExecutesSoundly(w)'
        BY <3>1 DEF ExecutesSoundly
    <3>3. PICK f \in Files : f = exec[w].file
        BY <2>1 DEF ExecutesSoundly
    <3>4. job'[f].state # "absent" /\ job'[f].try = job[f].try
        BY <2>1, <3>3 DEF ExecutesSoundly
    <3>5. Owns(w)' => exec[w].try = job[f].try
        BY <2>1, <3>2, <3>3 DEF ExecutesSoundly
    <3>6. exec'[w].phase = "applied" => attempt[<<f, exec[w].try>>].state = "succeeded"
        BY <2>1, <3>1, <3>3 DEF ExecutesSoundly
    <3> QED
        BY <3>1, <3>3, <3>4, <3>5, <3>6 DEF ExecutesSoundly
  <2> QED
      BY <2>2, <2>3
<1>2. CountsAgree'
    BY IdleIs, CountsStay
<1> QED
    BY <1>1, <1>2, JobMoves DEF WorkersAgree

LEMMA RetryJobKeeps ==
  ASSUME Inv, NEW f \in Files, RetryJob(f) PROVE Inv'
<1>1. batch # "absent"
    BY DEF RetryJob, Open
<1>2. job[f] \in JobRow
    BY DEF Inv, Types
<1>3. Max({job[f].max, job[f].attempts + 2}) \in Nat
  <2>1. job[f].max \in Nat /\ job[f].attempts + 2 \in Nat
      BY <1>2 DEF JobRow
  <2> DEFINE S == {job[f].max, job[f].attempts + 2}
  <2>2. \E x \in S : \A y \in S : x >= y
      BY <2>1
  <2>3. Max(S) \in S
      BY <2>2 DEF Max
  <2> QED
      BY <2>1, <2>3
<1>a. PICK max \in Nat : max = Max({job[f].max, job[f].attempts + 2})
    BY <1>3
<1>b. PICK n \in Nat : n = job[f].attempts + 1
    BY <1>2 DEF JobRow
<1> DEFINE r == [job[f] EXCEPT !.state = "queued", !.attempts = n, !.max = max]
<1>4. /\ r \in JobRow /\ r.state = "queued" /\ r.try = job[f].try
      /\ job' = [job EXCEPT ![f] = r]
  <2>1. r \in JobRow /\ r.state = "queued" /\ r.try = job[f].try
      BY <1>2 DEF JobRow
  <2>2. job' = [job EXCEPT ![f].state = "queued", ![f].attempts = n, ![f].max = max]
      BY <1>a, <1>b DEF RetryJob, Inv, Types
  <2> QED
      BY <2>1, <2>2 DEF Inv, Types
<1> HIDE DEF r
<1>5. job' \in [Files -> JobRow] /\ job'[f] = r /\ \A g \in Files \ {f} : job'[g] = job[g]
    BY <1>4 DEF Inv, Types
<1>6. ASSUME NEW g \in Files
      PROVE  /\ job'[g].try = job[g].try
             /\ job'[g].state = "absent" <=> job[g].state = "absent"
             /\ job'[g].state \in Alive \union {job[g].state}
             /\ job'[g].state = "running" /\ job'[g].lease = "live" => job'[g] = job[g]
    BY <1>4, <1>5 DEF Alive, RetryJob
<1> QED
    BY <1>1, <1>5, <1>6, JobsReleased DEF RetryJob, Inv, Types

LEMMA ScheduleDeletionKeeps ==
  ASSUME Inv, ScheduleDeletion PROVE Inv'
<1>1. batch # "absent"
    BY DEF ScheduleDeletion, Open
<1>2. ASSUME NEW g \in Files
      PROVE  /\ job'[g] \in JobRow
             /\ job'[g].try = job[g].try
             /\ job'[g].state = "absent" <=> job[g].state = "absent"
             /\ job'[g].state \in Alive \union {job[g].state}
             /\ job'[g].state = "running" /\ job'[g].lease = "live" => job'[g] = job[g]
  <2>1. job[g] \in JobRow
      BY DEF Inv, Types
  <2>2. CASE job[g].state \in {"queued", "running"}
    <3>1. job'[g] = Given(job[g], "paused", NoWorker, "none")
        BY <2>2 DEF ScheduleDeletion, Given
    <3> QED
        BY <2>1, <2>2, <3>1, JobFields DEF Alive
  <2>3. CASE job[g].state \notin {"queued", "running"}
      BY <2>1, <2>3 DEF ScheduleDeletion
  <2> QED
      BY <2>2, <2>3
<1>3. job' \in [Files -> JobRow]
    BY <1>2 DEF ScheduleDeletion
<1> QED
    BY <1>1, <1>2, <1>3, JobsReleased DEF ScheduleDeletion, Inv, Types

LEMMA CancelDeletionKeeps ==
  ASSUME Inv, CancelDeletion PROVE Inv'
<1>1. batch # "absent"
    BY QueueStarted DEF CancelDeletion
<1>2. ASSUME NEW g \in Files
      PROVE  /\ job'[g] \in JobRow
             /\ job'[g].try = job[g].try
             /\ job'[g].state = "absent" <=> job[g].state = "absent"
             /\ job'[g].state \in Alive \union {job[g].state}
             /\ job'[g].state = "running" /\ job'[g].lease = "live" => job'[g] = job[g]
    BY DEF CancelDeletion, Inv, Types, JobRow, Alive
<1>3. job' \in [Files -> JobRow]
    BY <1>2 DEF CancelDeletion
<1> QED
    BY <1>1, <1>2, <1>3, JobsReleased DEF CancelDeletion, Inv, Types

(* Requests and sweeps that only take or leave a turn. *)
LEMMA TurnKeeps ==
  ASSUME Inv, batch # "absent", UNCHANGED <<batch, file, attempt, job, exec>>,
         retry' \in Files \union {NoFile}
  PROVE  Inv'
<1>1. job' \in [Files -> JobRow] /\ exec' \in [Workers -> Execution]
    BY DEF Inv, Types
<1> QED
    BY <1>1, JobsReleased

LEMMA SweptIs ==
  ASSUME Inv
  PROVE  \A g \in Files :
           /\ Swept[g] \in JobRow
           /\ Swept[g].try = job[g].try
           /\ Swept[g].state = "absent" <=> job[g].state = "absent"
           /\ Swept[g].state \in Alive \union {job[g].state}
           /\ Swept[g] # job[g] => Swept[g].state = "failed" /\ Claimable(job[g])
<1> SUFFICES ASSUME NEW g \in Files
             PROVE  /\ Swept[g] \in JobRow
                    /\ Swept[g].try = job[g].try
                    /\ Swept[g].state = "absent" <=> job[g].state = "absent"
                    /\ Swept[g].state \in Alive \union {job[g].state}
                    /\ Swept[g] # job[g] => Swept[g].state = "failed" /\ Claimable(job[g])
    OBVIOUS
<1>1. job[g] \in JobRow
    BY DEF Inv, Types
<1>2. CASE Swept[g] = job[g]
    BY <1>1, <1>2
<1>3. CASE Swept[g] # job[g]
  <2>1. Claimable(job[g]) /\ Swept[g] = Given(job[g], "failed", NoWorker, "none")
      BY <1>3 DEF Swept, Failed, Given
  <2>2. job[g].state # "absent"
      BY <2>1 DEF Claimable
  <2> QED
      BY <1>1, <2>1, <2>2, JobFields DEF Alive
<1> QED
    BY <1>2, <1>3

LEMMA ClaimNothingKeeps ==
  ASSUME Inv, NEW w \in Workers, ClaimNothing(w) PROVE Inv'
<1>1. job' = Swept
    BY DEF ClaimNothing
<1>2. Swept # job
    BY DEF ClaimNothing
<1>3. PICK f \in Files : Swept[f] # job[f]
    BY <1>2 DEF Swept, Inv, Types
<1>4. batch # "absent"
    BY <1>3, SweptIs, QueueStarted DEF NoJob, Claimable
<1>5. job' \in [Files -> JobRow]
    BY <1>1, SweptIs DEF Swept
<1>6. \A g \in Files :
        job'[g].state = "running" /\ job'[g].lease = "live" => job'[g] = job[g]
    BY <1>1, SweptIs
<1> QED
    BY <1>1, <1>4, <1>5, <1>6, SweptIs, JobsReleased DEF ClaimNothing, Inv, Types

LEMMA ClaimKeeps ==
  ASSUME Inv, NEW w \in Workers, NEW f \in Files, Claim(w, f) PROVE Inv'
<1>1. /\ Claimable(Swept[f]) /\ exec[w] = Idle
      /\ job' = [Swept EXCEPT ![f].state = "running", ![f].worker = w,
                              ![f].lease = "live", ![f].attempts = @ + 1]
      /\ exec' = [exec EXCEPT ![w] = [Idle EXCEPT !.phase = "run", !.file = f,
                                              !.try = job[f].try]]
      /\ UNCHANGED <<batch, file, attempt, sweeper, retry, pending, faults>>
    BY DEF Claim
<1>2. Swept[f] = job[f] /\ Claimable(job[f])
    BY <1>1, SweptIs DEF Claimable
<1>3. batch # "absent"
    BY <1>2, QueueStarted DEF NoJob, Claimable
<1>a. PICK n \in Nat : n = job[f].attempts + 1
  <2>1. job[f] \in JobRow
      BY DEF Inv, Types
  <2> QED
      BY <2>1 DEF JobRow
<1> DEFINE r == [job[f] EXCEPT !.state = "running", !.worker = w, !.lease = "live",
                               !.attempts = n]
<1>4. /\ r \in JobRow /\ r.try = job[f].try /\ r.state = "running" /\ r.worker = w
      /\ job[f].try \in Tries
  <2>1. job[f] \in JobRow
      BY DEF Inv, Types
  <2> QED
      BY <2>1 DEF JobRow
<1>5. job' = [Swept EXCEPT ![f] = r]
    BY <1>1, <1>2, <1>a, SweptIs DEF Swept
<1> HIDE DEF r
<1>6. job' \in [Files -> JobRow] /\ job'[f] = r /\ \A g \in Files \ {f} : job'[g] = Swept[g]
    BY <1>4, <1>5, SweptIs DEF Swept
<1> DEFINE e == [Idle EXCEPT !.phase = "run", !.file = f, !.try = job[f].try]
<1>7. e \in Execution /\ e.phase = "run" /\ e.file = f /\ e.try = job[f].try
    BY <1>4 DEF Execution, Idle
<1> HIDE DEF e
<1>8. /\ exec' \in [Workers -> Execution] /\ exec'[w] = e
      /\ \A v \in Workers \ {w} : exec'[v] = exec[v]
    BY <1>1, <1>7 DEF e, Inv, Types
<1>9. \A g \in Files : job'[g].try = job[g].try
    BY <1>4, <1>6, SweptIs
<1>11. \A g \in Files :
         /\ job'[g].state = "absent" <=> job[g].state = "absent"
         /\ job'[g].state \in Alive \union {job[g].state}
    BY <1>2, <1>4, <1>6, SweptIs DEF Alive, Claimable
<1>10. ASSUME NEW v \in Workers PROVE ExecutesSoundly(v)'
  <2>1. CASE v = w
      BY <1>4, <1>6, <1>7, <1>8, <2>1 DEF ExecutesSoundly
  <2>2. CASE v # w
    <3>1. exec[v].phase # "idle" => (Owns(v)' => Owns(v))
      <4> SUFFICES ASSUME exec[v].phase # "idle", Owns(v)' PROVE Owns(v)
          OBVIOUS
      <4>1. exec'[v] = exec[v] /\ exec[v].file \in Files
          BY <1>8, <2>2 DEF Inv, WorkersAgree, ExecutesSoundly
      <4>2. exec[v].file # f
          BY <1>4, <1>6, <2>2, <4>1 DEF Owns
      <4>3. job'[exec[v].file] = Swept[exec[v].file]
          BY <1>6, <4>1, <4>2
      <4>4. Swept[exec[v].file] = job[exec[v].file]
          BY <4>1, <4>3, SweptIs DEF Owns
      <4> QED
          BY <4>1, <4>3, <4>4 DEF Owns
    <3> QED
        BY <1>1, <1>6, <1>8, <1>9, <1>11, <2>2, <3>1, OthersExecute
  <2> QED
      BY <2>1, <2>2
<1>12. CountsAgree'
    BY <1>1, <1>7, <1>8, CountsStay
<1> QED
    BY <1>1, <1>3, <1>6, <1>8, <1>9, <1>10, <1>11, <1>12, JobMoves DEF WorkersAgree, Inv, Types

LEMMA LeaseExpiresKeeps ==
  ASSUME Inv, NEW f \in Files, LeaseExpires(f) PROVE Inv'
<1>1. batch # "absent"
    BY QueueStarted DEF LeaseExpires, NoJob
<1> DEFINE r == [job[f] EXCEPT !.lease = "expired"]
<1>2. /\ r \in JobRow /\ r.try = job[f].try /\ r.state = job[f].state /\ r.lease = "expired"
      /\ job' = [job EXCEPT ![f] = r]
    BY DEF LeaseExpires, Inv, Types, JobRow
<1> HIDE DEF r
<1>3. job' \in [Files -> JobRow] /\ job'[f] = r /\ \A g \in Files \ {f} : job'[g] = job[g]
    BY <1>2 DEF Inv, Types
<1>4. \A g \in Files :
        /\ job'[g].try = job[g].try
        /\ job'[g].state = "absent" <=> job[g].state = "absent"
        /\ job'[g].state \in Alive \union {job[g].state}
        /\ job'[g].state = "running" /\ job'[g].lease = "live" => job'[g] = job[g]
    BY <1>2, <1>3
<1> QED
    BY <1>1, <1>3, <1>4, JobsReleased DEF LeaseExpires, Inv, Types

-----------------------------------------------------------------------------
(* The end of an execution *)

LEMMA ExecStarted ==
  ASSUME Inv, NEW w \in Workers, exec[w].phase # "idle"
  PROVE  /\ batch # "absent" /\ exec[w].file \in Files /\ exec[w].try \in Tries
         /\ <<exec[w].file, exec[w].try>> \in Attempts
<1>1. batch # "absent"
    BY IdleIs, QueueStarted
<1> QED
    BY <1>1 DEF Inv, WorkersAgree, ExecutesSoundly, Types, Execution, Attempts

LEMMA GoesIdle ==
  ASSUME Inv, NEW w \in Workers, exec' = [exec EXCEPT ![w] = Idle]
  PROVE  /\ exec' \in [Workers -> Execution]
         /\ exec'[w] = Idle /\ \A v \in Workers \ {w} : exec'[v] = exec[v]
BY IdleIs DEF Inv, Types

LEMMA LeaveKeeps ==
  ASSUME Inv, NEW w \in Workers, exec[w] # Idle, exec' = [exec EXCEPT ![w] = Idle],
         UNCHANGED <<batch, file, attempt, job, retry>>
  PROVE  Inv'
<1>1. batch # "absent"
    BY QueueStarted
<1>2. job' \in [Files -> JobRow] /\ retry' \in Files \union {NoFile}
    BY DEF Inv, Types
<1> QED
    BY <1>1, <1>2, GoesIdle, JobsReleased

LEMMA ErrKeeps ==
  ASSUME Inv, NEW w \in Workers, Err(w) PROVE Inv'
<1>1. batch # "absent"
    BY ExecStarted DEF Err
<1>2. /\ exec' \in [Workers -> Execution]
      /\ exec'[w].phase = "error" /\ exec'[w].file = exec[w].file /\ exec'[w].try = exec[w].try
      /\ \A v \in Workers \ {w} : exec'[v] = exec[v]
    BY DEF Err, Inv, Types, Execution
<1>3. job' \in [Files -> JobRow] /\ retry' \in Files \union {NoFile}
    BY DEF Err, Inv, Types
<1> QED
    BY <1>1, <1>2, <1>3, JobsReleased DEF Err

LEMMA GivenFields ==
  ASSUME Inv, NEW f \in Files, NEW end \in {"queued", "succeeded", "failed"}
  PROVE  /\ Given(job[f], end, NoWorker, "none") \in JobRow
         /\ Given(job[f], end, NoWorker, "none").try = job[f].try
         /\ Given(job[f], end, NoWorker, "none").state = end
<1>1. job[f] \in JobRow
    BY DEF Inv, Types
<1>2. end \in {"queued", "running", "paused", "succeeded", "failed", "cancelled"}
    OBVIOUS
<1>3. NoWorker \in Workers \union {NoWorker} /\ "none" \in {"none", "live", "expired"}
    OBVIOUS
<1> QED
    BY <1>1, <1>2, <1>3, JobFields

(* A worker hands its job back under a state that is not running. *)
LEMMA HandsBack ==
  ASSUME Inv, NEW w \in Workers, exec[w].phase # "idle", exec' = [exec EXCEPT ![w] = Idle],
         NEW state \in {"queued", "succeeded"},
         job' = [job EXCEPT ![exec[w].file].state = state, ![exec[w].file].worker = NoWorker,
                            ![exec[w].file].lease = "none"],
         Owns(w), state = "succeeded" => exec[w].phase = "applied",
         UNCHANGED <<batch, file, attempt, retry>>
  PROVE  Inv'
<1>1. PICK f \in Files : f = exec[w].file
    BY ExecStarted
<1> DEFINE r == Given(job[f], state, NoWorker, "none")
<1>2. /\ r \in JobRow /\ r.try = job[f].try /\ r.state = state
      /\ job' = [job EXCEPT ![f] = r]
  <2>2. r \in JobRow /\ r.try = job[f].try /\ r.state = state
      BY GivenFields
  <2>3. job' = [job EXCEPT ![f] = r]
      BY <1>1 DEF Inv, Types, Given
  <2> QED
      BY <2>2, <2>3
<1> HIDE DEF r
<1>3. job' \in [Files -> JobRow] /\ job'[f] = r /\ \A g \in Files \ {f} : job'[g] = job[g]
  <2>1. job \in [Files -> JobRow]
      BY DEF Inv, Types
  <2> QED
      BY <1>2, <2>1
<1>4. job[f].state = "running" /\ exec[w].try = job[f].try
    BY <1>1 DEF Owns, Inv, WorkersAgree, ExecutesSoundly
<1>5. state = "succeeded" => attempt[<<f, job[f].try>>].state = "succeeded"
    BY <1>1, <1>4 DEF Inv, WorkersAgree, ExecutesSoundly
<1>6. ASSUME NEW g \in Files
      PROVE  /\ job'[g].try = job[g].try
             /\ job'[g].state = "absent" <=> job[g].state = "absent"
             /\ \/ job'[g].state \in Alive \union {job[g].state}
                \/ attempt[<<g, job[g].try>>].state = "succeeded"
             /\ job'[g].state = "running" /\ job'[g].lease = "live" => job'[g] = job[g]
  <2>1. CASE g = f
      BY <1>2, <1>3, <1>4, <1>5, <2>1 DEF Alive
  <2>2. CASE g # f
      BY <1>3, <2>2
  <2> QED
      BY <2>1, <2>2
<1>7. retry' \in Files \union {NoFile} /\ batch # "absent"
    BY ExecStarted DEF Inv, Types
<1>8. \A v \in Workers : exec'[v] = Idle \/ exec'[v] = exec[v]
    BY GoesIdle
<1> QED
    BY <1>3, <1>6, <1>7, <1>8, GoesIdle, JobsReleased

LEMMA FinishKeeps ==
  ASSUME Inv, NEW w \in Workers, Finish(w) PROVE Inv'
BY HandsBack DEF Finish

LEMMA TryAgainKeeps ==
  ASSUME Inv, NEW w \in Workers, TryAgain(w) PROVE Inv'
BY HandsBack DEF TryAgain

-----------------------------------------------------------------------------
(* Steps that change the books *)

LEMMA Shape ==
  \A a \in Attempts : a[1] \in Files /\ a[2] \in Tries /\ a = <<a[1], a[2]>>
BY DEF Attempts

LEMMA CurrentIs ==
  ASSUME Inv, NEW f \in Files
  PROVE  /\ file[f] \in File /\ file[f].current \in Tries /\ file[f].current \in Nat
         /\ Current(f) \in Attempts /\ Current(f) = <<f, file[f].current>>
         /\ Current(f)[1] = f /\ Current(f)[2] = file[f].current
         /\ batch # "absent" => attempt[Current(f)].state \in Matches[file[f].state]
BY DEF Inv, Types, File, Attempts, Tries, Current, FilesAgree

(* The current attempt and the file move together. *)
LEMMA OneFile ==
  ASSUME Inv, batch # "absent", NEW f \in Files, NEW a, a = Current(f),
         NEW state \in ActiveFile \union Discarded \union {"succeeded"}, NEW r \in Attempt,
         file' = FilesWith(f, state), attempt' = [attempt EXCEPT ![a] = r],
         r.state \in Matches[state], ObjectKept(r)
  PROVE  /\ file' \in [Files -> File] /\ attempt' \in [Attempts -> Attempt]
         /\ FilesAgree' /\ ObjectsKept'
         /\ attempt'[a] = r /\ \A b \in Attempts \ {a} : attempt'[b] = attempt[b]
         /\ file'[f].state = state
         /\ \A g \in Files \ {f} : file'[g] = file[g]
         /\ \A g \in Files : file'[g].current = file[g].current
<1>1. a \in Attempts /\ a[1] = f /\ a[2] = file[f].current
    BY CurrentIs
<1>2. attempt' \in [Attempts -> Attempt] /\ attempt'[a] = r
      /\ \A b \in Attempts \ {a} : attempt'[b] = attempt[b]
    BY <1>1 DEF Inv, Types
<1>3. /\ file' \in [Files -> File] /\ file'[f].state = state
      /\ \A g \in Files \ {f} : file'[g] = file[g]
      /\ \A g \in Files : file'[g].current = file[g].current
  <2>1. file \in [Files -> File]
      BY DEF Inv, Types
  <2> QED
      BY <2>1 DEF FilesWith, File
<1>4. ObjectsKept'
    BY <1>2 DEF Inv, ObjectsKept
<1>5. ASSUME NEW b \in Attempts
      PROVE  /\ b[2] = file'[b[1]].current => attempt'[b].state \in Matches[file'[b[1]].state]
             /\ b[2] < file'[b[1]].current => attempt'[b].state \in Discarded
             /\ b[2] > file'[b[1]].current => attempt'[b].state = "absent"
  <2>1. b[1] \in Files /\ b[2] \in Nat /\ file[b[1]].current \in Nat
      BY Shape, CurrentIs DEF Tries
  <2>2. CASE b = a
      BY <1>1, <1>2, <1>3, <2>1, <2>2
  <2>3. CASE b # a
    <3>1. /\ b[2] = file[b[1]].current => attempt[b].state \in Matches[file[b[1]].state]
          /\ b[2] < file[b[1]].current => attempt[b].state \in Discarded
          /\ b[2] > file[b[1]].current => attempt[b].state = "absent"
        BY DEF Inv, FilesAgree
    <3>2. b[1] = f => b[2] # file[f].current
        BY <1>1, <2>3, Shape
    <3> QED
        BY <1>2, <1>3, <2>1, <2>3, <3>1, <3>2
  <2> QED
      BY <2>2, <2>3
<1> QED
    BY <1>2, <1>3, <1>4, <1>5 DEF FilesAgree, Matches

(* Workers keep what they know when only attempts move on. *)
LEMMA WorkersStay ==
  ASSUME Inv, UNCHANGED exec,
         \A f \in Files :
           \/ job'[f] = job[f]
           \/ (job'[f].state # "running" /\ (job[f].state # "absent"
                                             => job'[f].state # "absent")),
         \A a \in Attempts : attempt[a].state = "succeeded" => attempt'[a].state = "succeeded"
  PROVE  WorkersAgree'
<1>1. ASSUME NEW w \in Workers, exec[w].phase # "idle" PROVE ExecutesSoundly(w)'
  <2>1. PICK f \in Files : f = exec[w].file
      BY <1>1, ExecStarted
  <2>2. ExecutesSoundly(w) /\ <<exec[w].file, exec[w].try>> \in Attempts
      BY <1>1, ExecStarted DEF Inv, WorkersAgree
  <2>3. Owns(w)' => Owns(w) /\ job'[f] = job[f]
      BY <2>1 DEF Owns
  <2> QED
      BY <1>1, <2>1, <2>2, <2>3 DEF ExecutesSoundly
<1>2. ASSUME NEW w \in Workers, exec[w].phase = "idle" PROVE ExecutesSoundly(w)'
    BY <1>2 DEF ExecutesSoundly
<1> QED
    BY <1>1, <1>2 DEF WorkersAgree

(* Jobs keep their files when these go on. *)
LEMMA JobsStay ==
  ASSUME Inv, UNCHANGED job, batch' = "queued" => batch = "queued",
         \A g \in Files :
           /\ file'[g].current = file[g].current
           /\ file'[g].state = "uploading" => file[g].state = "uploading"
           /\ file'[g].state = "queued" => file[g].state \in {"queued", "uploading"}
  PROVE  JobsAgree'
<1>1. \A g \in Files : Assigned(g)' <=> Assigned(g)
    BY DEF Assigned
<1> QED
    BY <1>1 DEF Inv, JobsAgree, Collected

LEMMA CountsIs ==
  ASSUME NEW files \in [Files -> File]
  PROVE  /\ Counts(files) \in Verdict
         /\ Counts(files) = "active" <=> \E f \in Files : files[f].state \in ActiveFile
         /\ Counts(files) = "succeeded" => \A f \in Files : files[f].state = "succeeded"
<1> DEFINE succeeded == {f \in Files : files[f].state = "succeeded"}
           active == \E f \in Files : files[f].state \in ActiveFile
<1>1. Counts(files) = IF active THEN "active"
                      ELSE IF succeeded = Files THEN "succeeded"
                      ELSE IF succeeded # {} THEN "partially_succeeded"
                      ELSE "failed"
    BY DEF Counts
<1> QED
    BY <1>1 DEF Verdict

LEMMA ReconciledIs ==
  ASSUME NEW counts \in Verdict, NEW state
  PROVE  /\ Reconciled(counts, state) \in Batch \ {"absent", "uploading", "queued"}
         /\ state # "cancelling" =>
              Reconciled(counts, state) = IF counts = "active" THEN "processing" ELSE counts
         /\ state = "cancelling" => Reconciled(counts, state) \in {"cancelling", "cancelled"}
BY DEF Reconciled, Batch, Expirable, Ended, Verdict

LEMMA CreateBatchKeeps ==
  ASSUME Inv, CreateBatch PROVE Inv'
<1>1. /\ batch = "absent" /\ batch' = "uploading"
      /\ attempt' = [a \in Attempts |-> IF a[2] = 1 THEN FreshAttempt ELSE attempt[a]]
      /\ UNCHANGED <<file, job, exec, sweeper, retry>>
    BY DEF CreateBatch, NewBatch
<1>2. /\ \A f \in Files : file[f].state = "uploading" /\ file[f].current = 1
                          /\ job[f].state = "absent" /\ job[f].try = 1
      /\ \A a \in Attempts : attempt[a] = NoAttempt
      /\ \A w \in Workers : exec[w].phase = "idle"
    BY <1>1, IdleIs DEF Inv, Blank, NoJob
<1>3. FreshAttempt \in Attempt /\ FreshAttempt.state = "uploading"
    BY DEF FreshAttempt, NoAttempt, Attempt
<1>4. \A a \in Attempts :
        attempt'[a] = IF a[2] = 1 THEN FreshAttempt ELSE NoAttempt
    BY <1>1, <1>2
<1>5. Types'
  <2>1. \A a \in Attempts : attempt'[a] \in Attempt
      BY <1>1, <1>3 DEF Inv, Types
  <2>2. attempt' \in [Attempts -> Attempt]
      BY <1>1, <2>1
  <2> QED
      BY <1>1, <2>2 DEF Inv, Types, Batch, Expirable
<1>6. FilesAgree'
  <2>1. \A a \in Attempts : a[1] \in Files /\ a[2] \in Nat /\ 1 <= a[2]
      BY Shape DEF Tries
  <2> QED
      BY <1>1, <1>2, <1>3, <1>4, <2>1 DEF FilesAgree, Matches, NoAttempt
<1>7. BatchAgrees' /\ Collected' /\ Blank'
    BY <1>1, <1>2, UploadsAssumption DEF BatchAgrees, Collected, Blank, ActiveFile
<1>8. ObjectsKept'
    BY <1>3, <1>4 DEF ObjectsKept, ObjectKept, NoAttempt
<1>9. JobsAgree' /\ WorkersAgree' /\ CountsAgree'
    BY <1>1, <1>2 DEF JobsAgree, WorkersAgree, Assigned, ExecutesSoundly, CountsAgree, Counted
<1> QED
    BY <1>5, <1>6, <1>7, <1>8, <1>9 DEF Inv

LEMMA CompleteBatchKeeps ==
  ASSUME Inv, CompleteBatch PROVE Inv'
<1> DEFINE ready == {f \in Files : file[f].state = "queued"}
<1>1. /\ batch = "uploading" /\ batch' = "queued" /\ Completable
      /\ job' = [f \in Files |-> IF f \in ready THEN Requeued(f) ELSE job[f]]
      /\ UNCHANGED <<file, attempt, exec, sweeper, retry, pending, faults>>
    BY DEF CompleteBatch, QueueBatch
<1>2. ASSUME NEW f \in Files
      PROVE  /\ Requeued(f) \in JobRow /\ Requeued(f).state = "queued"
             /\ Requeued(f).try = file[f].current
  <2>1. job[f] \in JobRow /\ file[f].current \in Tries
      BY CurrentIs DEF Inv, Types
  <2> QED
      BY <2>1 DEF Requeued, JobRow
<1>3. /\ job' \in [Files -> JobRow]
      /\ \A f \in Files : job'[f] = IF f \in ready THEN Requeued(f) ELSE job[f]
    BY <1>1, <1>2 DEF Inv, Types
<1>4. Types' /\ Blank'
    BY <1>1, <1>3 DEF Inv, Types, Blank, Batch, Expirable
<1>5. FilesAgree' /\ ObjectsKept'
    BY <1>1 DEF Inv, FilesAgree, Matches, ObjectsKept
<1>6. BatchAgrees' /\ Collected'
    BY <1>1 DEF BatchAgrees, Collected, Completable, ActiveFile
<1>7. ASSUME NEW f \in Files
      PROVE  /\ job'[f].try <= file'[f].current
             /\ file'[f].state = "uploading" => ~Assigned(f)'
             /\ file'[f].state = "queued" => Assigned(f)' /\ job'[f].state \in Alive
  <2>1. file[f].current \in Nat
      BY CurrentIs
  <2>2. CASE f \in ready
      BY <1>1, <1>2, <1>3, <2>1, <2>2 DEF Assigned, Alive
  <2>3. CASE f \notin ready
      BY <1>1, <1>3, <2>3 DEF Assigned, Inv, JobsAgree
  <2> QED
      BY <2>2, <2>3
<1>8. JobsAgree'
    BY <1>7 DEF JobsAgree
<1>9. WorkersAgree' /\ CountsAgree'
    BY <1>1, <1>2, <1>3, WorkersStay, CountsStay
<1> QED
    BY <1>4, <1>5, <1>6, <1>8, <1>9 DEF Inv

LEMMA FinishRetryKeeps ==
  ASSUME Inv, NEW f \in Files, FinishRetry(f) PROVE Inv'
<1>1. batch # "absent"
    BY UploadsAssumption, QueueStarted DEF FinishRetry
<1>2. PICK n \in Tries : n = file[f].current + 1
    BY CurrentIs, UploadsAssumption DEF FinishRetry, Affordable, Tries
<1>3. PICK a \in Attempts : a = <<f, n>>
    BY DEF Attempts
<1>4. FreshAttempt \in Attempt /\ FreshAttempt.state = "uploading"
    BY DEF FreshAttempt, NoAttempt, Attempt
<1>5. /\ attempt' = [attempt EXCEPT ![a] = FreshAttempt]
      /\ file' = [file EXCEPT ![f] = [state |-> "uploading", current |-> n]]
      /\ batch' = "uploading" /\ retry' = NoFile /\ UNCHANGED <<job, exec>>
      /\ file[f].state \in Discarded
    BY <1>2, <1>3 DEF FinishRetry, Retryable
<1>6. /\ attempt' \in [Attempts -> Attempt] /\ attempt'[a] = FreshAttempt
      /\ \A b \in Attempts \ {a} : attempt'[b] = attempt[b]
    BY <1>4, <1>5 DEF Inv, Types
<1>7. /\ file' \in [Files -> File] /\ file'[f].state = "uploading" /\ file'[f].current = n
      /\ \A g \in Files \ {f} : file'[g] = file[g]
    BY <1>5 DEF Inv, Types, File, ActiveFile
<1>8. Types' /\ Blank'
    BY <1>5, <1>6, <1>7 DEF Inv, Types, Blank, Batch, Expirable
<1>9. ASSUME NEW b \in Attempts
      PROVE  /\ b[2] = file'[b[1]].current => attempt'[b].state \in Matches[file'[b[1]].state]
             /\ b[2] < file'[b[1]].current => attempt'[b].state \in Discarded
             /\ b[2] > file'[b[1]].current => attempt'[b].state = "absent"
  <2>1. /\ b[1] \in Files /\ b[2] \in Nat /\ file[b[1]].current \in Nat /\ n \in Nat
        /\ b = <<b[1], b[2]>>
      BY Shape, CurrentIs DEF Tries
  <2>2. CASE b = a
      BY <1>3, <1>4, <1>6, <1>7, <2>1, <2>2 DEF Matches
  <2>3. CASE b # a
    <3>1. /\ b[2] = file[b[1]].current => attempt[b].state \in Matches[file[b[1]].state]
          /\ b[2] < file[b[1]].current => attempt[b].state \in Discarded
          /\ b[2] > file[b[1]].current => attempt[b].state = "absent"
        BY <1>1 DEF Inv, FilesAgree
    <3>2. CASE b[1] = f
      <4>1. b[2] # n
          BY <1>3, <2>1, <2>3, <3>2
      <4>2. b[2] = file[f].current => attempt[b].state \in Discarded
          BY <1>5, <3>1, <3>2 DEF Matches, Discarded
      <4> QED
          BY <1>2, <1>6, <1>7, <2>1, <2>3, <3>1, <3>2, <4>1, <4>2
    <3>3. CASE b[1] # f
        BY <1>6, <1>7, <2>1, <2>3, <3>1, <3>3
    <3> QED
        BY <3>2, <3>3
  <2> QED
      BY <2>2, <2>3
<1>10. FilesAgree'
    BY <1>9 DEF FilesAgree, Matches
<1>11. BatchAgrees' /\ Collected'
    BY <1>5, <1>7 DEF BatchAgrees, Collected, ActiveFile
<1>12. ObjectsKept'
    BY <1>4, <1>6 DEF Inv, ObjectsKept, ObjectKept
<1>13. ASSUME NEW g \in Files
       PROVE  /\ job[g].try <= file'[g].current
              /\ file'[g].state = "uploading" => ~Assigned(g)'
              /\ file'[g].state = "queued" /\ Assigned(g)' => job[g].state \in Alive
  <2>1. CASE g = f
    <3>1. job[f].try \in Nat /\ job[f].try <= file[f].current /\ file[f].current \in Nat
        BY CurrentIs DEF Inv, Types, JobRow, Tries, JobsAgree
    <3> QED
        BY <1>2, <1>5, <1>7, <2>1, <3>1 DEF Assigned
  <2>2. CASE g # f
      BY <1>5, <1>7, <2>2 DEF Inv, JobsAgree, Assigned
  <2> QED
      BY <2>1, <2>2
<1>14. JobsAgree'
    BY <1>5, <1>13 DEF JobsAgree
<1>15. WorkersAgree'
  <2>1. attempt[a].state = "absent"
    <3>1. a[1] = f /\ a[2] = n /\ file[f].current \in Nat
        BY <1>3, CurrentIs
    <3> QED
        BY <1>1, <1>2, <3>1 DEF Inv, FilesAgree
  <2> QED
      BY <1>5, <1>6, <2>1, WorkersStay
<1>16. CountsAgree'
  <2>1. n > 1
      BY <1>2, CurrentIs DEF Tries
  <2> QED
      BY <1>5, <1>7, <2>1, CountsStay DEF Discarded
<1> QED
    BY <1>8, <1>10, <1>11, <1>12, <1>14, <1>15, <1>16 DEF Inv

(* Cancelling and expiring: what has not succeeded is over, file by file. *)
LEMMA EverythingEnds ==
  ASSUME Inv, batch # "absent", NEW end \in {"cancelled", "expired"},
         job' = [f \in Files |-> Unqueued(job[f])],
         file' = [f \in Files |-> IF file[f].state = "succeeded" THEN file[f]
                                  ELSE [file[f] EXCEPT !.state = end]],
         attempt' \in [Attempts -> Attempt],
         \A a \in Attempts :
           /\ attempt[a].state \in Discarded => attempt'[a].state \in Discarded
           /\ attempt[a].state \in {"absent", "succeeded"} => attempt'[a].state = attempt[a].state
           /\ attempt'[a].state \in {"absent", "succeeded"} => attempt'[a].state = attempt[a].state
           /\ attempt'[a].state \notin {"queued", "receiving", "uploading"}
           /\ end = "expired" => attempt'[a].state \in {"absent", "succeeded", "expired"},
         batch' \in {"cancelling", "cancelled", "expired"},
         UNCHANGED <<exec, retry>>
  PROVE  Inv'
<1>1. ASSUME NEW f \in Files
      PROVE  /\ file'[f] \in File /\ file'[f].current = file[f].current
             /\ file[f].state = "succeeded" => file'[f] = file[f]
             /\ file[f].state # "succeeded" => file'[f].state = end
             /\ file'[f].state \notin ActiveFile
  <2>1. file[f] \in File /\ file'[f] = IF file[f].state = "succeeded" THEN file[f]
                                       ELSE [file[f] EXCEPT !.state = end]
      BY CurrentIs
  <2> QED
      BY <2>1 DEF File, ActiveFile, Discarded
<1>2. file' \in [Files -> File]
    BY <1>1
<1>3. ASSUME NEW f \in Files
      PROVE  /\ job'[f] \in JobRow /\ job'[f].try = job[f].try
             /\ \/ job'[f] = job[f]
                \/ (job'[f].state # "running" /\ job'[f].state # "absent")
  <2>1. job[f] \in JobRow /\ job'[f] = Unqueued(job[f])
      BY DEF Inv, Types
  <2> QED
      BY <2>1 DEF Unqueued, JobRow
<1>4. job' \in [Files -> JobRow]
    BY <1>3
<1>5. Types' /\ Blank'
    BY <1>2, <1>4 DEF Inv, Types, Blank, Batch, Expirable, Ended
<1>6. ASSUME NEW a \in Attempts
      PROVE  /\ a[2] = file'[a[1]].current => attempt'[a].state \in Matches[file'[a[1]].state]
             /\ a[2] < file'[a[1]].current => attempt'[a].state \in Discarded
             /\ a[2] > file'[a[1]].current => attempt'[a].state = "absent"
  <2>1. PICK f \in Files : f = a[1]
      BY Shape
  <2>2. /\ a[2] = file[f].current => attempt[a].state \in Matches[file[f].state]
        /\ a[2] < file[f].current => attempt[a].state \in Discarded
        /\ a[2] > file[f].current => attempt[a].state = "absent"
      BY <2>1 DEF Inv, FilesAgree
  <2>3. ASSUME a[2] = file[f].current
        PROVE  attempt'[a].state \in Matches[file'[f].state]
    <3>1. attempt[a].state \in Matches[file[f].state] /\ file[f] \in File
        BY <2>2, <2>3, CurrentIs
    <3>2. CASE file[f].state = "succeeded"
        BY <1>1, <3>1, <3>2 DEF Matches
    <3>3. CASE file[f].state # "succeeded"
      <4>1. attempt[a].state \notin {"absent", "succeeded"}
          BY <3>1, <3>3 DEF Matches, File, ActiveFile, Discarded
      <4>2. attempt'[a].state \in Discarded
          BY <4>1 DEF Attempt, Terminal, Discarded
      <4>3. file'[f].state = end
          BY <1>1, <3>3
      <4>4. end = "expired" => attempt'[a].state = "expired"
          BY <4>1
      <4> QED
          BY <4>2, <4>3, <4>4 DEF Matches, Discarded
    <3> QED
        BY <3>2, <3>3
  <2> QED
      BY <1>1, <2>1, <2>2, <2>3
<1>7. FilesAgree'
    BY <1>6 DEF FilesAgree, Matches
<1>8. BatchAgrees' /\ Collected'
    BY <1>1 DEF BatchAgrees, Collected
<1>9. ObjectsKept'
    BY DEF ObjectsKept, ObjectKept
<1>10. JobsAgree'
    BY <1>1, <1>3 DEF Inv, JobsAgree, ActiveFile
<1>11. WorkersAgree' /\ CountsAgree'
    BY <1>1, <1>3, WorkersStay, CountsStay
<1> QED
    BY <1>5, <1>7, <1>8, <1>9, <1>10, <1>11 DEF Inv

LEMMA CancelBatchKeeps ==
  ASSUME Inv, CancelBatch PROVE Inv'
<1>1. ASSUME NEW a \in Attempts
      PROVE  /\ attempt'[a] \in Attempt
             /\ attempt[a].state \in Discarded => attempt'[a].state \in Discarded
             /\ attempt[a].state \in {"absent", "succeeded"} => attempt'[a].state = attempt[a].state
             /\ attempt'[a].state \in {"absent", "succeeded"} => attempt'[a].state = attempt[a].state
             /\ attempt'[a].state \notin {"queued", "receiving", "uploading"}
  <2>1. attempt[a] \in Attempt /\ attempt'[a] = Cancelled(attempt[a])
      BY DEF Inv, Types, CancelBatch, CancelRest
  <2> QED
      BY <2>1 DEF Cancelled, Attempt, Terminal, Discarded
<1>2. attempt' \in [Attempts -> Attempt]
    BY <1>1 DEF CancelBatch, CancelRest
<1>3. batch # "absent" /\ batch' \in {"cancelling", "cancelled", "expired"}
    BY DEF CancelBatch, CancelRest, Open
<1> QED
    BY <1>1, <1>2, <1>3, EverythingEnds DEF CancelBatch, CancelRest

LEMMA ExpireDueKeeps ==
  ASSUME Inv, ExpireDue PROVE Inv'
<1>1. ASSUME NEW a \in Attempts
      PROVE  /\ attempt'[a] \in Attempt
             /\ attempt[a].state \in Discarded => attempt'[a].state \in Discarded
             /\ attempt[a].state \in {"absent", "succeeded"} => attempt'[a].state = attempt[a].state
             /\ attempt'[a].state \in {"absent", "succeeded"} => attempt'[a].state = attempt[a].state
             /\ attempt'[a].state \notin {"queued", "receiving", "uploading"}
             /\ attempt'[a].state \in {"absent", "succeeded", "expired"}
  <2>1. attempt[a] \in Attempt /\ attempt'[a] = Expired(attempt[a])
      BY DEF Inv, Types, ExpireDue
  <2> QED
      BY <2>1 DEF Expired, Attempt, Terminal, Discarded
<1>2. attempt' \in [Attempts -> Attempt]
    BY <1>1 DEF ExpireDue
<1>3. batch # "absent" /\ batch' \in {"cancelling", "cancelled", "expired"}
    BY DEF ExpireDue, Expirable
<1> QED
    BY <1>1, <1>2, <1>3, EverythingEnds DEF ExpireDue

(* Only the current attempt of a file that is sent is on its way. *)
Sending == {"uploading", "processing", "failed", "partially_succeeded"}

LEMMA OnItsWay ==
  ASSUME Inv, NEW a \in Attempts, attempt[a].state \in {"uploading", "receiving"}
  PROVE  /\ batch # "absent" /\ a[1] \in Files /\ a = Current(a[1])
         /\ file[a[1]].state = "uploading" /\ batch \in Sending
         /\ batch # "uploading" /\ batch # "processing" => file[a[1]].current > 1
<1>1. batch # "absent"
    BY DEF Inv, Blank, NoAttempt
<1>2. a[1] \in Files /\ a[2] \in Nat /\ file[a[1]].current \in Nat /\ a = <<a[1], a[2]>>
    BY Shape, CurrentIs DEF Tries
<1>3. a[2] = file[a[1]].current
    BY <1>1, <1>2 DEF Inv, FilesAgree, Discarded
<1>4. attempt[a].state \in Matches[file[a[1]].state] /\ file[a[1]] \in File
    BY <1>1, <1>2, <1>3, CurrentIs DEF Inv, FilesAgree
<1>5. file[a[1]].state = "uploading"
    BY <1>4 DEF Matches, File, ActiveFile, Discarded
<1>6. /\ batch \in Sending
      /\ batch # "uploading" /\ batch # "processing" => file[a[1]].current > 1
  <2>1. batch \in Batch /\ file[a[1]].state \in ActiveFile
      BY <1>5 DEF Inv, Types, ActiveFile
  <2> QED
      BY <1>1, <1>2, <1>5, <2>1 DEF Inv, BatchAgrees, Collected, Batch, Expirable, Ended, Sending
<1> QED
    BY <1>1, <1>2, <1>3, <1>5, <1>6 DEF Current

LEMMA ClaimAttemptKeeps ==
  ASSUME Inv, NEW a \in Attempts, ClaimAttempt(a) PROVE Inv'
<1>1. /\ attempt[a].state = "uploading"
      /\ attempt' = [attempt EXCEPT ![a].state = "receiving", ![a].receiver = "claimed"]
      /\ UNCHANGED <<batch, file, job, exec, sweeper, retry, pending, faults>>
    BY DEF ClaimAttempt, MarkReceiving
<1>2. batch # "absent" /\ a[1] \in Files /\ a = Current(a[1]) /\ file[a[1]].state = "uploading"
    BY <1>1, OnItsWay
<1> DEFINE r == [attempt[a] EXCEPT !.state = "receiving", !.receiver = "claimed"]
<1>3. /\ r \in Attempt /\ r.state = "receiving" /\ r.receiver = "claimed"
      /\ attempt' = [attempt EXCEPT ![a] = r]
    BY <1>1 DEF Inv, Types, Attempt, Receiving
<1> HIDE DEF r
<1>4. ObjectKept(r) /\ r.state \in Matches["uploading"]
    BY <1>3 DEF ObjectKept, Matches
<1>5. file' = FilesWith(a[1], "uploading")
    BY <1>1, <1>2, CurrentIs DEF FilesWith, Inv, Types, File
<1>6. /\ file' \in [Files -> File] /\ attempt' \in [Attempts -> Attempt]
      /\ FilesAgree' /\ ObjectsKept'
      /\ attempt'[a] = r /\ \A b \in Attempts \ {a} : attempt'[b] = attempt[b]
    BY <1>2, <1>3, <1>4, <1>5, OneFile DEF ActiveFile
<1>7. Types' /\ Blank'
    BY <1>1, <1>2, <1>6 DEF Inv, Types, Blank
<1>8. BatchAgrees' /\ Collected'
    BY <1>1 DEF Inv, BatchAgrees, Collected
<1>9. JobsAgree'
    BY <1>1, JobsStay
<1>10. WorkersAgree' /\ CountsAgree'
    BY <1>1, <1>6, WorkersStay, CountsStay
<1> QED
    BY <1>6, <1>7, <1>8, <1>9, <1>10 DEF Inv

LEMMA RecordFailureKeeps ==
  ASSUME Inv, NEW a \in Attempts, RecordFailure(a) PROVE Inv'
<1>1. /\ attempt[a].state \in {"uploading", "receiving"}
      /\ attempt' = [attempt EXCEPT ![a].state = "failed", ![a].receiver = "none"]
      /\ UNCHANGED <<job, exec, sweeper, retry, pending, faults>>
    BY DEF RecordFailure
<1>2. /\ batch \in Sending /\ a[1] \in Files /\ a = Current(a[1])
      /\ file[a[1]].state = "uploading" /\ batch # "absent"
    BY <1>1, OnItsWay
<1> DEFINE r == [attempt[a] EXCEPT !.state = "failed", !.receiver = "none"]
<1>3. /\ r \in Attempt /\ r.state = "failed" /\ r.receiver = "none"
      /\ attempt' = [attempt EXCEPT ![a] = r]
    BY <1>1 DEF Inv, Types, Attempt, Terminal, Discarded
<1> HIDE DEF r
<1>4. ObjectKept(r) /\ r.state \in Matches["failed"]
    BY <1>3 DEF ObjectKept, Matches
<1>5. file' = FilesWith(a[1], "failed") /\ batch' = Closed(file', batch)
    BY <1>2 DEF RecordFailure, FailedFiles
<1>6. /\ file' \in [Files -> File] /\ attempt' \in [Attempts -> Attempt]
      /\ FilesAgree' /\ ObjectsKept'
      /\ attempt'[a] = r /\ \A b \in Attempts \ {a} : attempt'[b] = attempt[b]
      /\ file'[a[1]].state = "failed"
      /\ \A g \in Files \ {a[1]} : file'[g] = file[g]
      /\ \A g \in Files : file'[g].current = file[g].current
    BY <1>2, <1>3, <1>4, <1>5, OneFile DEF Discarded
<1>7. /\ batch' \in Batch \ {"absent", "queued"}
      /\ \/ batch' = batch /\ (batch = "uploading" =>
                                 \E g \in Files : file'[g].state \in ActiveFile)
         \/ batch' \in Ended /\ \A g \in Files : file'[g].state \notin ActiveFile
    BY <1>2, <1>5 DEF Closed, Batch, Expirable, Ended, Sending
<1>8. Types' /\ Blank'
    BY <1>1, <1>6, <1>7 DEF Inv, Types, Blank
<1>9. BatchAgrees' /\ Collected'
  <2>1. \A g \in Files : file'[g].state \in ActiveFile => file'[g] = file[g]
      BY <1>6 DEF ActiveFile
  <2>2. \A g \in Files : file'[g].state \in ActiveFile =>
          /\ batch \in {"failed", "partially_succeeded"} => file'[g].current > 1
      BY <1>2, <2>1 DEF Inv, BatchAgrees
  <2> QED
      BY <1>2, <1>7, <2>2 DEF BatchAgrees, Collected, Ended, Sending
<1>10. JobsAgree'
  <2>1. \A g \in Files :
          /\ file'[g].state = "uploading" => file[g].state = "uploading"
          /\ file'[g].state = "queued" => file[g].state \in {"queued", "uploading"}
      BY <1>2, <1>6
  <2> QED
      BY <1>1, <1>6, <1>7, <2>1, JobsStay
<1>11. WorkersAgree'
    BY <1>1, <1>6, WorkersStay
<1>12. CountsAgree'
  <2>1. \A g \in Files :
          /\ file[g].state = "succeeded" => file'[g].state = "succeeded"
          /\ file'[g].state \in ActiveFile => file'[g] = file[g]
      BY <1>2, <1>6 DEF ActiveFile
  <2> QED
      BY <1>1, <2>1, CountsStay
<1> QED
    BY <1>6, <1>8, <1>9, <1>10, <1>11, <1>12 DEF Inv

(* The attempt is received, with its object or under a lost commit. *)
LEMMA Receives ==
  ASSUME Inv, NEW a \in Attempts, attempt[a].state = "receiving", NEW r \in Attempt,
         attempt' = [attempt EXCEPT ![a] = r], r.state = "queued", ObjectKept(r),
         file' = FilesWith(a[1], "queued"), UNCHANGED <<batch, job, exec, retry>>
  PROVE  Inv'
<1>1. /\ batch \in Sending /\ a[1] \in Files /\ a = Current(a[1])
      /\ file[a[1]].state = "uploading" /\ batch # "absent"
    BY OnItsWay
<1>2. r.state \in Matches["queued"]
    BY DEF Matches
<1>3. /\ file' \in [Files -> File] /\ attempt' \in [Attempts -> Attempt]
      /\ FilesAgree' /\ ObjectsKept'
      /\ attempt'[a] = r /\ \A b \in Attempts \ {a} : attempt'[b] = attempt[b]
      /\ file'[a[1]].state = "queued"
      /\ \A g \in Files \ {a[1]} : file'[g] = file[g]
      /\ \A g \in Files : file'[g].current = file[g].current
    BY <1>1, <1>2, OneFile DEF ActiveFile
<1>4. Types' /\ Blank'
    BY <1>1, <1>3 DEF Inv, Types, Blank
<1>5. BatchAgrees' /\ Collected'
  <2>1. file'[a[1]].state \in ActiveFile
      BY <1>3 DEF ActiveFile
  <2>2. \A g \in Files : file'[g].state \in ActiveFile => file[g].state \in ActiveFile
      BY <1>1, <1>3 DEF ActiveFile
  <2>3. batch \in {"failed", "partially_succeeded"} =>
          \A g \in Files : file'[g].state \in ActiveFile => file'[g].current > 1
      BY <1>1, <1>3, <2>2 DEF Inv, BatchAgrees
  <2> QED
      BY <1>1, <2>1, <2>3 DEF BatchAgrees, Collected, Sending
<1>6. JobsAgree'
  <2>1. \A g \in Files :
          /\ file'[g].state = "uploading" => file[g].state = "uploading"
          /\ file'[g].state = "queued" => file[g].state \in {"queued", "uploading"}
      BY <1>1, <1>3
  <2> QED
      BY <1>3, <2>1, JobsStay
<1>7. WorkersAgree' /\ CountsAgree'
    BY <1>1, <1>3, WorkersStay, CountsStay DEF ActiveFile
<1> QED
    BY <1>3, <1>4, <1>5, <1>6, <1>7 DEF Inv

LEMMA FinalizeKeeps ==
  ASSUME Inv, NEW a \in Attempts, Finalize(a) PROVE Inv'
<1> DEFINE r == [attempt[a] EXCEPT !.state = "queued", !.receiver = "none"]
<1>1. attempt[a] \in Attempt /\ ObjectKept(attempt[a])
    BY DEF Inv, Types, ObjectsKept
<1>2. attempt[a].state = "receiving" /\ "object" \in attempt[a].temp
    BY <1>1 DEF Finalize, Accepted, ObjectKept
<1>3. /\ r \in Attempt /\ r.state = "queued" /\ r.receiver = "none"
      /\ r.temp = attempt[a].temp /\ attempt' = [attempt EXCEPT ![a] = r]
    BY <1>1 DEF Finalize, Attempt, Inv, Types
<1> HIDE DEF r
<1>4. ObjectKept(r)
    BY <1>2, <1>3 DEF ObjectKept
<1> QED
    BY <1>2, <1>3, <1>4, Receives DEF Finalize

LEMMA FinalizeFailsKeeps ==
  ASSUME Inv, NEW a \in Attempts, FinalizeFails(a) PROVE Inv'
<1>1. attempt[a] \in Attempt /\ attempt[a].state = "receiving"
      /\ UNCHANGED <<batch, job, exec, sweeper, retry, pending>>
    BY DEF Inv, Types, FinalizeFails, Accepted
<1>2. batch # "absent"
    BY <1>1, OnItsWay
<1>3. CASE Receiver(a, "none", {}) /\ UNCHANGED file
    BY <1>1, <1>2, <1>3, ReceiverKeeps
<1>4. CASE /\ attempt' = [attempt EXCEPT ![a].state = "queued", ![a].temp = {},
                                         ![a].receiver = "lost"]
           /\ file' = FilesWith(a[1], "queued")
  <2> DEFINE r == [attempt[a] EXCEPT !.state = "queued", !.temp = {}, !.receiver = "lost"]
  <2>1. /\ r \in Attempt /\ r.state = "queued" /\ r.receiver = "lost"
        /\ attempt' = [attempt EXCEPT ![a] = r]
      BY <1>1, <1>4 DEF Attempt, Inv, Types
  <2> HIDE DEF r
  <2>2. ObjectKept(r)
      BY <2>1 DEF ObjectKept
  <2> QED
      BY <1>1, <1>4, <2>1, <2>2, Receives
<1> QED
    BY <1>3, <1>4 DEF FinalizeFails

LEMMA ProcessKeeps ==
  ASSUME Inv, NEW w \in Workers, Process(w) PROVE Inv'
<1>1. PICK f \in Files : f = exec[w].file
    BY ExecStarted DEF Process
<1>2. PICK a \in Attempts : a = <<exec[w].file, exec[w].try>>
    BY ExecStarted DEF Process
<1>3. /\ exec[w].phase = "run" /\ file[f] = [state |-> "queued", current |-> exec[w].try]
      /\ attempt[Current(f)].state = "queued" /\ "object" \in attempt[a].temp
      /\ batch \in {"queued", "processing", "cancelling"}
      /\ attempt' = [attempt EXCEPT ![a].state = "succeeded"]
      /\ file' = FilesWith(f, "succeeded") /\ batch' = Reconciled(Counts(file'), batch)
      /\ exec' = [exec EXCEPT ![w].phase = "applied"]
      /\ UNCHANGED <<job, sweeper, retry, pending, faults>>
    BY <1>1, <1>2 DEF Process, MarkSucceeded, Fresh
<1>4. a = Current(f) /\ attempt[a].state = "queued" /\ file[f].state = "queued"
    BY <1>1, <1>2, <1>3 DEF Current
<1>5. batch \in {"queued", "processing"}
    BY <1>3, <1>4 DEF Inv, BatchAgrees, ActiveFile
<1> DEFINE r == [attempt[a] EXCEPT !.state = "succeeded"]
<1>6. /\ r \in Attempt /\ r.state = "succeeded" /\ attempt' = [attempt EXCEPT ![a] = r]
    BY <1>3 DEF Inv, Types, Attempt, Terminal
<1> HIDE DEF r
<1>7. ObjectKept(r) /\ r.state \in Matches["succeeded"]
    BY <1>6 DEF ObjectKept, Matches
<1>8. /\ file' \in [Files -> File] /\ attempt' \in [Attempts -> Attempt]
      /\ FilesAgree' /\ ObjectsKept'
      /\ attempt'[a] = r /\ \A b \in Attempts \ {a} : attempt'[b] = attempt[b]
      /\ file'[f].state = "succeeded"
      /\ \A g \in Files \ {f} : file'[g] = file[g]
      /\ \A g \in Files : file'[g].current = file[g].current
  <2>1. "succeeded" \in ActiveFile \union Discarded \union {"succeeded"}
      OBVIOUS
  <2>2. batch # "absent" /\ file' = FilesWith(f, "succeeded")
      BY <1>3, <1>5
  <2> QED
      BY <1>4, <1>6, <1>7, <2>1, <2>2, OneFile
<1>9. /\ batch' \in Batch \ {"absent", "uploading", "queued"}
      /\ (\E g \in Files : file'[g].state \in ActiveFile) => batch' = "processing"
  <2>1. /\ Counts(file') \in Verdict
        /\ Counts(file') = "active" <=> \E g \in Files : file'[g].state \in ActiveFile
      BY <1>8, CountsIs
  <2> QED
      BY <1>3, <1>5, <2>1, ReconciledIs
<1>10. /\ exec' \in [Workers -> Execution] /\ exec'[w].phase = "applied"
       /\ exec'[w].file = exec[w].file /\ exec'[w].try = exec[w].try
       /\ exec'[w].phase # "failing"
       /\ \A v \in Workers \ {w} : exec'[v] = exec[v]
    BY <1>3 DEF Inv, Types, Execution
<1>11. Types' /\ Blank'
    BY <1>3, <1>8, <1>9, <1>10 DEF Inv, Types, Blank
<1>12. BatchAgrees' /\ Collected'
    BY <1>9 DEF BatchAgrees, Collected
<1>13. JobsAgree'
  <2>1. \A g \in Files :
          /\ file'[g].state = "uploading" => file[g].state = "uploading"
          /\ file'[g].state = "queued" => file[g].state \in {"queued", "uploading"}
      BY <1>8
  <2> QED
      BY <1>3, <1>8, <1>9, <2>1, JobsStay
<1>14. ASSUME NEW v \in Workers PROVE ExecutesSoundly(v)'
  <2>1. ExecutesSoundly(v) /\ ExecutesSoundly(w)
      BY DEF Inv, WorkersAgree
  <2>2. CASE v = w
      BY <1>1, <1>2, <1>3, <1>6, <1>8, <1>10, <2>1, <2>2 DEF ExecutesSoundly, Owns
  <2>3. CASE v # w /\ exec[v].phase # "idle"
    <3>1. <<exec[v].file, exec[v].try>> \in Attempts
        BY <2>3, ExecStarted
    <3>2. attempt[<<exec[v].file, exec[v].try>>].state = "succeeded"
          => attempt'[<<exec[v].file, exec[v].try>>].state = "succeeded"
        BY <1>6, <1>8, <3>1
    <3> QED
        BY <1>3, <1>10, <2>1, <2>3, <3>2 DEF ExecutesSoundly, Owns
  <2>4. CASE v # w /\ exec[v].phase = "idle"
      BY <1>10, <2>4 DEF ExecutesSoundly
  <2> QED
      BY <2>2, <2>3, <2>4
<1>15. CountsAgree'
  <2>1. \A g \in Files :
          /\ file[g].state = "succeeded" => file'[g].state = "succeeded"
          /\ file'[g].state \in ActiveFile => file'[g] = file[g]
      BY <1>8 DEF ActiveFile
  <2> QED
      BY <1>10, <2>1, CountsStay
<1> QED
    BY <1>8, <1>11, <1>12, <1>13, <1>14, <1>15 DEF Inv, WorkersAgree

(* The failure counts under its lock, and writes nothing yet. *)
LEMMA BeginFailKeeps ==
  ASSUME Inv, NEW w \in Workers, BeginFail(w) PROVE Inv'
<1>1. PICK f \in Files : f = exec[w].file
    BY ExecStarted DEF BeginFail, Fails
<1>2. batch # "absent" /\ file[f] \in File
    BY ExecStarted, CurrentIs DEF BeginFail, Fails
<1> DEFINE files == FailedFile(f)
<1>3. /\ files \in [Files -> File]
      /\ \A g \in Files : Remaining(f, g) => files[g].state \in ActiveFile
      /\ \A g \in Files : files[g].state = "succeeded" => file[g].state = "succeeded"
  <2>1. file \in [Files -> File]
      BY DEF Inv, Types
  <2>2. CASE file[f].state = "queued"
    <3>1. files = FilesWith(f, "failed")
        BY <2>2 DEF FailedFile
    <3>2. /\ FilesWith(f, "failed") \in [Files -> File]
          /\ FilesWith(f, "failed")[f].state = "failed"
          /\ \A g \in Files \ {f} : FilesWith(f, "failed")[g] = file[g]
        BY <2>1 DEF FilesWith, File, Discarded
    <3> QED
        BY <2>2, <3>1, <3>2 DEF Remaining
  <2>3. CASE file[f].state # "queued"
      BY <2>1, <2>3 DEF FailedFile, Remaining, ActiveFile
  <2> QED
      BY <2>2, <2>3
<1> HIDE DEF files
<1>4. PICK counts \in Verdict : counts = Counts(files)
    BY <1>3, CountsIs
<1> DEFINE x == [exec[w] EXCEPT !.phase = "failing", !.counts = counts]
<1>5. /\ x \in Execution /\ x.phase = "failing" /\ x.counts = counts
      /\ x.file = f /\ x.try = exec[w].try
      /\ exec' = [exec EXCEPT ![w] = x]
  <2>1. exec[w] \in Execution
      BY DEF Inv, Types
  <2>2. exec' = [exec EXCEPT ![w].phase = "failing", ![w].counts = counts]
      BY <1>1, <1>4 DEF BeginFail, files
  <2> QED
      BY <1>1, <2>1, <2>2 DEF Execution, Inv, Types
<1> HIDE DEF x
<1>6. /\ exec' \in [Workers -> Execution] /\ exec'[w] = x
      /\ \A v \in Workers \ {w} : exec'[v] = exec[v]
    BY <1>5 DEF Inv, Types
<1>7. UNCHANGED <<batch, file, attempt, job, sweeper, retry, pending, faults>>
    BY DEF BeginFail
<1>8. Counted(x)
    BY <1>3, <1>4, <1>5, CountsIs DEF Counted
<1>9. CountsAgree'
    BY <1>6, <1>7, <1>8 DEF Inv, CountsAgree, Counted, Remaining
<1>10. ASSUME NEW v \in Workers PROVE ExecutesSoundly(v)'
  <2>1. ExecutesSoundly(v) /\ exec[w].phase = "error"
      BY DEF Inv, WorkersAgree, BeginFail, Fails
  <2> QED
      BY <1>1, <1>5, <1>6, <1>7, <2>1 DEF ExecutesSoundly, Owns
<1>11. job' \in [Files -> JobRow] /\ retry' \in Files \union {NoFile}
    BY <1>7 DEF Inv, Types
<1> QED
    BY <1>2, <1>6, <1>7, <1>9, <1>10, <1>11, JobMoves DEF WorkersAgree

(* A failure that finds no attempt leaves the job behind. *)
LEMMA FailJobOnlyKeeps ==
  ASSUME Inv, NEW w \in Workers, FailJobOnly(w) PROVE Inv'
<1>1. PICK f \in Files : f = exec[w].file
    BY ExecStarted DEF FailJobOnly, Fails
<1>2. batch # "absent" /\ retry' \in Files \union {NoFile}
    BY ExecStarted DEF FailJobOnly, Fails, Inv, Types
<1> DEFINE r == Given(job[f], "failed", NoWorker, "none")
<1>3. /\ r \in JobRow /\ r.try = job[f].try /\ r.state = "failed"
      /\ job' = [job EXCEPT ![f] = r] /\ job[f].state = "running"
    BY <1>1, GivenFields DEF FailJobOnly, Fails, Owns, Failed, Given
<1> HIDE DEF r
<1>4. job' \in [Files -> JobRow] /\ job'[f] = r /\ \A g \in Files \ {f} : job'[g] = job[g]
  <2>1. job \in [Files -> JobRow]
      BY DEF Inv, Types
  <2> QED
      BY <1>3, <2>1
<1>5. ASSUME NEW g \in Files
      PROVE  /\ job'[g].try = job[g].try
             /\ job'[g].state = "absent" <=> job[g].state = "absent"
             /\ job'[g].state \in Alive \union {job[g].state}
             /\ job'[g].state = "running" /\ job'[g].lease = "live" => job'[g] = job[g]
    BY <1>3, <1>4 DEF Alive
<1> QED
    BY <1>2, <1>4, <1>5, GoesIdle, JobsReleased DEF FailJobOnly

LEMMA EndFailKeeps ==
  ASSUME Inv, NEW w \in Workers, EndFail(w) PROVE Inv'
<1>1. PICK f \in Files : f = exec[w].file
    BY ExecStarted DEF EndFail
<1>2. batch # "absent"
    BY ExecStarted DEF EndFail
<1>a. PICK counts \in Verdict : counts = exec[w].counts
    BY DEF EndFail, Inv, CountsAgree, Counted
<1>3. PICK a \in Attempts : a = Current(f)
    BY CurrentIs
<1>4. /\ job' = [job EXCEPT ![f] = Given(job[f], "failed", NoWorker, "none")]
      /\ attempt' = IF attempt[a].state = "queued"
                    THEN [attempt EXCEPT ![a].state = "failed"] ELSE attempt
      /\ file' = FailedFile(f) /\ batch' = Reconciled(counts, batch)
      /\ exec' = [exec EXCEPT ![w] = Idle]
      /\ UNCHANGED <<sweeper, retry, pending, faults>>
    BY <1>1, <1>3, <1>a DEF EndFail, Failed, Given
<1>5. /\ attempt[a].state \in Matches[file[f].state] /\ file[f] \in File
      /\ attempt[a] \in Attempt /\ ObjectKept(attempt[a])
    BY <1>2, <1>3, CurrentIs DEF Inv, Types, ObjectsKept
<1>6. attempt[a].state = "queued" <=> file[f].state = "queued"
    BY <1>5 DEF Matches, File, ActiveFile, Discarded
<1>7. /\ job' \in [Files -> JobRow] /\ job'[f].state = "failed" /\ job'[f].try = job[f].try
      /\ \A g \in Files \ {f} : job'[g] = job[g]
  <2>1. job \in [Files -> JobRow]
      BY DEF Inv, Types
  <2> QED
      BY <1>4, <2>1, GivenFields
<1>8. /\ file' \in [Files -> File] /\ attempt' \in [Attempts -> Attempt]
      /\ FilesAgree' /\ ObjectsKept'
      /\ \A b \in Attempts : attempt[b].state = "succeeded" => attempt'[b].state = "succeeded"
      /\ file'[f].state # "queued"
      /\ \A g \in Files : /\ file'[g].current = file[g].current
                          /\ file'[g].state \in {file[g].state, "failed"}
  <2>1. CASE file[f].state = "queued"
    <3> DEFINE r == [attempt[a] EXCEPT !.state = "failed"]
    <3>1. /\ r \in Attempt /\ r.state = "failed" /\ attempt' = [attempt EXCEPT ![a] = r]
        BY <1>4, <1>5, <1>6, <2>1 DEF Attempt, Terminal, Discarded, Inv, Types
    <3> HIDE DEF r
    <3>2. ObjectKept(r) /\ r.state \in Matches["failed"] /\ file' = FilesWith(f, "failed")
        BY <1>4, <2>1, <3>1 DEF ObjectKept, Matches, FailedFile
    <3>3. /\ file' \in [Files -> File] /\ attempt' \in [Attempts -> Attempt]
          /\ FilesAgree' /\ ObjectsKept'
          /\ attempt'[a] = r /\ \A b \in Attempts \ {a} : attempt'[b] = attempt[b]
          /\ file'[f].state = "failed"
          /\ \A g \in Files \ {f} : file'[g] = file[g]
          /\ \A g \in Files : file'[g].current = file[g].current
        BY <1>2, <1>3, <3>1, <3>2, OneFile DEF Discarded
    <3> QED
        BY <1>6, <2>1, <3>3
  <2>2. CASE file[f].state # "queued"
    <3>1. file' = file /\ attempt' = attempt
        BY <1>4, <1>6, <2>2 DEF FailedFile
    <3> QED
        BY <1>2, <2>2, <3>1 DEF Inv, Types, FilesAgree, Matches, ObjectsKept
  <2> QED
      BY <2>1, <2>2
<1>9. /\ batch' \in Batch \ {"absent", "uploading", "queued"}
      /\ batch # "cancelling" => batch' = IF counts = "active" THEN "processing" ELSE counts
    BY <1>4, ReconciledIs
<1>b. \A g \in Files : file'[g].state \in ActiveFile =>
        /\ batch # "cancelling" /\ Remaining(f, g)
        /\ file'[g].current = file[g].current /\ file[g].state # "succeeded"
    BY <1>2, <1>8 DEF Inv, BatchAgrees, ActiveFile, Remaining
<1>10. Types' /\ Blank'
    BY <1>4, <1>7, <1>8, <1>9, GoesIdle DEF Inv, Types, Blank
<1>11. BatchAgrees' /\ Collected'
  <2>1. Counted(exec[w]) /\ exec[w].phase = "failing"
      BY DEF EndFail, Inv, CountsAgree
  <2>2. ASSUME NEW g \in Files, file'[g].state \in ActiveFile
        PROVE  /\ batch' \in {"processing", "failed", "partially_succeeded"}
               /\ batch' \in {"failed", "partially_succeeded"} => file'[g].current > 1
      BY <1>1, <1>9, <1>a, <1>b, <2>1, <2>2 DEF Counted, Verdict
  <2> QED
      BY <1>9, <2>2 DEF BatchAgrees, Collected
<1>12. ASSUME NEW g \in Files
       PROVE  /\ job'[g].try <= file'[g].current
              /\ file'[g].state = "uploading" => ~Assigned(g)'
              /\ file'[g].state = "queued" /\ Assigned(g)' => job'[g].state \in Alive
              /\ file'[g].state = "queued" /\ batch' = "queued" => Assigned(g)'
  <2>1. job[f].state # "absent"
      BY <1>1 DEF EndFail, Inv, WorkersAgree, ExecutesSoundly
  <2>2. Assigned(g)' <=> Assigned(g)
      BY <1>7, <1>8, <2>1 DEF Assigned
  <2>3. job'[g].state \in Alive \union {job[g].state}
      BY <1>7 DEF Alive
  <2>4. file'[g].state \in {"uploading", "queued"} => file'[g].state = file[g].state
      BY <1>8
  <2>5. job'[g].try = job[g].try
      BY <1>7
  <2>6. /\ job[g].try <= file[g].current
        /\ file[g].state = "uploading" => ~Assigned(g)
        /\ file[g].state = "queued" /\ Assigned(g) => job[g].state \in Alive
      BY DEF Inv, JobsAgree
  <2> QED
      BY <1>8, <1>9, <2>2, <2>3, <2>4, <2>5, <2>6
<1>13. JobsAgree'
    BY <1>12 DEF JobsAgree
<1>14. ASSUME NEW v \in Workers PROVE ExecutesSoundly(v)'
  <2>1. ExecutesSoundly(v)
      BY DEF Inv, WorkersAgree
  <2>2. CASE v = w \/ exec[v].phase = "idle"
      BY <1>4, <2>2, GoesIdle, IdleIs DEF ExecutesSoundly
  <2>3. CASE v # w /\ exec[v].phase # "idle"
    <3>1. exec'[v] = exec[v] /\ exec[v].file \in Files
          /\ <<exec[v].file, exec[v].try>> \in Attempts
        BY <1>4, <2>3, GoesIdle, ExecStarted
    <3>2. /\ Owns(v)' => Owns(v) /\ job'[exec[v].file].try = job[exec[v].file].try
          /\ job[exec[v].file].state # "absent" => job'[exec[v].file].state # "absent"
        BY <1>7, <3>1 DEF Owns
    <3> QED
        BY <1>8, <2>1, <2>3, <3>1, <3>2 DEF ExecutesSoundly
  <2> QED
      BY <2>2, <2>3
<1>15. CountsAgree'
  <2>1. \A g \in Files :
          /\ file[g].state = "succeeded" => file'[g].state = "succeeded"
          /\ file'[g].state \in ActiveFile => file'[g].state = file[g].state
      BY <1>4, <1>8, <1>b DEF ActiveFile, FailedFile, FilesWith
  <2>2. \A v \in Workers : exec'[v].phase = "failing" => exec'[v] = exec[v]
      BY <1>4, GoesIdle, IdleIs
  <2> QED
      BY <1>8, <2>1, <2>2, CountsStay
<1> QED
    BY <1>8, <1>10, <1>11, <1>13, <1>14, <1>15 DEF Inv, WorkersAgree

-----------------------------------------------------------------------------
LEMMA WorkKeeps ==
  ASSUME Inv, NEW w \in Workers, Work(w)
  PROVE  Inv'
<1>1. ASSUME NEW f \in Files, Claim(w, f) PROVE Inv'
    BY <1>1, ClaimKeeps
<1>2. CASE ClaimNothing(w)
    BY <1>2, ClaimNothingKeeps
<1>3. CASE Process(w)
    BY <1>3, ProcessKeeps
<1>4. CASE Err(w)
    BY <1>4, ErrKeeps
<1>5. CASE RemoveRaw(w)
    BY <1>5, RemoveRawKeeps
<1>6. CASE Finish(w)
    BY <1>6, FinishKeeps
<1>7. CASE TryAgain(w)
    BY <1>7, TryAgainKeeps
<1>8. CASE BeginFail(w) \/ EndFail(w) \/ FailJobOnly(w)
    BY <1>8, BeginFailKeeps, EndFailKeeps, FailJobOnlyKeeps
<1>9. CASE LoseLease(w)
    BY <1>9, LeaveKeeps DEF LoseLease
<1>10. CASE Vanish(w)
    BY <1>10, LeaveKeeps DEF Vanish
<1> QED
    BY <1>1, <1>2, <1>3, <1>4, <1>5, <1>6, <1>7, <1>8, <1>9, <1>10 DEF Work

LEMMA ReceiveKeeps ==
  ASSUME Inv, NEW a \in Attempts, Receive(a) \/ RemoveCancelled(a)
  PROVE  Inv'
BY ClaimAttemptKeeps, OpenPartKeeps, DeliverKeeps, InterruptKeeps, RecordFailureKeeps,
   FailureUnrecordedKeeps, FinalizeKeeps, RefuseFinalKeeps, FinalizeFailsKeeps, DieKeeps,
   RemoveCancelledKeeps DEF Receive

LEMMA SweepKeeps ==
  ASSUME Inv, Sweep
  PROVE  Inv'
<1>1. CASE ExpireDue
    BY <1>1, ExpireDueKeeps
<1>2. CASE AbandonSweep
  <2>1. batch # "absent" /\ retry' \in Files \union {NoFile}
      BY <1>2, QueueStarted DEF AbandonSweep, Inv, Types
  <2> QED
      BY <1>2, <2>1, TurnKeeps DEF AbandonSweep
<1>3. ASSUME NEW a \in Attempts, SweepObject(a) \/ SweepPart(a) PROVE Inv'
    BY <1>3, SweepObjectKeeps, SweepPartKeeps
<1> QED
    BY <1>1, <1>2, <1>3 DEF Sweep

LEMMA RequestsKeep ==
  ASSUME Inv, Requests
  PROVE  Inv'
<1>1. CASE CreateBatch \/ CompleteBatch \/ CancelBatch
    BY <1>1, CreateBatchKeeps, CompleteBatchKeeps, CancelBatchKeeps
<1>2. CASE ScheduleDeletion \/ CancelDeletion
    BY <1>2, ScheduleDeletionKeeps, CancelDeletionKeeps
<1>3. ASSUME NEW f \in Files, BeginRetry(f) PROVE Inv'
    BY <1>3, TurnKeeps DEF BeginRetry, Open
<1>4. ASSUME NEW f \in Files, FinishRetry(f) PROVE Inv'
    BY <1>4, FinishRetryKeeps
<1>5. ASSUME NEW f \in Files, RefuseRetry(f) PROVE Inv'
  <2>1. batch # "absent"
      BY <1>5, UploadsAssumption, QueueStarted DEF RefuseRetry
  <2> QED
      BY <1>5, <2>1, TurnKeeps DEF RefuseRetry
<1>6. ASSUME NEW f \in Files, RetryJob(f) PROVE Inv'
    BY <1>6, RetryJobKeeps
<1> QED
    BY <1>1, <1>2, <1>3, <1>4, <1>5, <1>6 DEF Requests

LEMMA InitKeeps == Init => Inv
<1> SUFFICES ASSUME Init PROVE Inv
    OBVIOUS
<1>1. /\ NoAttempt \in Attempt /\ NoAttempt.state = "absent"
      /\ NoJob \in JobRow /\ NoJob.state = "absent" /\ NoJob.try = 1
    BY UploadsAssumption DEF NoAttempt, Attempt, NoJob, JobRow, Tries
<1>2. Types
    BY <1>1, IdleIs, UploadsAssumption DEF Init, Types, File, ActiveFile, Tries, Batch
<1>3. Blank /\ FilesAgree /\ BatchAgrees /\ Collected
    BY DEF Init, Blank, FilesAgree, BatchAgrees, Collected
<1>4. ObjectsKept
    BY <1>1 DEF Init, ObjectsKept, ObjectKept
<1>5. JobsAgree /\ WorkersAgree /\ CountsAgree
    BY <1>1, IdleIs DEF Init, JobsAgree, Assigned, WorkersAgree, ExecutesSoundly,
                        CountsAgree, Counted
<1> QED
    BY <1>2, <1>3, <1>4, <1>5 DEF Inv

THEOREM InvHolds == Spec => []Inv
<1>1. Inv /\ [Next]_vars => Inv'
  <2> SUFFICES ASSUME Inv, [Next]_vars PROVE Inv'
      OBVIOUS
  <2>1. CASE Requests
      BY <2>1, RequestsKeep
  <2>2. ASSUME NEW a \in Attempts, Receive(a) \/ RemoveCancelled(a) PROVE Inv'
      BY <2>2, ReceiveKeeps
  <2>3. CASE Sweep
      BY <2>3, SweepKeeps
  <2>4. ASSUME NEW w \in Workers, Work(w) PROVE Inv'
      BY <2>4, WorkKeeps
  <2>5. ASSUME NEW f \in Files, LeaseExpires(f) PROVE Inv'
      BY <2>5, LeaseExpiresKeeps
  <2>6. CASE UNCHANGED vars
      BY <2>6 DEF vars, Inv, Types, Blank, FilesAgree, Matches, BatchAgrees, Collected,
                  ObjectsKept, JobsAgree, Assigned, WorkersAgree, ExecutesSoundly, Owns,
                  CountsAgree, Counted, Remaining
  <2> QED
      BY <2>1, <2>2, <2>3, <2>4, <2>5, <2>6 DEF Next
<1> QED
    BY <1>1, InitKeeps, PTL DEF Spec

(* Batch, file and attempt never contradict each other, whatever streams,
   retries, cancellations, expiries and failing jobs do in which order. *)
THEOREM BooksAgreeHolds == Spec => []BooksAgree
<1>1. Inv => BooksAgree
    BY DEF Inv, BooksAgree
<1> QED
    BY <1>1, InvHolds, PTL

(* A received file has its object until it is processed, unless a receiver
   mistook its commit for a failed one. *)
THEOREM ReceivedKeptHolds == Spec => []ReceivedKept
<1>1. Inv => ReceivedKept
  <2> SUFFICES ASSUME Inv, NEW f \in Files, file[f].state = "queued"
               PROVE  "object" \in attempt[Current(f)].temp
                      \/ attempt[Current(f)].receiver = "lost"
      BY DEF ReceivedKept
  <2>1. CASE batch = "absent"
      BY <2>1 DEF Inv, Blank
  <2>2. CASE batch # "absent"
    <3>1. Current(f) \in Attempts /\ attempt[Current(f)].state = "queued"
        BY <2>2, CurrentIs DEF Matches
    <3> QED
        BY <3>1 DEF Inv, ObjectsKept, ObjectKept
  <2> QED
      BY <2>1, <2>2
<1> QED
    BY <1>1, InvHolds, PTL

(* A file that is queued under a job of its attempt has that job, which is not
   over; a batch that is queued has given each of its files one. *)
THEOREM QueuedOwedHolds == Spec => []QueuedOwed
<1>1. Inv => QueuedOwed
    BY DEF Inv, JobsAgree, QueuedOwed, Alive
<1> QED
    BY <1>1, InvHolds, PTL
=============================================================================
