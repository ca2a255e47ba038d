---------------------------- MODULE PrimarySource ----------------------------
(***************************************************************************)
(* Changing the primary source language of a project: the transaction that *)
(* accepts the change, the lexical reindex job that recomputes every       *)
(* entry's source text, the embedding job it spawns, the background sweep  *)
(* that embeds single entries, and the states of the project that search   *)
(* and the next change depend on.  The queue is reduced to what the jobs   *)
(* of one live project need of it (JobQueue has the whole of it).          *)
(*                                                                         *)
(* A source text is a pair <<revision of the entry's originals, primary    *)
(* source>>; a batch is one entry.  The languages of the project have been *)
(* repaired, unless LanguageRepair says otherwise.                         *)
(***************************************************************************)
EXTENDS Integers, FiniteSets, FiniteSetsExt

CONSTANTS
  Workers, NoJob, NoWorker, NoText, NoTotal,
  LastJob,       \* job ids are 1..LastJob, given out in order
  LastEntry,     \* entry ids are 1..LastEntry, given out in order
  Uploaded,      \* how many entries the project starts with
  LangSets,      \* the sets of languages in which an upload may bring an entry
  Budget,        \* max_attempts of both kinds
  RetryCap,      \* bound: no manual retry of a row with this many attempts
  MaxChanges,    \* bound: changes of the primary source
  MaxEdits,      \* bound: revisions of one entry's originals
  MaxFaults      \* bound: crashes, errors and stalls altogether

VARIABLES
  project,  \* the projects row
  job,      \* Jobs -> row of table jobs
  entry,    \* Entries -> row of table entries
  exec,     \* Workers -> the handler a worker executes
  sweep,    \* the row the embedding sweep has read and not yet written
  faults

vars == <<project, job, entry, exec, sweep, faults>>

Entries == 1..LastEntry
Jobs == 1..LastJob
Languages == 0..MaxChanges
Kinds == {"lexical", "embedding", "repair"}
Active == {"queued", "running"}
Phases == {"idle", "scan", "spawn", "insert", "begin", "write", "ready", "done",
           "error", "rejected", "load", "read", "repair", "finish", "flag", "unresolved"}

ASSUME ConstantsOK ==
  /\ NoJob \notin Jobs
  /\ NoWorker \notin Workers
  /\ NoText \notin (0..MaxEdits) \X (0..MaxChanges)
  /\ NoTotal \notin Nat
  /\ LangSets \subseteq SUBSET (0..MaxChanges)
  /\ LastEntry \in Nat /\ LastJob \in Nat
  /\ Uploaded \in 0..LastEntry
  /\ Budget \in Nat \ {0}
  /\ RetryCap \in Nat /\ MaxChanges \in Nat /\ MaxEdits \in Nat /\ MaxFaults \in Nat

Texts == (0..MaxEdits) \X Languages

Project ==
  [lang: Languages, cooling: BOOLEAN,
   repair: {"ready", "repairing", "needs"}, repairJob: Jobs \union {NoJob},
   lexical: {"pending", "ready", "rebuilding", "failed"}, lexicalJob: Jobs \union {NoJob},
   embedding: {"pending", "running", "ready", "degraded", "failed"},
   embeddingJob: Jobs \union {NoJob}]

Row ==
  [kind: Kinds, state: Active \union {"absent", "succeeded", "failed"},
   attempts: Nat, max: Nat, worker: Workers \union {NoWorker},
   lease: {"none", "live", "expired"},
   cursor: 0..LastEntry, done: Nat, total: Nat \union {NoTotal}]

Entry ==
  [present: BOOLEAN, edits: 0..MaxEdits, langs: SUBSET Languages,
   text: Texts \union {NoText}, vector: Texts \union {NoText}]

Execution ==
  [phase: Phases, job: Jobs \union {NoJob}, cursor: 0..LastEntry, done: Nat,
   chunk: Texts \union {NoText}]

-----------------------------------------------------------------------------
(* Entries: the trigger entries_search_maintain recomputes the source text at
   every write, whatever is written, and drops the vector of a text that
   changed; it refuses an entry without the primary source. *)

Ready == project.repair = "ready"
Accepted(r) == Ready => project.lang \in r.langs

Written(r) ==
  LET text == IF Ready THEN <<r.edits, project.lang>> ELSE NoText
  IN [r EXCEPT !.text = text, !.vector = IF Ready /\ text = r.text THEN @ ELSE NoText]

Blank == [present |-> TRUE, edits |-> 0, langs |-> {}, text |-> NoText, vector |-> NoText]

Present == {e \in Entries : entry[e].present}

(* An upload inserts the next entry; its transaction holds the project row. *)
AddEntry(e, langs) ==
  LET r == [Blank EXCEPT !.langs = langs]
  IN /\ Ready
     /\ ~entry[e].present
     /\ \A d \in 1..(e - 1) : entry[d].present
     /\ Accepted(r)
     /\ entry' = [entry EXCEPT ![e] = Written(r)]
     /\ UNCHANGED <<project, job, exec, sweep, faults>>

SaveEntry(e) ==
  /\ Ready
  /\ entry[e].present /\ Accepted(entry[e])
  /\ entry' = [entry EXCEPT ![e] = Written(@)]
  /\ UNCHANGED <<project, job, exec, sweep, faults>>

(* An upload that brings new originals. *)
ReplaceOriginals(e, langs) ==
  LET r == [entry[e] EXCEPT !.edits = @ + 1, !.langs = langs]
  IN /\ Ready
     /\ entry[e].present /\ entry[e].edits < MaxEdits
     /\ Accepted(r)
     /\ entry' = [entry EXCEPT ![e] = Written(r)]
     /\ UNCHANGED <<project, job, exec, sweep, faults>>

-----------------------------------------------------------------------------
(* Requests *)

Absent(j) == job[j].state = "absent" /\ \A i \in 1..(j - 1) : job[i].state # "absent"

NewRow(k, total) ==
  [kind |-> k, state |-> "queued", attempts |-> 0, max |-> Budget,
   worker |-> NoWorker, lease |-> "none", cursor |-> 0, done |-> 0,
   total |-> total]

(* Slip: a rebuild that already runs does not block the next change. *)
BlocksQueued(j) == j # NoJob /\ job[j].state \in {"queued", "failed"}

(* rebuild_state_blocks_change *)
Blocks(j) == j # NoJob /\ job[j].state \in Active \union {"failed"}

(* Nothing asks whether the entries have the new language. *)
ChangePrimary(j) ==
  /\ Absent(j)
  /\ Ready
  /\ project.lang < MaxChanges
  /\ ~project.cooling
  /\ ~Blocks(project.lexicalJob)
  /\ ~Blocks(project.embeddingJob)
  /\ job' = [job EXCEPT ![j] = NewRow("lexical", Cardinality(Present))]
  /\ project' = [project EXCEPT
                   !.lang = @ + 1, !.cooling = TRUE,
                   !.lexical = "rebuilding", !.lexicalJob = j,
                   !.embedding = "pending", !.embeddingJob = NoJob]
  /\ UNCHANGED <<entry, exec, sweep, faults>>

(* What a manual retry makes of the project. *)
Restarted(j) ==
  IF project.lexicalJob = j THEN [project EXCEPT !.lexical = "rebuilding"]
  ELSE IF project.embeddingJob = j THEN [project EXCEPT !.embedding = "running"]
  ELSE project

Retried(r) == [r EXCEPT !.state = "queued", !.attempts = @ + 1,
                        !.max = Max({@, r.attempts + 2})]

(* The failed repair of the languages has a route of its own. *)
ManualRetry(j) ==
  /\ job[j].state = "failed" /\ job[j].kind # "repair"
  /\ job[j].attempts < RetryCap
  /\ job' = [job EXCEPT ![j] = Retried(@)]
  /\ project' = Restarted(j)
  /\ UNCHANGED <<entry, exec, sweep, faults>>

-----------------------------------------------------------------------------
(* The worker loop *)

Idle == [phase |-> "idle", job |-> NoJob, cursor |-> 0, done |-> 0,
         chunk |-> NoText]

(* Slip: only queued jobs are claimed. *)
ClaimableQueued(r) == r.state = "queued"

Claimable(r) == r.state = "queued" \/ (r.state = "running" /\ r.lease = "expired")

Released(r, state) ==
  [r EXCEPT !.state = state, !.worker = NoWorker, !.lease = "none"]

(* The rows after the claim has failed the exhausted ones; it touches no
   other table. *)
Swept ==
  [j \in Jobs |-> IF Claimable(job[j]) /\ job[j].attempts >= job[j].max
                  THEN Released(job[j], "failed") ELSE job[j]]

FirstPhase == [lexical |-> "scan", embedding |-> "begin", repair |-> "load"]

(* The handler resumes behind the cursor the row records. *)
Handed(j) ==
  [phase |-> FirstPhase[job[j].kind],
   job |-> j, cursor |-> job[j].cursor, done |-> job[j].done, chunk |-> NoText]

Leased(r, w) ==
  [r EXCEPT !.state = "running", !.worker = w, !.lease = "live", !.attempts = @ + 1]

Claim(w, j) ==
  /\ exec[w].phase = "idle"
  /\ Claimable(job[j]) /\ job[j].attempts < job[j].max
  /\ job' = [Swept EXCEPT ![j] = Leased(@, w)]
  /\ exec' = [exec EXCEPT ![w] = Handed(j)]
  /\ UNCHANGED <<project, entry, sweep, faults>>

ClaimNothing(w) ==
  /\ exec[w].phase = "idle"
  /\ \A j \in Jobs : ~(Claimable(job[j]) /\ job[j].attempts < job[j].max)
  /\ job' = Swept
  /\ UNCHANGED <<project, entry, exec, sweep, faults>>

Owns(w) ==
  LET r == job[exec[w].job]
  IN r.state = "running" /\ r.worker = w /\ r.lease = "live"

LoseLease(w) ==
  /\ exec[w].phase # "idle"
  /\ ~Owns(w)
  /\ exec' = [exec EXCEPT ![w] = Idle]
  /\ UNCHANGED <<project, job, entry, sweep, faults>>

Succeeded(r) ==
  [Released(r, "succeeded") EXCEPT !.done = IF r.total = NoTotal THEN @ ELSE r.total]

Complete(w) ==
  LET j == exec[w].job
  IN /\ exec[w].phase = "done"
     /\ job' = IF Owns(w) THEN [job EXCEPT ![j] = Succeeded(@)] ELSE job
     /\ exec' = [exec EXCEPT ![w] = Idle]
     /\ UNCHANGED <<project, entry, sweep, faults>>

(* What a final failure makes of the project. *)
FailedStage(j) ==
  IF project.lexicalJob = j THEN [project EXCEPT !.lexical = "failed"]
  ELSE IF project.embeddingJob = j THEN [project EXCEPT !.embedding = "failed"]
  ELSE project

(* An error can be retried; languages that wait for the owner cannot. *)
FailAttempt(w) ==
  LET j == exec[w].job
      again == exec[w].phase # "unresolved" /\ job[j].attempts < job[j].max
  IN /\ exec[w].phase \in {"error", "rejected", "unresolved"}
     /\ IF Owns(w)
        THEN /\ job' = [job EXCEPT ![j] =
                          Released(@, IF again THEN "queued" ELSE "failed")]
             /\ project' = IF again THEN project ELSE FailedStage(j)
        ELSE UNCHANGED <<job, project>>
     /\ exec' = [exec EXCEPT ![w] = Idle]
     /\ UNCHANGED <<entry, sweep, faults>>

-----------------------------------------------------------------------------
(* The lexical handler *)

Goto(w, phase) == exec' = [exec EXCEPT ![w] = [@ EXCEPT !.phase = phase]]

Beyond(c) == {e \in Present : e > c}
First(S) == {e \in S : \A d \in S : e <= d}

(* CHECK jobs_progress_chk aborts the transaction of the batch. *)
Overflows(w) ==
  job[exec[w].job].total # NoTotal /\ exec[w].done + 1 > job[exec[w].job].total

(* The row is not fenced. *)
Record(w, e, phase) ==
  LET j == exec[w].job
      n == exec[w].done + 1
  IN /\ job' = [job EXCEPT ![j] = [@ EXCEPT !.cursor = e, !.done = n]]
     /\ exec' = [exec EXCEPT ![w] =
          [@ EXCEPT !.phase = phase, !.cursor = e, !.done = n, !.chunk = NoText]]

(* Slip: the cursor is recorded as the entry to read next, and read as the
   last entry done. *)
AdvanceBeyond(w, e, phase) ==
  LET next == Min({LastEntry, e + 1})
  IN Record(w, next, phase)

(* The handler and its row record the last entry of the batch. *)
Advance(w, e, phase) == Record(w, e, phase)

LexicalBatch(w) ==
  /\ exec[w].phase = "scan"
  /\ job[exec[w].job].kind = "lexical"
  /\ \/ Beyond(exec[w].cursor) = {} /\ Goto(w, "spawn") /\ UNCHANGED <<job, entry>>
     \/ \E e \in First(Beyond(exec[w].cursor)) :
          IF Overflows(w) \/ ~Accepted(entry[e])
          THEN Goto(w, "rejected") /\ UNCHANGED <<job, entry>>
          ELSE entry' = [entry EXCEPT ![e] = Written(@)] /\ Advance(w, e, "scan")
  /\ UNCHANGED <<project, sweep, faults>>

ActiveEmbeddings ==
  {j \in Jobs : job[j].kind = "embedding" /\ job[j].state \in Active}

Spawned(j) ==
  [project EXCEPT !.lexical = "ready", !.embedding = "pending",
                  !.embeddingJob = j]

(* The last transaction locks an active embedding job and reuses it; the
   project is written without asking whose job this is. *)
ReuseEmbedding(w, j) ==
  /\ exec[w].phase = "spawn"
  /\ j \in ActiveEmbeddings
  /\ project' = Spawned(j)
  /\ Goto(w, "done")
  /\ UNCHANGED <<job, entry, sweep, faults>>

(* When it finds none there is no row to lock. *)
FindNoEmbedding(w) ==
  /\ exec[w].phase = "spawn"
  /\ ActiveEmbeddings = {}
  /\ Goto(w, "insert")
  /\ UNCHANGED <<project, job, entry, sweep, faults>>

InsertEmbedding(w, j) ==
  /\ exec[w].phase = "insert"
  /\ Absent(j)
  /\ job' = [job EXCEPT ![j] = NewRow("embedding", job[exec[w].job].total)]
  /\ project' = Spawned(j)
  /\ Goto(w, "done")
  /\ UNCHANGED <<entry, sweep, faults>>

-----------------------------------------------------------------------------
(* The embedding handler: its writes of the project name no job. *)

BeginEmbedding(w, enabled) ==
  /\ exec[w].phase = "begin"
  /\ project' = [project EXCEPT !.embedding =
                   IF enabled THEN "running" ELSE "degraded"]
  /\ Goto(w, IF enabled THEN "scan" ELSE "done")
  /\ UNCHANGED <<job, entry, sweep, faults>>

(* The rows that have a source text are read outside the transaction that
   writes their vectors. *)
ReadChunk(w) ==
  LET more == {e \in Beyond(exec[w].cursor) : entry[e].text # NoText}
  IN /\ exec[w].phase = "scan"
     /\ job[exec[w].job].kind = "embedding"
     /\ \/ more = {} /\ Goto(w, "ready")
        \/ \E e \in First(more) :
             exec' = [exec EXCEPT ![w] = [@ EXCEPT !.phase = "write", !.cursor = e,
                                                   !.chunk = entry[e].text]]
     /\ UNCHANGED <<project, job, entry, sweep, faults>>

(* Slip: the vector is written whatever the text is by now. *)
EmbeddedAnyway(r, text) == [r EXCEPT !.vector = text]

(* UPDATE entries SET embedding ... WHERE source_text = captured.  The trigger
   runs here, too: it moves a row that the lexical rebuild has not reached to
   the new text, and then drops the vector. *)
Embedded(r, text) ==
  IF r.text # text THEN r
  ELSE IF Written(r).text = text THEN [r EXCEPT !.vector = text]
  ELSE Written(r)

EmbeddingRefused(r, text) == r.text = text /\ ~Accepted(r)

WriteChunk(w) ==
  LET e == exec[w].cursor
  IN /\ exec[w].phase = "write"
     /\ IF Overflows(w) \/ EmbeddingRefused(entry[e], exec[w].chunk)
        THEN Goto(w, "rejected") /\ UNCHANGED <<job, entry>>
        ELSE /\ entry' = [entry EXCEPT ![e] = Embedded(@, exec[w].chunk)]
             /\ Advance(w, e, "scan")
     /\ UNCHANGED <<project, sweep, faults>>

FinishEmbedding(w) ==
  /\ exec[w].phase = "ready"
  /\ project' = [project EXCEPT !.embedding = "ready"]
  /\ Goto(w, "done")
  /\ UNCHANGED <<job, entry, sweep, faults>>

(* The sweep embeds the entries of projects that have no embedding job. *)
NotSweeping == [entry |-> 0, text |-> NoText]

SweepRead(e) ==
  /\ sweep = NotSweeping
  /\ entry[e].present /\ entry[e].vector = NoText /\ entry[e].text # NoText
  /\ Ready /\ project.lexical = "ready" /\ project.embeddingJob = NoJob
  /\ sweep' = [entry |-> e, text |-> entry[e].text]
  /\ UNCHANGED <<project, job, entry, exec, faults>>

SweepWrite ==
  /\ sweep # NotSweeping
  /\ entry' = [entry EXCEPT ![sweep.entry] =
                 IF EmbeddingRefused(@, sweep.text) THEN @ ELSE Embedded(@, sweep.text)]
  /\ sweep' = NotSweeping
  /\ UNCHANGED <<project, job, exec, faults>>

-----------------------------------------------------------------------------
(* Faults and time *)

Fault == faults < MaxFaults /\ faults' = faults + 1

(* An error of the database or of the embedding provider. *)
HandlerError(w) ==
  /\ Fault
  /\ exec[w].phase \notin {"idle", "done", "error", "rejected", "unresolved"}
  /\ Goto(w, "error")
  /\ UNCHANGED <<project, job, entry, sweep>>

(* The process dies and restarts, or the outcome cannot be recorded. *)
Vanish(w) ==
  /\ Fault
  /\ exec[w].phase # "idle"
  /\ exec' = [exec EXCEPT ![w] = Idle]
  /\ UNCHANGED <<project, job, entry, sweep>>

Attended(j) ==
  \E w \in Workers : exec[w].job = j /\ job[j].worker = w

LeaseExpires(j) ==
  /\ job[j].lease = "live"
  /\ IF Attended(j) THEN Fault ELSE UNCHANGED faults
  /\ job' = [job EXCEPT ![j] = [@ EXCEPT !.lease = "expired"]]
  /\ UNCHANGED <<project, entry, exec, sweep>>

(* The seven days of the cooldown outlast every execution that has lost its
   lease: a worker notices within one renewal interval. *)
CooldownEnds ==
  /\ project.cooling
  /\ \A w \in Workers : exec[w].phase # "idle" => Owns(w)
  /\ project' = [project EXCEPT !.cooling = FALSE]
  /\ UNCHANGED <<job, entry, exec, sweep, faults>>

-----------------------------------------------------------------------------
BlankRow == [NewRow("lexical", 0) EXCEPT !.state = "absent"]

Init ==
  /\ project = [lang |-> 0, cooling |-> FALSE, repair |-> "ready", repairJob |-> NoJob,
                lexical |-> "ready", lexicalJob |-> NoJob,
                embedding |-> "pending", embeddingJob |-> NoJob]
  /\ job = [j \in Jobs |-> BlankRow]
  /\ entry \in [Entries -> {[Blank EXCEPT !.langs = langs, !.text = <<0, 0>>] :
                               langs \in {l \in LangSets : 0 \in l}}
                             \union {[Blank EXCEPT !.present = FALSE]}]
  /\ \A e \in Entries : entry[e].present <=> e <= Uploaded
  /\ exec = [w \in Workers |-> Idle]
  /\ sweep = NotSweeping
  /\ faults = 0

Request ==
  \/ \E e \in Entries : \/ SaveEntry(e)
                        \/ \E langs \in LangSets : AddEntry(e, langs) \/ ReplaceOriginals(e, langs)
  \/ \E j \in Jobs : ChangePrimary(j) \/ ManualRetry(j)

Loop(w) ==
  \/ \E j \in Jobs : Claim(w, j)
  \/ ClaimNothing(w)
  \/ LoseLease(w)
  \/ Complete(w)
  \/ FailAttempt(w)

Handler(w) ==
  \/ LexicalBatch(w)
  \/ \E j \in Jobs : ReuseEmbedding(w, j) \/ InsertEmbedding(w, j)
  \/ FindNoEmbedding(w)
  \/ \E enabled \in BOOLEAN : BeginEmbedding(w, enabled)
  \/ ReadChunk(w)
  \/ WriteChunk(w)
  \/ FinishEmbedding(w)

Sweeping == SweepWrite \/ \E e \in Entries : SweepRead(e)

Next ==
  \/ Request
  \/ \E w \in Workers : Loop(w) \/ Handler(w) \/ HandlerError(w) \/ Vanish(w)
  \/ Sweeping
  \/ \E j \in Jobs : LeaseExpires(j)
  \/ CooldownEnds

Spec == Init /\ [][Next]_vars

-----------------------------------------------------------------------------
(* Properties *)

TypeOK ==
  /\ project \in Project
  /\ job \in [Jobs -> Row]
  /\ entry \in [Entries -> Entry]
  /\ exec \in [Workers -> Execution]
  /\ sweep \in [entry: 0..LastEntry, text: Texts \union {NoText}]
  /\ faults \in 0..MaxFaults

(* A vector is always the vector of the entry's present source text, whatever
   was rewritten while the provider computed it. *)
VectorCurrent ==
  \A e \in Present : entry[e].vector \in {NoText, entry[e].text}

(* Search is served only when every entry is indexed under the primary source
   of the project: no restart from a cursor and no second change leaves an
   entry behind.  An attempt of an earlier change that lost its lease does
   write "ready" too early, but only while the job of the present change has
   not succeeded and owes the rest. *)
LexicalCurrent ==
  Ready /\ project.lexical = "ready"
  => \/ \A e \in Present : entry[e].text = <<entry[e].edits, project.lang>>
     \/ job[project.lexicalJob].state \in Active \union {"failed"}

(* The rebuild is not forgotten: while search is suspended the lexical job has
   not succeeded, so it runs, will run or can be retried; and only one lexical
   job is ever under way. *)
RebuildOwed ==
  /\ project.lexical # "ready"
     => job[project.lexicalJob].state \in Active \union {"failed"}
  /\ \A j \in Jobs : job[j].kind = "lexical" /\ job[j].state \in Active
                     => j = project.lexicalJob
=============================================================================
