------------------------- MODULE PrimarySourceProofs -------------------------
(***************************************************************************)
(* Five theorems for every number of entries, jobs, workers, changes and   *)
(* faults: TypeOK, VectorCurrent, RebuildOwed and LexicalCurrent of        *)
(* PrimarySource, RepairSound of LanguageRepair.                           *)
(*                                                                         *)
(* VectorCurrent is inductive once the rows are typed.  RebuildOwed is     *)
(* not: that the job which succeeds is never the one a suspended search    *)
(* waits for depends on what a handler that is done has written, and on    *)
(* the jobs of earlier changes being over.  LexicalCurrent needs what the  *)
(* cursors of the rebuild's row and of its handlers, late ones included,   *)
(* say about the texts (TextsSound).                                       *)
(*                                                                         *)
(* In LanguageRepair a project may hold several rebuilds at once, and      *)
(* RebuildInv is not an invariant.  What a repair has to know of the steps *)
(* of PrimarySource is little (Follows); its own invariant is RepairInv.   *)
(***************************************************************************)
EXTENDS LanguageRepair, FiniteSetTheorems, WellFoundedInduction, TLAPS

(* The jobs of earlier changes are over, the present one is owed. *)
RebuildInv ==
  /\ project.lexicalJob # NoJob =>
       /\ job[project.lexicalJob].kind = "lexical"
       /\ job[project.lexicalJob].state # "absent"
  /\ \A j \in Jobs : job[j].kind = "lexical" /\ j # project.lexicalJob
                     => job[j].state \in {"absent", "succeeded"}
  /\ project.lexical # "ready" =>
       /\ project.lexicalJob # NoJob
       /\ job[project.lexicalJob].state \in Active \union {"failed"}

(* A handler executes a job that exists, of the kind its phase belongs to;
   and when it is done with the present rebuild and still has its lease, then
   search is back. *)
HandlerInv ==
  \A w \in Workers : exec[w].phase # "idle" =>
    /\ exec[w].job \in Jobs
    /\ job[exec[w].job].state # "absent"
    /\ exec[w].phase \in {"begin", "write", "ready"} => job[exec[w].job].kind = "embedding"
    /\ exec[w].phase = "done" /\ Owns(w) /\ exec[w].job = project.lexicalJob
       => project.lexical = "ready"

(* VectorCurrent, of the entries to come as well. *)
VectorsSound == \A e \in Entries : entry[e].vector \in {NoText, entry[e].text}

-----------------------------------------------------------------------------
(* What each statement makes of a row *)

LEMMA MaxNat == ASSUME NEW a \in Nat, NEW b \in Nat PROVE Max({a, b}) \in Nat
<1>1. \E x \in {a, b} : \A y \in {a, b} : x >= y
    OBVIOUS
<1> QED
    BY <1>1 DEF Max

LEMMA BlankIsRow ==
  ASSUME NEW k \in {"lexical", "embedding"}, NEW total \in Nat \union {NoTotal}
  PROVE  NewRow(k, total) \in Row
<1>1. 0 \in 0..LastEntry /\ Budget \in Nat
    BY ConstantsOK
<1> QED
    BY <1>1 DEF NewRow, Row, Kinds, Active

LEMMA ReleasedRow ==
  ASSUME NEW r \in Row, NEW state \in Active \union {"succeeded", "failed"}
  PROVE  /\ Released(r, state) \in Row
         /\ Released(r, state).kind = r.kind /\ Released(r, state).state = state
         /\ Released(r, state).worker = NoWorker
BY DEF Released, Row, Kinds, Active

LEMMA SucceededRow ==
  ASSUME NEW r \in Row
  PROVE  /\ Succeeded(r) \in Row
         /\ Succeeded(r).kind = r.kind /\ Succeeded(r).state = "succeeded"
<1> DEFINE s == Released(r, "succeeded")
           n == IF r.total = NoTotal THEN s.done ELSE r.total
<1>1. s \in Row /\ s.kind = r.kind /\ s.state = "succeeded"
    BY ReleasedRow
<1>2. n \in Nat
    BY <1>1 DEF Row
<1>3. Succeeded(r) = [s EXCEPT !.done = n]
    BY DEF Succeeded
<1> HIDE DEF s, n
<1> QED
    BY <1>1, <1>2, <1>3 DEF Row

LEMMA RetriedRow ==
  ASSUME NEW r \in Row
  PROVE  /\ Retried(r) \in Row
         /\ Retried(r).kind = r.kind /\ Retried(r).state = "queued"
<1> DEFINE a == r.attempts + 1
           m == Max({r.max, r.attempts + 2})
<1>1. a \in Nat /\ m \in Nat
    BY MaxNat DEF Row
<1>2. Retried(r) = [r EXCEPT !.state = "queued", !.attempts = a, !.max = m]
    BY DEF Retried, Row
<1> HIDE DEF a, m
<1> QED
    BY <1>1, <1>2 DEF Row, Active

LEMMA LeasedRow ==
  ASSUME NEW r \in Row, NEW w \in Workers
  PROVE  /\ Leased(r, w) \in Row
         /\ Leased(r, w).kind = r.kind /\ Leased(r, w).state = "running"
         /\ Leased(r, w).worker = w
<1>1. r.attempts + 1 \in Nat
    BY DEF Row
<1> QED
    BY <1>1 DEF Row, Active, Leased

LEMMA RecordedRow ==
  ASSUME NEW r \in Row, NEW e \in 0..LastEntry, NEW n \in Nat
  PROVE  LET s == [r EXCEPT !.cursor = e, !.done = n]
         IN  s \in Row /\ s.kind = r.kind /\ s.state = r.state
             /\ s.worker = r.worker /\ s.lease = r.lease
BY DEF Row

LEMMA ExpiredRow ==
  ASSUME NEW r \in Row
  PROVE  LET s == [r EXCEPT !.lease = "expired"]
         IN  s \in Row /\ s.kind = r.kind /\ s.state = r.state
             /\ s.worker = r.worker /\ s.lease = "expired"
BY DEF Row

(* The claim fails rows and does nothing else. *)
LEMMA SweptRows ==
  ASSUME TypeOK
  PROVE  /\ Swept \in [Jobs -> Row]
         /\ \A j \in Jobs : /\ Swept[j].kind = job[j].kind
                            /\ \/ Swept[j] = job[j]
                               \/ /\ job[j].state \in Active
                                  /\ Swept[j].state = "failed"
<1> SUFFICES ASSUME NEW j \in Jobs
             PROVE  /\ Swept[j] \in Row
                    /\ Swept[j].kind = job[j].kind
                    /\ \/ Swept[j] = job[j]
                       \/ job[j].state \in Active /\ Swept[j].state = "failed"
    BY DEF Swept
<1>1. job[j] \in Row
    BY DEF TypeOK
<1>2. Released(job[j], "failed") \in Row /\ Released(job[j], "failed").kind = job[j].kind
      /\ Released(job[j], "failed").state = "failed"
    BY <1>1, ReleasedRow
<1> QED
    BY <1>1, <1>2 DEF Swept, Claimable, Active

(* An entry that is written stays an entry. *)
LEMMA WrittenEntry ==
  ASSUME TypeOK, NEW r \in Entry
  PROVE  Written(r) \in Entry
<1> DEFINE text == IF Ready THEN <<r.edits, project.lang>> ELSE NoText
           vector == IF Ready /\ text = r.text THEN r.vector ELSE NoText
<1>1. text \in Texts \union {NoText}
    BY DEF TypeOK, Project, Entry, Texts
<1>2. vector \in Texts \union {NoText}
    BY DEF Entry
<1>3. Written(r) = [r EXCEPT !.text = text, !.vector = vector]
    BY DEF Written, Entry
<1> HIDE DEF text, vector
<1> QED
    BY <1>1, <1>2, <1>3 DEF Entry

LEMMA EmbeddedEntry ==
  ASSUME TypeOK, NEW r \in Entry, NEW text \in Texts \union {NoText}
  PROVE  Embedded(r, text) \in Entry
<1>1. Written(r) \in Entry /\ [r EXCEPT !.vector = text] \in Entry
    BY WrittenEntry DEF Entry
<1> QED
    BY <1>1 DEF Embedded

LEMMA PresentFinite == Cardinality(Present) \in Nat
<1>1. IsFiniteSet(Entries)
    BY FS_Interval, ConstantsOK DEF Entries
<1>2. Present \in SUBSET Entries
    BY DEF Present
<1> QED
    BY <1>1, <1>2, FS_Subset, FS_CardinalityType

(* A step of a handler that changes its phase only. *)
LEMMA GotoExec ==
  ASSUME TypeOK, NEW w \in Workers, NEW phase \in Phases, Goto(w, phase)
  PROVE  /\ exec' \in [Workers -> Execution]
         /\ exec'[w].phase = phase /\ exec'[w].job = exec[w].job
         /\ \A v \in Workers \ {w} : exec'[v] = exec[v]
<1> DEFINE x == [exec[w] EXCEPT !.phase = phase]
<1>1. x \in Execution /\ x.phase = phase /\ x.job = exec[w].job
    BY DEF TypeOK, Execution
<1>2. exec' = [exec EXCEPT ![w] = x]
    BY DEF Goto
<1> HIDE DEF x
<1> QED
    BY <1>1, <1>2 DEF TypeOK

LEMMA RecordExec ==
  ASSUME TypeOK, NEW w \in Workers, NEW e \in 0..LastEntry, Advance(w, e, "scan"),
         exec[w].job \in Jobs
  PROVE  /\ exec' \in [Workers -> Execution] /\ job' \in [Jobs -> Row]
         /\ exec'[w].phase = "scan" /\ exec'[w].job = exec[w].job
         /\ \A v \in Workers \ {w} : exec'[v] = exec[v]
         /\ \A j \in Jobs : /\ job'[j].kind = job[j].kind /\ job'[j].state = job[j].state
                            /\ job'[j].worker = job[j].worker /\ job'[j].lease = job[j].lease
<1> DEFINE n == exec[w].done + 1
           x == [exec[w] EXCEPT !.phase = "scan", !.cursor = e, !.done = n, !.chunk = NoText]
           r == [job[exec[w].job] EXCEPT !.cursor = e, !.done = n]
<1>1. n \in Nat
    BY DEF TypeOK, Execution
<1>2. /\ job' = [job EXCEPT ![exec[w].job] = r]
      /\ exec' = [exec EXCEPT ![w] = x]
    BY DEF Advance, Record
<1> HIDE DEF n
<1>3. x \in Execution /\ x.phase = "scan" /\ x.job = exec[w].job
    BY <1>1 DEF TypeOK, Execution, Phases
<1>4. r \in Row /\ r.kind = job[exec[w].job].kind /\ r.state = job[exec[w].job].state
      /\ r.worker = job[exec[w].job].worker /\ r.lease = job[exec[w].job].lease
  <2> DEFINE o == job[exec[w].job]
  <2>1. o \in Row /\ r = [o EXCEPT !.cursor = e, !.done = n]
      BY DEF TypeOK
  <2> HIDE DEF o, r
  <2>2. r \in Row /\ r.kind = o.kind /\ r.state = o.state
        /\ r.worker = o.worker /\ r.lease = o.lease
      BY <1>1, <2>1, RecordedRow
  <2> QED
      BY <2>2 DEF o
<1> HIDE DEF x, r
<1> QED
    BY <1>2, <1>3, <1>4 DEF TypeOK

-----------------------------------------------------------------------------
(* The invariant *)

Ind == TypeOK /\ RebuildInv /\ HandlerInv /\ VectorsSound

LEMMA InitInd == Init => Ind
<1> SUFFICES ASSUME Init PROVE Ind
    OBVIOUS
<1>1. 0 \in Languages /\ 0 \in 0..MaxEdits /\ 0 \in 0..LastEntry /\ Budget \in Nat
    BY ConstantsOK DEF Languages
<1>2. project = [lang |-> 0, cooling |-> FALSE, repair |-> "ready", repairJob |-> NoJob,
                 lexical |-> "ready", lexicalJob |-> NoJob,
                 embedding |-> "pending", embeddingJob |-> NoJob]
    BY DEF Init
<1>3. job \in [Jobs -> Row] /\ \A j \in Jobs : job[j].state = "absent"
  <2>1. job = [j \in Jobs |-> BlankRow]
      BY DEF Init
  <2>2. BlankRow \in Row /\ BlankRow.state = "absent"
      BY BlankIsRow DEF BlankRow, Row
  <2> QED
      BY <2>1, <2>2
<1>4. entry \in [Entries -> Entry] /\ \A e \in Entries : entry[e].vector = NoText
  <2> DEFINE full(langs) == [Blank EXCEPT !.langs = langs, !.text = <<0, 0>>]
             none == [Blank EXCEPT !.present = FALSE]
  <2>1. entry \in [Entries -> {full(langs) : langs \in {l \in LangSets : 0 \in l}} \union {none}]
      BY DEF Init
  <2>2. ASSUME NEW langs \in LangSets
        PROVE  full(langs) \in Entry /\ full(langs).vector = NoText
    <3>1. langs \in SUBSET Languages /\ <<0, 0>> \in Texts
        BY <1>1, ConstantsOK DEF Languages, Texts
    <3> QED
        BY <1>1, <3>1 DEF Blank, Entry
  <2>3. none \in Entry /\ none.vector = NoText
      BY <1>1 DEF Blank, Entry
  <2> HIDE DEF full, none
  <2> QED
      BY <2>1, <2>2, <2>3
<1>5. exec \in [Workers -> Execution] /\ \A w \in Workers : exec[w].phase = "idle"
  <2>1. exec = [w \in Workers |-> Idle]
      BY DEF Init
  <2>2. Idle \in Execution /\ Idle.phase = "idle"
      BY <1>1 DEF Idle, Execution, Phases
  <2> QED
      BY <2>1, <2>2
<1>6. sweep \in [entry: 0..LastEntry, text: Texts \union {NoText}]
    BY <1>1 DEF Init, NotSweeping
<1>7. TypeOK
  <2>1. project \in Project
    <3>1. 0 \in Languages
        BY <1>1
    <3> QED
        BY <3>1, <1>2 DEF Project
  <2>2. faults \in 0..MaxFaults
    <3>1. faults = 0
        BY DEF Init
    <3> QED
        BY <3>1, ConstantsOK
  <2> QED
      BY <2>1, <2>2, <1>3, <1>4, <1>5, <1>6 DEF TypeOK
<1>8. RebuildInv
    BY <1>2, <1>3 DEF RebuildInv
<1>9. HandlerInv
    BY <1>5 DEF HandlerInv
<1>10. VectorsSound
    BY <1>4 DEF VectorsSound
<1> QED
    BY <1>7, <1>8, <1>9, <1>10 DEF Ind

(* A write of one entry that is by the trigger keeps its vector current. *)
LEMMA EntryStep ==
  ASSUME Ind, NEW e, NEW r, e \in Entries => r \in Entry,
         e \in Entries => r.vector \in {NoText, r.text},
         entry' = [entry EXCEPT ![e] = r]
  PROVE  entry' \in [Entries -> Entry] /\ VectorsSound'
<1>1. \A d \in Entries : entry'[d] = IF d = e THEN r ELSE entry[d]
    BY DEF Ind, TypeOK
<1>2. entry' \in [Entries -> Entry]
    BY <1>1 DEF Ind, TypeOK
<1> QED
    BY <1>1, <1>2 DEF Ind, VectorsSound

LEMMA WrittenCurrent ==
  ASSUME NEW r \in Entry, Written(r) \in Entry, r.vector \in {NoText, r.text}
  PROVE  Written(r).vector \in {NoText, Written(r).text}
BY DEF Written, Entry

LEMMA EmbeddedCurrent ==
  ASSUME NEW r \in Entry, NEW text, Written(r) \in Entry, r.vector \in {NoText, r.text}
  PROVE  Embedded(r, text).vector \in {NoText, Embedded(r, text).text}
BY WrittenCurrent DEF Embedded, Entry

LEMMA CurrentEntry ==
  ASSUME Ind, NEW e \in Entries
  PROVE  entry[e] \in Entry /\ entry[e].vector \in {NoText, entry[e].text}
BY DEF Ind, TypeOK, VectorsSound

(* Steps that write entries only. *)
LEMMA EntryOnly ==
  ASSUME Ind, NEW e \in Entries, NEW r \in Entry, r.vector \in {NoText, r.text},
         entry' = [entry EXCEPT ![e] = r],
         UNCHANGED <<project, job, exec>>,
         sweep' \in [entry: 0..LastEntry, text: Texts \union {NoText}], UNCHANGED faults
  PROVE  Ind'
<1>1. entry' \in [Entries -> Entry] /\ VectorsSound'
    BY EntryStep
<1>2. TypeOK'
    BY <1>1 DEF Ind, TypeOK
<1>3. RebuildInv' /\ HandlerInv'
    BY DEF Ind, RebuildInv, HandlerInv, Owns
<1> QED
    BY <1>1, <1>2, <1>3 DEF Ind

LEMMA EntryRequest ==
  ASSUME Ind, NEW e \in Entries,
         SaveEntry(e) \/ \E langs \in LangSets : AddEntry(e, langs) \/ ReplaceOriginals(e, langs)
  PROVE  Ind'
<1>0. TypeOK
    BY DEF Ind
<1>1. CASE SaveEntry(e)
  <2>1. entry[e] \in Entry /\ entry[e].vector \in {NoText, entry[e].text}
      BY CurrentEntry
  <2>2. Written(entry[e]) \in Entry
      BY <1>0, <2>1, WrittenEntry
  <2>3. Written(entry[e]).vector \in {NoText, Written(entry[e]).text}
      BY <2>1, <2>2, WrittenCurrent
  <2>4. sweep' \in [entry: 0..LastEntry, text: Texts \union {NoText}]
      BY <1>0, <1>1 DEF SaveEntry, TypeOK
  <2>5. entry' = [entry EXCEPT ![e] = Written(entry[e])]
      BY <1>1 DEF SaveEntry
  <2> QED
      BY <1>1, <2>2, <2>3, <2>4, <2>5, EntryOnly DEF SaveEntry
<1>2. ASSUME NEW langs \in LangSets, AddEntry(e, langs) PROVE Ind'
  <2> DEFINE r == [Blank EXCEPT !.langs = langs]
  <2>1. langs \in SUBSET Languages /\ 0 \in 0..MaxEdits
      BY ConstantsOK DEF Languages
  <2>2. r \in Entry /\ r.vector \in {NoText, r.text}
      BY <2>1 DEF Blank, Entry
  <2>3. entry' = [entry EXCEPT ![e] = Written(r)]
      BY <1>2 DEF AddEntry
  <2>4. sweep' \in [entry: 0..LastEntry, text: Texts \union {NoText}]
      BY <1>0, <1>2 DEF AddEntry, TypeOK
  <2> HIDE DEF r
  <2>5. Written(r) \in Entry
      BY <1>0, <2>2, WrittenEntry
  <2>6. Written(r).vector \in {NoText, Written(r).text}
      BY <2>2, <2>5, WrittenCurrent
  <2> QED
      BY <1>2, <2>3, <2>4, <2>5, <2>6, EntryOnly DEF AddEntry
<1>3. ASSUME NEW langs \in LangSets, ReplaceOriginals(e, langs) PROVE Ind'
  <2> DEFINE old == entry[e]
             n == old.edits + 1
             r == [old EXCEPT !.edits = n, !.langs = langs]
  <2>1. old \in Entry /\ old.vector \in {NoText, old.text}
      BY CurrentEntry
  <2>2. langs \in SUBSET Languages /\ n \in 0..MaxEdits
    <3>1. old.edits \in 0..MaxEdits /\ old.edits < MaxEdits
        BY <1>3, <2>1 DEF ReplaceOriginals, Entry
    <3> QED
        BY <3>1, ConstantsOK DEF Languages
  <2>3. entry' = [entry EXCEPT ![e] = Written(r)]
      BY <1>3 DEF ReplaceOriginals
  <2>4. sweep' \in [entry: 0..LastEntry, text: Texts \union {NoText}]
      BY <1>0, <1>3 DEF ReplaceOriginals, TypeOK
  <2> HIDE DEF old, n
  <2>5. r \in Entry /\ r.vector \in {NoText, r.text}
      BY <2>1, <2>2 DEF Entry
  <2> HIDE DEF r
  <2>6. Written(r) \in Entry
      BY <1>0, <2>5, WrittenEntry
  <2>7. Written(r).vector \in {NoText, Written(r).text}
      BY <2>5, <2>6, WrittenCurrent
  <2> QED
      BY <1>3, <2>3, <2>4, <2>6, <2>7, EntryOnly DEF ReplaceOriginals
<1> QED
    BY <1>1, <1>2, <1>3

-----------------------------------------------------------------------------
(* Steps that leave the entries alone *)

(* What the other parts of the invariant need. *)
LEMMA Reduced ==
  ASSUME Ind,
         project' \in Project, job' \in [Jobs -> Row], exec' \in [Workers -> Execution],
         RebuildInv', HandlerInv', UNCHANGED <<entry, sweep>>, faults' \in 0..MaxFaults
  PROVE  Ind'
<1>1. TypeOK'
    BY DEF Ind, TypeOK
<1>2. VectorsSound'
    BY DEF Ind, VectorsSound
<1> QED
    BY <1>1, <1>2 DEF Ind

LEMMA FaultsBounded == ASSUME Ind, Fault \/ UNCHANGED faults PROVE faults' \in 0..MaxFaults
BY ConstantsOK DEF Ind, TypeOK, Fault

LEMMA ExecKept == ASSUME Ind, UNCHANGED exec PROVE exec' \in [Workers -> Execution]
BY DEF Ind, TypeOK

LEMMA ProjectKept == ASSUME Ind, UNCHANGED project PROVE project' \in Project
BY DEF Ind, TypeOK

LEMMA ChangeStep == ASSUME Ind, NEW j \in Jobs, ChangePrimary(j) PROVE Ind'
<1> DEFINE r == NewRow("lexical", Cardinality(Present))
<1>1. r \in Row /\ r.kind = "lexical" /\ r.state = "queued"
    BY PresentFinite, BlankIsRow DEF NewRow
<1>2. /\ Absent(j)
      /\ ~Blocks(project.lexicalJob)
      /\ job' = [job EXCEPT ![j] = r]
      /\ UNCHANGED <<entry, exec, sweep, faults>>
    BY DEF ChangePrimary
<1>3. project' \in Project /\ project'.lexicalJob = j
  <2> DEFINE n == project.lang + 1
  <2>1. n \in Languages
      BY ConstantsOK DEF ChangePrimary, Languages, Ind, TypeOK, Project
  <2>2. project' = [project EXCEPT !.lang = n, !.cooling = TRUE,
                     !.lexical = "rebuilding", !.lexicalJob = j,
                     !.embedding = "pending", !.embeddingJob = NoJob]
      BY DEF ChangePrimary, Ind, TypeOK, Project
  <2> HIDE DEF n
  <2> QED
      BY <2>1, <2>2 DEF Ind, TypeOK, Project
<1> HIDE DEF r
<1>4. job' \in [Jobs -> Row] /\ \A i \in Jobs : job'[i] = IF i = j THEN r ELSE job[i]
    BY <1>1, <1>2 DEF Ind, TypeOK
<1>5. job[j].state = "absent"
    BY <1>2 DEF Absent
<1>6. RebuildInv'
  <2>1. j # NoJob
      BY ConstantsOK
  <2>2. ASSUME NEW i \in Jobs, job'[i].kind = "lexical", i # j
        PROVE  job'[i].state \in {"absent", "succeeded"}
    <3>1. job[i] \in Row /\ job'[i] = job[i]
        BY <1>4, <2>2 DEF Ind, TypeOK
    <3>2. CASE i = project.lexicalJob
        BY <3>1, <3>2, <1>2, ConstantsOK DEF Blocks, Row, Active
    <3>3. CASE i # project.lexicalJob
        BY <3>1, <3>3, <2>2 DEF Ind, RebuildInv
    <3> QED
        BY <3>2, <3>3
  <2> QED
      BY <1>1, <1>3, <1>4, <2>1, <2>2 DEF RebuildInv, Active
<1>7. HandlerInv'
  <2>1. ASSUME NEW w \in Workers, exec[w].phase # "idle"
        PROVE  exec[w].job \in Jobs /\ exec[w].job # j
      BY <2>1, <1>5 DEF Ind, HandlerInv
  <2> QED
      BY <1>2, <1>3, <1>4, <2>1 DEF Ind, HandlerInv
<1> QED
    BY <1>2, <1>3, <1>4, <1>6, <1>7, Reduced, FaultsBounded, ExecKept

LEMMA RetryStep == ASSUME Ind, NEW j \in Jobs, ManualRetry(j) PROVE Ind'
<1> DEFINE r == Retried(job[j])
<1>1. job[j] \in Row /\ job[j].state = "failed"
    BY DEF Ind, TypeOK, ManualRetry
<1>2. r \in Row /\ r.kind = job[j].kind /\ r.state = "queued"
    BY <1>1, RetriedRow
<1>3. /\ job' = [job EXCEPT ![j] = r]
      /\ project' = Restarted(j)
      /\ UNCHANGED <<entry, exec, sweep, faults>>
    BY DEF ManualRetry
<1>4. /\ project' \in Project /\ project'.lexicalJob = project.lexicalJob
      /\ project'.lexical = IF project.lexicalJob = j THEN "rebuilding" ELSE project.lexical
    BY <1>3 DEF Restarted, Ind, TypeOK, Project
<1> HIDE DEF r
<1>5. job' \in [Jobs -> Row] /\ \A i \in Jobs : job'[i] = IF i = j THEN r ELSE job[i]
    BY <1>2, <1>3 DEF Ind, TypeOK
<1>6. project.lexicalJob \in Jobs \union {NoJob}
    BY DEF Ind, TypeOK, Project
<1>7. RebuildInv'
    BY <1>1, <1>2, <1>4, <1>5, <1>6, ConstantsOK DEF Ind, RebuildInv, Active
<1>8. HandlerInv'
    BY <1>1, <1>2, <1>3, <1>4, <1>5 DEF Ind, HandlerInv, Owns
<1> QED
    BY <1>3, <1>4, <1>5, <1>7, <1>8, Reduced, FaultsBounded, ExecKept

LEMMA ClaimStep ==
  ASSUME Ind, NEW w \in Workers, (\E j \in Jobs : Claim(w, j)) \/ ClaimNothing(w)
  PROVE  Ind'
<1>0. TypeOK
    BY DEF Ind
<1>1. CASE ClaimNothing(w)
  <2>1. /\ job' = Swept /\ UNCHANGED <<project, entry, exec, sweep, faults>>
      BY <1>1 DEF ClaimNothing
  <2>2. /\ job' \in [Jobs -> Row]
        /\ \A j \in Jobs : /\ job'[j].kind = job[j].kind
                           /\ \/ job'[j] = job[j]
                              \/ job[j].state \in Active /\ job'[j].state = "failed"
      BY <1>0, <2>1, SweptRows
  <2>3. project.lexicalJob \in Jobs \union {NoJob}
      BY <1>0 DEF TypeOK, Project
  <2>4. RebuildInv'
      BY <2>1, <2>2, <2>3 DEF Ind, RebuildInv, Active
  <2>5. HandlerInv'
      BY <2>1, <2>2 DEF Ind, HandlerInv, Owns, Active
  <2> QED
      BY <2>1, <2>2, <2>4, <2>5, Reduced, FaultsBounded, ExecKept, ProjectKept
<1>2. ASSUME NEW j \in Jobs, Claim(w, j) PROVE Ind'
  <2> DEFINE r == Leased(Swept[j], w)
             x == Handed(j)
  <2>1. /\ exec[w].phase = "idle" /\ Claimable(job[j])
        /\ job' = [Swept EXCEPT ![j] = r]
        /\ exec' = [exec EXCEPT ![w] = x]
        /\ UNCHANGED <<project, entry, sweep, faults>>
      BY <1>2 DEF Claim
  <2>2. job[j] \in Row /\ Swept[j] \in Row /\ Swept[j].kind = job[j].kind
      BY <1>0, SweptRows DEF TypeOK
  <2>3. r \in Row /\ r.kind = job[j].kind /\ r.state = "running" /\ r.worker = w
      BY <2>2, LeasedRow
  <2>4. /\ x \in Execution /\ x.job = j /\ x.phase \in {"scan", "begin", "load"}
        /\ x.phase = "begin" => job[j].kind = "embedding"
      BY <2>2 DEF Handed, Execution, Row, Phases, FirstPhase, Kinds
  <2>5. job[j].state \in Active
      BY <2>1 DEF Claimable, Active
  <2> HIDE DEF r, x
  <2>6. /\ job' \in [Jobs -> Row] /\ exec' \in [Workers -> Execution]
        /\ \A v \in Workers : exec'[v] = IF v = w THEN x ELSE exec[v]
      BY <1>0, <2>1, <2>3, <2>4, SweptRows DEF TypeOK
  <2>7. \A i \in Jobs : /\ job'[i].kind = job[i].kind
                        /\ \/ i = j /\ job'[i] = r
                           \/ i # j /\ job'[i] = job[i]
                           \/ i # j /\ job[i].state \in Active /\ job'[i].state = "failed"
      BY <1>0, <2>1, <2>3, SweptRows
  <2>8. project.lexicalJob \in Jobs \union {NoJob}
      BY <1>0 DEF TypeOK, Project
  <2>9. RebuildInv'
      BY <2>1, <2>3, <2>5, <2>7, <2>8 DEF Ind, RebuildInv, Active
  <2>10. HandlerInv'
    <3> SUFFICES ASSUME NEW v \in Workers, exec'[v].phase # "idle"
                 PROVE  /\ exec'[v].job \in Jobs
                        /\ job'[exec'[v].job].state # "absent"
                        /\ exec'[v].phase \in {"begin", "write", "ready"}
                             => job'[exec'[v].job].kind = "embedding"
                        /\ exec'[v].phase = "done" /\ Owns(v)' /\ exec'[v].job = project'.lexicalJob
                             => project'.lexical = "ready"
        BY DEF HandlerInv
    <3>1. CASE v = w
        BY <3>1, <2>3, <2>4, <2>6, <2>7
    <3>2. CASE v # w
      <4>1. exec'[v] = exec[v] /\ exec[v].job \in Jobs
          BY <3>2, <2>6 DEF Ind, HandlerInv
      <4> QED
          BY <4>1, <3>2, <2>1, <2>3, <2>7 DEF Ind, HandlerInv, Owns, Active
    <3> QED
        BY <3>1, <3>2
  <2> QED
      BY <2>1, <2>6, <2>9, <2>10, Reduced, FaultsBounded, ProjectKept
<1> QED
    BY <1>1, <1>2

(* A handler that gives up leaves everything else as it is. *)
LEMMA IdleStep ==
  ASSUME Ind, NEW w \in Workers, exec' = [exec EXCEPT ![w] = Idle],
         UNCHANGED <<project, job, entry, sweep>>, Fault \/ UNCHANGED faults
  PROVE  Ind'
<1>1. Idle \in Execution /\ Idle.phase = "idle"
    BY ConstantsOK DEF Idle, Execution, Phases
<1>2. exec' \in [Workers -> Execution]
      /\ \A v \in Workers : exec'[v] = IF v = w THEN Idle ELSE exec[v]
    BY <1>1 DEF Ind, TypeOK
<1>3. RebuildInv'
    BY DEF Ind, RebuildInv
<1>4. HandlerInv'
    BY <1>1, <1>2 DEF Ind, HandlerInv, Owns
<1>5. job' \in [Jobs -> Row]
    BY DEF Ind, TypeOK
<1> QED
    BY <1>2, <1>3, <1>4, <1>5, Reduced, FaultsBounded, ProjectKept

(* The outcome of an execution is recorded on the row of its owner. *)
LEMMA OutcomeStep ==
  ASSUME Ind, NEW w \in Workers, NEW r \in Row,
         exec[w].phase # "idle", Owns(w),
         r.kind = job[exec[w].job].kind, r.state \in {"queued", "succeeded", "failed"},
         job' = [job EXCEPT ![exec[w].job] = r],
         project' \in Project, project'.lexicalJob = project.lexicalJob,
         \/ project'.lexical = project.lexical
         \/ exec[w].job = project.lexicalJob /\ r.state = "failed",
         r.state = "succeeded" /\ exec[w].job = project.lexicalJob => project'.lexical = "ready",
         exec' = [exec EXCEPT ![w] = Idle],
         UNCHANGED <<entry, sweep, faults>>
  PROVE  Ind'
<1> DEFINE j == exec[w].job
<1>1. Idle \in Execution /\ Idle.phase = "idle"
    BY ConstantsOK DEF Idle, Execution, Phases
<1>2. /\ exec' \in [Workers -> Execution]
      /\ \A v \in Workers : exec'[v] = IF v = w THEN Idle ELSE exec[v]
    BY <1>1 DEF Ind, TypeOK
<1>3. j \in Jobs /\ job[j].state = "running"
    BY DEF Ind, HandlerInv, Owns
<1> HIDE DEF j
<1>4. /\ job' \in [Jobs -> Row]
      /\ \A i \in Jobs : job'[i] = IF i = j THEN r ELSE job[i]
    BY <1>3 DEF Ind, TypeOK, j
<1>5. project.lexicalJob \in Jobs \union {NoJob}
    BY DEF Ind, TypeOK, Project
<1>6. RebuildInv'
  <2>1. /\ project'.lexicalJob # NoJob =>
             /\ job'[project'.lexicalJob].kind = "lexical"
             /\ job'[project'.lexicalJob].state # "absent"
      BY <1>4, <1>5 DEF Ind, RebuildInv, j
  <2>2. ASSUME NEW i \in Jobs, job'[i].kind = "lexical", i # project'.lexicalJob
        PROVE  job'[i].state \in {"absent", "succeeded"}
      BY <1>3, <1>4, <2>2 DEF Ind, RebuildInv, j
  <2>3. ASSUME project'.lexical # "ready"
        PROVE  /\ project'.lexicalJob # NoJob
               /\ job'[project'.lexicalJob].state \in Active \union {"failed"}
      BY <1>3, <1>4, <1>5, <2>3, ConstantsOK DEF Ind, RebuildInv, Active, j
  <2> QED
      BY <2>1, <2>2, <2>3 DEF RebuildInv
<1>7. HandlerInv'
    BY <1>1, <1>2, <1>3, <1>4 DEF Ind, HandlerInv, Owns, j
<1> QED
    BY <1>2, <1>4, <1>6, <1>7, Reduced, FaultsBounded

LEMMA CompleteStep == ASSUME Ind, NEW w \in Workers, Complete(w) PROVE Ind'
<1>1. /\ exec[w].phase = "done"
      /\ job' = IF Owns(w) THEN [job EXCEPT ![exec[w].job] = Succeeded(job[exec[w].job])] ELSE job
      /\ exec' = [exec EXCEPT ![w] = Idle]
      /\ UNCHANGED <<project, entry, sweep, faults>>
    BY DEF Complete
<1>2. CASE Owns(w)
  <2> DEFINE r == Succeeded(job[exec[w].job])
  <2>1. job[exec[w].job] \in Row
      BY <1>1 DEF Ind, TypeOK, HandlerInv
  <2>2. r \in Row /\ r.kind = job[exec[w].job].kind /\ r.state = "succeeded"
      BY <2>1, SucceededRow
  <2>3. exec[w].job = project.lexicalJob => project.lexical = "ready"
      BY <1>1, <1>2 DEF Ind, HandlerInv
  <2>4. job' = [job EXCEPT ![exec[w].job] = r]
      BY <1>1, <1>2
  <2> HIDE DEF r
  <2> QED
      BY <1>1, <1>2, <2>2, <2>3, <2>4, OutcomeStep, ProjectKept
<1>3. CASE ~Owns(w)
    BY <1>1, <1>3, IdleStep
<1> QED
    BY <1>2, <1>3

LEMMA FailStep == ASSUME Ind, NEW w \in Workers, FailAttempt(w) PROVE Ind'
<1> DEFINE j == exec[w].job
           again == exec[w].phase # "unresolved" /\ job[j].attempts < job[j].max
           r == Released(job[j], IF again THEN "queued" ELSE "failed")
<1>1. /\ exec[w].phase # "idle"
      /\ exec' = [exec EXCEPT ![w] = Idle]
      /\ UNCHANGED <<entry, sweep, faults>>
    BY DEF FailAttempt
<1>2. CASE Owns(w)
  <2>1. job[j] \in Row
      BY <1>1 DEF Ind, TypeOK, HandlerInv
  <2>2. /\ r \in Row /\ r.kind = job[j].kind
        /\ r.state = IF again THEN "queued" ELSE "failed"
    <3>1. (IF again THEN "queued" ELSE "failed") \in Active \union {"succeeded", "failed"}
        BY DEF Active
    <3> QED
        BY <2>1, <3>1, ReleasedRow
  <2>3. /\ job' = [job EXCEPT ![j] = r]
        /\ project' = IF again THEN project ELSE FailedStage(j)
      BY <1>2 DEF FailAttempt
  <2>4. /\ project' \in Project /\ project'.lexicalJob = project.lexicalJob
        /\ \/ project'.lexical = project.lexical
           \/ j = project.lexicalJob /\ ~again
      BY <2>3 DEF FailedStage, Ind, TypeOK, Project
  <2> HIDE DEF again, r
  <2> QED
      BY <1>1, <1>2, <2>2, <2>3, <2>4, OutcomeStep
<1>3. CASE ~Owns(w)
  <2>1. UNCHANGED <<project, job>>
      BY <1>3 DEF FailAttempt
  <2> QED
      BY <1>1, <2>1, IdleStep
<1> QED
    BY <1>2, <1>3

-----------------------------------------------------------------------------
(* Steps of the handlers *)

(* A step of the handler of w: it records its progress, writes entries, adds
   an embedding job or brings search back. *)
LEMMA HandlerStep ==
  ASSUME Ind, NEW w \in Workers, exec[w].phase # "idle",
         exec' \in [Workers -> Execution], exec'[w].job = exec[w].job,
         \A v \in Workers \ {w} : exec'[v] = exec[v],
         exec'[w].phase \in {"begin", "write", "ready"} => job[exec[w].job].kind = "embedding",
         exec'[w].phase = "done"
           => project'.lexical = "ready" \/ job[exec[w].job].kind = "embedding",
         job' \in [Jobs -> Row],
         \A j \in Jobs :
           IF job[j].state = "absent"
           THEN job'[j].state = "absent" \/ job'[j].kind = "embedding"
           ELSE /\ job'[j].kind = job[j].kind /\ job'[j].state = job[j].state
                /\ job'[j].worker = job[j].worker /\ job'[j].lease = job[j].lease,
         project' \in Project, project'.lexicalJob = project.lexicalJob,
         project'.lexical \in {project.lexical, "ready"},
         entry' \in [Entries -> Entry], VectorsSound',
         UNCHANGED sweep, Fault \/ UNCHANGED faults
  PROVE  Ind'
<1>1. faults' \in 0..MaxFaults
    BY FaultsBounded
<1>2. TypeOK'
    BY <1>1 DEF Ind, TypeOK
<1>3. project.lexicalJob \in Jobs \union {NoJob}
    BY DEF Ind, TypeOK, Project
<1>4. RebuildInv'
    BY <1>3 DEF Ind, RebuildInv, Active
<1>5. HandlerInv'
  <2> SUFFICES ASSUME NEW v \in Workers, exec'[v].phase # "idle"
               PROVE  /\ exec'[v].job \in Jobs
                      /\ job'[exec'[v].job].state # "absent"
                      /\ exec'[v].phase \in {"begin", "write", "ready"}
                           => job'[exec'[v].job].kind = "embedding"
                      /\ exec'[v].phase = "done" /\ Owns(v)' /\ exec'[v].job = project'.lexicalJob
                           => project'.lexical = "ready"
      BY DEF HandlerInv
  <2>1. exec'[v].job = exec[v].job /\ exec[v].phase # "idle"
      BY DEF Ind, TypeOK
  <2>2. exec[v].job \in Jobs /\ job[exec[v].job].state # "absent"
      BY <2>1 DEF Ind, HandlerInv
  <2>3. /\ job'[exec[v].job].kind = job[exec[v].job].kind
        /\ job'[exec[v].job].state = job[exec[v].job].state
        /\ job'[exec[v].job].worker = job[exec[v].job].worker
        /\ job'[exec[v].job].lease = job[exec[v].job].lease
      BY <2>2
  <2>4. exec[v].job = project.lexicalJob => job[exec[v].job].kind = "lexical"
      BY <2>2, ConstantsOK DEF Ind, RebuildInv
  <2>5. CASE v = w
      BY <2>1, <2>2, <2>3, <2>4, <2>5
  <2>6. CASE v # w
    <3>1. exec'[v] = exec[v]
        BY <2>6
    <3>2. Owns(v)' => Owns(v)
        BY <3>1, <2>3 DEF Owns
    <3> QED
        BY <3>1, <3>2, <2>2, <2>3 DEF Ind, HandlerInv
  <2> QED
      BY <2>5, <2>6
<1> QED
    BY <1>2, <1>4, <1>5, <1>2 DEF Ind

(* It only takes another branch. *)
LEMMA GotoStep ==
  ASSUME Ind, NEW w \in Workers, exec[w].phase # "idle",
         NEW phase \in Phases \ {"begin", "write", "done"}, Goto(w, phase),
         phase = "ready" => job[exec[w].job].kind = "embedding",
         UNCHANGED <<project, job, entry, sweep>>, Fault \/ UNCHANGED faults
  PROVE  Ind'
<1>1. TypeOK
    BY DEF Ind
<1>2. /\ exec' \in [Workers -> Execution]
      /\ exec'[w].phase = phase /\ exec'[w].job = exec[w].job
      /\ \A v \in Workers \ {w} : exec'[v] = exec[v]
    BY <1>1, GotoExec
<1>3. /\ project' \in Project /\ job' \in [Jobs -> Row] /\ entry' \in [Entries -> Entry]
    BY <1>1 DEF TypeOK
<1>4. VectorsSound'
    BY DEF Ind, VectorsSound
<1> QED
    BY <1>2, <1>3, <1>4, HandlerStep

(* It writes an entry and records it. *)
LEMMA BatchStep ==
  ASSUME Ind, NEW w \in Workers, exec[w].phase # "idle",
         NEW e \in 0..LastEntry, NEW r, e \in Entries => r \in Entry,
         e \in Entries => r.vector \in {NoText, r.text},
         entry' = [entry EXCEPT ![e] = r], Advance(w, e, "scan"),
         UNCHANGED <<project, sweep, faults>>
  PROVE  Ind'
<1>1. TypeOK /\ exec[w].job \in Jobs
    BY DEF Ind, HandlerInv
<1>2. entry' \in [Entries -> Entry] /\ VectorsSound'
    BY EntryStep
<1>3. /\ exec' \in [Workers -> Execution] /\ job' \in [Jobs -> Row]
      /\ exec'[w].phase = "scan" /\ exec'[w].job = exec[w].job
      /\ \A v \in Workers \ {w} : exec'[v] = exec[v]
      /\ \A j \in Jobs : /\ job'[j].kind = job[j].kind /\ job'[j].state = job[j].state
                         /\ job'[j].worker = job[j].worker /\ job'[j].lease = job[j].lease
    BY <1>1, RecordExec
<1> QED
    BY <1>2, <1>3, HandlerStep, ProjectKept

LEMMA LexicalStep == ASSUME Ind, NEW w \in Workers, LexicalBatch(w) PROVE Ind'
<1>1. exec[w].phase # "idle" /\ UNCHANGED <<project, sweep, faults>>
    BY DEF LexicalBatch
<1>2. CASE \E phase \in {"spawn", "rejected"} : Goto(w, phase) /\ UNCHANGED <<job, entry>>
    BY <1>1, <1>2, GotoStep DEF Phases
<1>3. ASSUME NEW e \in First(Beyond(exec[w].cursor)),
             entry' = [entry EXCEPT ![e] = Written(entry[e])], Advance(w, e, "scan")
      PROVE  Ind'
  <2>1. e \in Entries /\ e \in 0..LastEntry
      BY ConstantsOK DEF First, Beyond, Present, Entries
  <2>2. entry[e] \in Entry /\ entry[e].vector \in {NoText, entry[e].text}
      BY <2>1, CurrentEntry
  <2>3. Written(entry[e]) \in Entry
      BY <2>2, WrittenEntry DEF Ind
  <2>4. Written(entry[e]).vector \in {NoText, Written(entry[e]).text}
      BY <2>2, <2>3, WrittenCurrent
  <2> QED
      BY <1>1, <1>3, <2>1, <2>3, <2>4, BatchStep
<1> QED
    BY <1>2, <1>3 DEF LexicalBatch

LEMMA ReadStep == ASSUME Ind, NEW w \in Workers, ReadChunk(w) PROVE Ind'
<1> DEFINE more == {e \in Beyond(exec[w].cursor) : entry[e].text # NoText}
<1>1. /\ exec[w].phase # "idle" /\ job[exec[w].job].kind = "embedding"
      /\ UNCHANGED <<project, job, entry, sweep, faults>>
      /\ \/ Goto(w, "ready")
         \/ \E e \in First(more) :
              exec' = [exec EXCEPT ![w] = [exec[w] EXCEPT !.phase = "write", !.cursor = e,
                                                          !.chunk = entry[e].text]]
    BY DEF ReadChunk
<1>2. CASE Goto(w, "ready")
    BY <1>1, <1>2, GotoStep DEF Phases
<1>3. ASSUME NEW e \in First(more),
             exec' = [exec EXCEPT ![w] = [exec[w] EXCEPT !.phase = "write", !.cursor = e,
                                                         !.chunk = entry[e].text]]
      PROVE  Ind'
  <2> DEFINE text == entry[e].text
             x == [exec[w] EXCEPT !.phase = "write", !.cursor = e, !.chunk = text]
  <2>1. e \in Entries /\ e \in 0..LastEntry
      BY ConstantsOK DEF First, Beyond, Present, Entries
  <2>2. text \in Texts \union {NoText}
      BY <2>1 DEF Ind, TypeOK, Entry
  <2>3. exec[w] \in Execution
      BY DEF Ind, TypeOK
  <2> HIDE DEF text
  <2>4. x \in Execution /\ x.phase = "write" /\ x.job = exec[w].job
      BY <2>1, <2>2, <2>3 DEF Execution, Phases
  <2>5. exec' = [exec EXCEPT ![w] = x]
      BY <1>3 DEF text
  <2> HIDE DEF x
  <2>6. /\ exec' \in [Workers -> Execution] /\ exec'[w] = x
        /\ \A v \in Workers \ {w} : exec'[v] = exec[v]
      BY <2>4, <2>5 DEF Ind, TypeOK
  <2>7. project' \in Project /\ job' \in [Jobs -> Row] /\ entry' \in [Entries -> Entry]
      BY <1>1 DEF Ind, TypeOK
  <2>8. VectorsSound'
      BY <1>1 DEF Ind, VectorsSound
  <2> QED
      BY <1>1, <2>4, <2>6, <2>7, <2>8, HandlerStep
<1> QED
    BY <1>1, <1>2, <1>3

LEMMA WriteStep == ASSUME Ind, NEW w \in Workers, WriteChunk(w) PROVE Ind'
<1> DEFINE e == exec[w].cursor
           text == exec[w].chunk
           r == Embedded(entry[e], text)
<1>1. exec[w].phase # "idle" /\ UNCHANGED <<project, sweep, faults>>
    BY DEF WriteChunk
<1>2. CASE Goto(w, "rejected") /\ UNCHANGED <<job, entry>>
    BY <1>1, <1>2, GotoStep DEF Phases
<1>3. CASE entry' = [entry EXCEPT ![e] = r] /\ Advance(w, e, "scan")
  <2>1. e \in 0..LastEntry /\ text \in Texts \union {NoText}
      BY DEF Ind, TypeOK, Execution
  <2>2. ASSUME e \in Entries PROVE r \in Entry /\ r.vector \in {NoText, r.text}
    <3>1. entry[e] \in Entry /\ entry[e].vector \in {NoText, entry[e].text}
        BY <2>2, CurrentEntry
    <3>2. Written(entry[e]) \in Entry /\ r \in Entry
        BY <2>1, <3>1, WrittenEntry, EmbeddedEntry DEF Ind
    <3> QED
        BY <3>1, <3>2, EmbeddedCurrent
  <2> HIDE DEF e, r
  <2> QED
      BY <1>1, <1>3, <2>1, <2>2, BatchStep
<1> QED
    BY <1>2, <1>3 DEF WriteChunk

(* It ends its part, and writes the project. *)
LEMMA ProjectStep ==
  ASSUME Ind, NEW w \in Workers, exec[w].phase # "idle",
         NEW phase, phase = "scan" \/ phase = "done", Goto(w, phase),
         phase = "done" => project'.lexical = "ready" \/ job[exec[w].job].kind = "embedding",
         project' \in Project, project'.lexicalJob = project.lexicalJob,
         project'.lexical = project.lexical \/ project'.lexical = "ready",
         job' \in [Jobs -> Row],
         \A j \in Jobs : \/ job'[j] = job[j]
                         \/ job[j].state = "absent" /\ job'[j].kind = "embedding",
         UNCHANGED <<entry, sweep, faults>>
  PROVE  Ind'
<1>1. TypeOK /\ phase \in Phases
    BY DEF Ind, Phases
<1>2. /\ exec' \in [Workers -> Execution]
      /\ exec'[w].phase = phase /\ exec'[w].job = exec[w].job
      /\ \A v \in Workers \ {w} : exec'[v] = exec[v]
    BY <1>1, GotoExec
<1>3. entry' \in [Entries -> Entry] /\ VectorsSound'
    BY DEF Ind, TypeOK, VectorsSound
<1> QED
    BY <1>2, <1>3, HandlerStep

LEMMA SpawnStep ==
  ASSUME Ind, NEW w \in Workers, NEW j \in Jobs,
         ReuseEmbedding(w, j) \/ InsertEmbedding(w, j)
  PROVE  Ind'
<1>1. /\ exec[w].phase # "idle" /\ Goto(w, "done") /\ project' = Spawned(j)
      /\ UNCHANGED <<entry, sweep, faults>>
    BY DEF ReuseEmbedding, InsertEmbedding
<1>2. /\ project' \in Project /\ project'.lexicalJob = project.lexicalJob
      /\ project'.lexical = "ready"
    BY <1>1 DEF Spawned, Ind, TypeOK, Project
<1> DEFINE phase == "done"
<1>0. phase = "done" /\ Goto(w, phase)
    BY <1>1
<1> HIDE DEF phase
<1>3. CASE ReuseEmbedding(w, j)
  <2>1. job' = job
      BY <1>3 DEF ReuseEmbedding
  <2>2. job' \in [Jobs -> Row]
      BY <2>1 DEF Ind, TypeOK
  <2> QED
      BY <1>0, <1>1, <1>2, <2>1, <2>2, ProjectStep
<1>4. CASE InsertEmbedding(w, j)
  <2> DEFINE total == job[exec[w].job].total
             r == NewRow("embedding", total)
  <2>1. total \in Nat \union {NoTotal}
      BY <1>1 DEF Ind, TypeOK, HandlerInv, Row
  <2>2. r \in Row /\ r.kind = "embedding"
      BY <2>1, BlankIsRow DEF NewRow
  <2>3. job' = [job EXCEPT ![j] = r] /\ job[j].state = "absent"
      BY <1>4 DEF InsertEmbedding, Absent
  <2> HIDE DEF r
  <2>4. job' \in [Jobs -> Row] /\ \A i \in Jobs : job'[i] = IF i = j THEN r ELSE job[i]
      BY <2>2, <2>3 DEF Ind, TypeOK
  <2> QED
      BY <1>0, <1>1, <1>2, <2>2, <2>3, <2>4, ProjectStep
<1> QED
    BY <1>3, <1>4

LEMMA EmbeddingStep ==
  ASSUME Ind, NEW w \in Workers,
         (\E enabled \in BOOLEAN : BeginEmbedding(w, enabled)) \/ FinishEmbedding(w)
  PROVE  Ind'
<1>1. /\ exec[w].phase \in {"begin", "ready"}
      /\ \E phase \in {"scan", "done"} : Goto(w, phase)
      /\ \E state \in {"running", "degraded", "ready"} :
           project' = [project EXCEPT !.embedding = state]
      /\ UNCHANGED <<job, entry, sweep, faults>>
    BY DEF BeginEmbedding, FinishEmbedding
<1>2. job[exec[w].job].kind = "embedding"
    BY <1>1 DEF Ind, HandlerInv
<1>3. /\ project' \in Project /\ project'.lexicalJob = project.lexicalJob
      /\ project'.lexical = project.lexical
    BY <1>1 DEF Ind, TypeOK, Project
<1>4. job' \in [Jobs -> Row]
    BY <1>1 DEF Ind, TypeOK
<1>5. PICK phase : (phase = "scan" \/ phase = "done") /\ Goto(w, phase)
    BY <1>1
<1>6. exec[w].phase # "idle" /\ UNCHANGED <<job, entry, sweep, faults>>
    BY <1>1
<1> QED
    BY <1>2, <1>3, <1>4, <1>5, <1>6, ProjectStep

LEMMA SweepStep == ASSUME Ind, Sweeping PROVE Ind'
<1>0. TypeOK
    BY DEF Ind
<1>1. CASE SweepWrite
  <2> DEFINE e == sweep.entry
             r == IF EmbeddingRefused(entry[e], sweep.text) THEN entry[e]
                  ELSE Embedded(entry[e], sweep.text)
  <2>1. entry' = [entry EXCEPT ![e] = r] /\ UNCHANGED <<project, job, exec, faults>>
      BY <1>1 DEF SweepWrite
  <2>2. sweep' \in [entry: 0..LastEntry, text: Texts \union {NoText}]
      BY <1>1, ConstantsOK DEF SweepWrite, NotSweeping
  <2>3. ASSUME e \in Entries PROVE r \in Entry /\ r.vector \in {NoText, r.text}
    <3>1. entry[e] \in Entry /\ entry[e].vector \in {NoText, entry[e].text}
        BY <2>3, CurrentEntry
    <3>2. Written(entry[e]) \in Entry
        BY <1>0, <3>1, WrittenEntry
    <3>3. Embedded(entry[e], sweep.text) \in Entry
        BY <1>0, <3>1, EmbeddedEntry DEF TypeOK
    <3>4. Embedded(entry[e], sweep.text).vector \in {NoText, Embedded(entry[e], sweep.text).text}
        BY <3>1, <3>2, EmbeddedCurrent
    <3> QED
        BY <3>1, <3>3, <3>4
  <2> HIDE DEF e, r
  <2>4. entry' \in [Entries -> Entry] /\ VectorsSound'
      BY <2>1, <2>3, EntryStep
  <2>5. TypeOK'
      BY <1>0, <2>1, <2>2, <2>4 DEF TypeOK
  <2>6. RebuildInv' /\ HandlerInv'
      BY <2>1 DEF Ind, RebuildInv, HandlerInv, Owns
  <2> QED
      BY <2>4, <2>5, <2>6 DEF Ind
<1>2. ASSUME NEW e \in Entries, SweepRead(e) PROVE Ind'
  <2>1. sweep' \in [entry: 0..LastEntry, text: Texts \union {NoText}]
    <3>1. entry[e].text \in Texts \union {NoText} /\ e \in 0..LastEntry
        BY <1>0, ConstantsOK DEF TypeOK, Entry, Entries
    <3> QED
        BY <1>2, <3>1 DEF SweepRead
  <2>2. UNCHANGED <<project, job, entry, exec, faults>>
      BY <1>2 DEF SweepRead
  <2>3. TypeOK'
      BY <1>0, <2>1, <2>2 DEF TypeOK
  <2>4. RebuildInv' /\ HandlerInv' /\ VectorsSound'
      BY <2>2 DEF Ind, RebuildInv, HandlerInv, Owns, VectorsSound
  <2> QED
      BY <2>3, <2>4 DEF Ind
<1> QED
    BY <1>1, <1>2 DEF Sweeping

-----------------------------------------------------------------------------
(* Faults and time *)

LEMMA ExpiryStep == ASSUME Ind, NEW j \in Jobs, LeaseExpires(j) PROVE Ind'
<1> DEFINE r == [job[j] EXCEPT !.lease = "expired"]
<1>1. /\ job' = [job EXCEPT ![j] = r]
      /\ UNCHANGED <<project, entry, exec, sweep>>
      /\ Fault \/ UNCHANGED faults
    BY DEF LeaseExpires
<1>2. /\ r \in Row /\ r.kind = job[j].kind /\ r.state = job[j].state
      /\ r.worker = job[j].worker /\ r.lease = "expired"
  <2>1. job[j] \in Row
      BY DEF Ind, TypeOK
  <2> QED
      BY <2>1, ExpiredRow
<1> HIDE DEF r
<1>3. job' \in [Jobs -> Row] /\ \A i \in Jobs : job'[i] = IF i = j THEN r ELSE job[i]
    BY <1>1, <1>2 DEF Ind, TypeOK
<1>4. project.lexicalJob \in Jobs \union {NoJob}
    BY DEF Ind, TypeOK, Project
<1>5. RebuildInv'
    BY <1>1, <1>2, <1>3, <1>4 DEF Ind, RebuildInv
<1>6. HandlerInv'
    BY <1>1, <1>2, <1>3 DEF Ind, HandlerInv, Owns
<1> QED
    BY <1>1, <1>3, <1>5, <1>6, Reduced, FaultsBounded, ExecKept, ProjectKept

LEMMA CooldownStep == ASSUME Ind, CooldownEnds PROVE Ind'
<1>1. /\ project' = [project EXCEPT !.cooling = FALSE]
      /\ UNCHANGED <<job, entry, exec, sweep, faults>>
    BY DEF CooldownEnds
<1>2. /\ project' \in Project /\ project'.lexicalJob = project.lexicalJob
      /\ project'.lexical = project.lexical
    BY <1>1 DEF Ind, TypeOK, Project
<1>3. job' \in [Jobs -> Row]
    BY <1>1 DEF Ind, TypeOK
<1>4. RebuildInv' /\ HandlerInv'
    BY <1>1, <1>2 DEF Ind, RebuildInv, HandlerInv, Owns
<1> QED
    BY <1>1, <1>2, <1>3, <1>4, Reduced, FaultsBounded, ExecKept

LEMMA NextInd == Ind /\ [Next]_vars => Ind'
<1> SUFFICES ASSUME Ind, [Next]_vars PROVE Ind'
    OBVIOUS
<1>1. CASE Request
    BY <1>1, EntryRequest, ChangeStep, RetryStep DEF Request
<1>2. ASSUME NEW w \in Workers, Loop(w) PROVE Ind'
  <2>1. CASE LoseLease(w)
      BY <2>1, IdleStep DEF LoseLease
  <2> QED
      BY <1>2, <2>1, ClaimStep, CompleteStep, FailStep DEF Loop
<1>3. ASSUME NEW w \in Workers, Handler(w) PROVE Ind'
  <2>1. CASE FindNoEmbedding(w)
      BY <2>1, GotoStep DEF FindNoEmbedding, Phases
  <2> QED
      BY <1>3, <2>1, LexicalStep, SpawnStep, EmbeddingStep, ReadStep, WriteStep DEF Handler
<1>4. ASSUME NEW w \in Workers, HandlerError(w) PROVE Ind'
    BY <1>4, GotoStep DEF HandlerError, Phases
<1>5. ASSUME NEW w \in Workers, Vanish(w) PROVE Ind'
    BY <1>5, IdleStep DEF Vanish
<1>6. CASE Sweeping
    BY <1>6, SweepStep
<1>7. ASSUME NEW j \in Jobs, LeaseExpires(j) PROVE Ind'
    BY <1>7, ExpiryStep
<1>8. CASE CooldownEnds
    BY <1>8, CooldownStep
<1>9. CASE UNCHANGED vars
    BY <1>9 DEF vars, Ind, TypeOK, RebuildInv, HandlerInv, VectorsSound, Owns
<1> QED
    BY <1>1, <1>2, <1>3, <1>4, <1>5, <1>6, <1>7, <1>8, <1>9 DEF Next

(* The invariant holds of every state the rebuild can be in. *)
LEMMA IndHolds == Spec => []Ind
<1> QED
    BY InitInd, NextInd, PTL DEF Spec

(* Every row, handler and state of the project stays of its type, in whatever
   order requests, workers, errors and lost leases come. *)
THEOREM TypeCorrect == Spec => []TypeOK
<1>1. Ind => TypeOK
    BY DEF Ind
<1> QED
    BY <1>1, IndHolds, PTL

(* No vector is that of another text than its entry has: not one the provider
   computed before the entry was edited or the primary source changed, and not
   one a handler writes that has lost its lease. *)
THEOREM VectorsCurrent == Spec => []VectorCurrent
<1>1. Ind => VectorCurrent
    BY DEF Ind, VectorsSound, VectorCurrent, Present
<1> QED
    BY <1>1, IndHolds, PTL

(* While search is suspended its lexical job has not succeeded, and no lexical
   job of another change is under way. *)
THEOREM RebuildIsOwed == Spec => []RebuildOwed
<1>1. Ind => RebuildOwed
    BY DEF Ind, RebuildInv, RebuildOwed, Active
<1> QED
    BY <1>1, IndHolds, PTL

-----------------------------------------------------------------------------
(* Which entries a rebuild has reached *)

Fresh(r, lang) == r.text = <<r.edits, lang>>
Indexed(rows, lang, c) == \A e \in Entries : rows[e].present /\ e <= c => Fresh(rows[e], lang)

(* The row of a rebuild tells how far it got. *)
RowTells(r, rows, lang) ==
  /\ Indexed(rows, lang, r.cursor)
  /\ r.state = "succeeded" => Indexed(rows, lang, LastEntry)

(* So does a handler that executes it, with its lease or without. *)
HandlerTells(x, j, rows, lang) ==
  x.phase # "idle" /\ x.job = j =>
    /\ Indexed(rows, lang, x.cursor)
    /\ x.phase \in {"spawn", "insert", "done"} => Indexed(rows, lang, LastEntry)

(* Nobody ever takes an entry back: an attempt that comes late writes under
   the same primary source, since a change waits for the rebuild. *)
TextsSound ==
  /\ Ready
  /\ project.lexicalJob = NoJob => Indexed(entry, project.lang, LastEntry)
  /\ project.lexicalJob # NoJob => RowTells(job[project.lexicalJob], entry, project.lang)
  /\ \A w \in Workers : HandlerTells(exec[w], project.lexicalJob, entry, project.lang)

Improves == \A e \in Entries : entry'[e] = entry[e] \/ Fresh(entry'[e], project.lang)

LEMMA IndexedStays ==
  ASSUME Improves, NEW c, Indexed(entry, project.lang, c)
  PROVE  Indexed(entry', project.lang, c)
BY DEF Improves, Indexed

LEMMA AllIndexed ==
  ASSUME NEW rows, NEW lang, NEW c \in 0..LastEntry, Indexed(rows, lang, LastEntry)
  PROVE  Indexed(rows, lang, c)
BY ConstantsOK DEF Indexed, Entries

LEMMA TextsStep ==
  ASSUME TextsSound, Improves,
         project'.repair = project.repair, project'.lang = project.lang,
         project'.lexicalJob = project.lexicalJob,
         project.lexicalJob # NoJob =>
           job'[project.lexicalJob] = job[project.lexicalJob] \/ RowTells(job'[project.lexicalJob], entry', project.lang),
         \A w \in Workers : exec'[w] = exec[w]
           \/ HandlerTells(exec'[w], project.lexicalJob, entry', project.lang)
  PROVE  TextsSound'
<1>1. \A c : Indexed(entry, project.lang, c) => Indexed(entry', project.lang, c)
    BY IndexedStays
<1>2. Ready' /\ (project'.lexicalJob = NoJob => Indexed(entry', project'.lang, LastEntry))
    BY <1>1 DEF TextsSound, Ready
<1>3. project'.lexicalJob # NoJob => RowTells(job'[project'.lexicalJob], entry', project'.lang)
    BY <1>1 DEF TextsSound, RowTells
<1>4. \A w \in Workers : HandlerTells(exec'[w], project'.lexicalJob, entry', project'.lang)
    BY <1>1 DEF TextsSound, HandlerTells
<1> QED
    BY <1>2, <1>3, <1>4 DEF TextsSound

(* What the trigger writes is fresh. *)
LEMMA WrittenFresh ==
  ASSUME Ready, NEW r \in Entry
  PROVE  Fresh(Written(r), project.lang)
<1>1. Written(r).text = <<r.edits, project.lang>> /\ Written(r).edits = r.edits
    BY DEF Written, Entry
<1> QED
    BY <1>1 DEF Fresh

LEMMA EmbeddedFresh ==
  ASSUME Ready, NEW r \in Entry, NEW text, TypeOK
  PROVE  Embedded(r, text) = r \/ Fresh(Embedded(r, text), project.lang)
<1>1. CASE r.text # text
    BY <1>1 DEF Embedded
<1>2. CASE r.text = text /\ Written(r).text = text
  <2>1. Written(r).text = <<r.edits, project.lang>>
      BY DEF Written, Entry
  <2>2. Embedded(r, text) = [r EXCEPT !.vector = text]
      BY <1>2 DEF Embedded
  <2>3. Embedded(r, text).text = r.text /\ Embedded(r, text).edits = r.edits
      BY <2>2 DEF Entry
  <2> QED
      BY <1>2, <2>1, <2>3 DEF Fresh
<1>3. CASE r.text = text /\ Written(r).text # text
  <2>1. Embedded(r, text) = Written(r)
      BY <1>3 DEF Embedded
  <2> QED
      BY <2>1, WrittenFresh
<1> QED
    BY <1>1, <1>2, <1>3

LEMMA OneImproved ==
  ASSUME Ind, NEW e, NEW r, entry' = [entry EXCEPT ![e] = r],
         e \in Entries => r = entry[e] \/ Fresh(r, project.lang)
  PROVE  Improves
<1>1. \A d \in Entries : entry'[d] = IF d = e THEN r ELSE entry[d]
    BY DEF Ind, TypeOK
<1> QED
    BY <1>1 DEF Improves

LEMMA NoneImproved == ASSUME UNCHANGED entry PROVE Improves
BY DEF Improves

LEMMA TextsInit == ASSUME Init PROVE TextsSound
<1>1. project.repair = "ready" /\ project.lang = 0 /\ project.lexicalJob = NoJob
    BY DEF Init
<1>2. \A w \in Workers : exec[w].phase = "idle"
    BY DEF Init, Idle
<1>3. Indexed(entry, 0, LastEntry)
  <2> SUFFICES ASSUME NEW e \in Entries, entry[e].present PROVE Fresh(entry[e], 0)
      BY DEF Indexed
  <2> DEFINE full(langs) == [Blank EXCEPT !.langs = langs, !.text = <<0, 0>>]
             none == [Blank EXCEPT !.present = FALSE]
  <2>1. entry[e] \in {full(langs) : langs \in {l \in LangSets : 0 \in l}} \union {none}
      BY DEF Init
  <2>2. none.present = FALSE
      BY DEF Blank
  <2>3. ASSUME NEW langs PROVE full(langs).text = <<full(langs).edits, 0>>
      BY DEF Blank
  <2> HIDE DEF full, none
  <2> QED
      BY <2>1, <2>2, <2>3 DEF Fresh
<1> QED
    BY <1>1, <1>2, <1>3 DEF TextsSound, Ready, HandlerTells

(* Steps that write entries, and nothing a rebuild reads. *)
LEMMA TextsWritten ==
  ASSUME Ind, TextsSound, Improves, UNCHANGED <<project, job, exec>>
  PROVE  TextsSound'
<1>1. /\ project'.repair = project.repair /\ project'.lang = project.lang
      /\ project'.lexicalJob = project.lexicalJob
    OBVIOUS
<1>2. job'[project.lexicalJob] = job[project.lexicalJob]
    OBVIOUS
<1>3. \A w \in Workers : exec'[w] = exec[w]
    OBVIOUS
<1> QED
    BY <1>1, <1>2, <1>3, TextsStep

LEMMA RequestWrites ==
  ASSUME TypeOK, NEW e \in Entries,
         SaveEntry(e) \/ \E langs \in LangSets : AddEntry(e, langs) \/ ReplaceOriginals(e, langs)
  PROVE  \E r \in Entry : r.present /\ entry' = [entry EXCEPT ![e] = Written(r)]
<1>1. entry[e] \in Entry
    BY DEF TypeOK
<1>2. CASE SaveEntry(e)
    BY <1>1, <1>2 DEF SaveEntry
<1>3. ASSUME NEW langs \in LangSets, AddEntry(e, langs)
      PROVE  \E r \in Entry : r.present /\ entry' = [entry EXCEPT ![e] = Written(r)]
  <2> DEFINE r == [Blank EXCEPT !.langs = langs]
  <2>1. langs \in SUBSET Languages /\ 0 \in 0..MaxEdits
      BY ConstantsOK DEF Languages
  <2>2. r \in Entry /\ r.present
      BY <2>1 DEF Blank, Entry
  <2>3. entry' = [entry EXCEPT ![e] = Written(r)]
      BY <1>3 DEF AddEntry
  <2> QED
      BY <2>2, <2>3
<1>4. ASSUME NEW langs \in LangSets, ReplaceOriginals(e, langs)
      PROVE  \E r \in Entry : r.present /\ entry' = [entry EXCEPT ![e] = Written(r)]
  <2> DEFINE old == entry[e]
             n == old.edits + 1
             r == [old EXCEPT !.edits = n, !.langs = langs]
  <2>1. old.present /\ old.edits \in 0..MaxEdits /\ old.edits < MaxEdits
      BY <1>1, <1>4 DEF ReplaceOriginals, Entry
  <2>2. langs \in SUBSET Languages /\ n \in 0..MaxEdits
      BY <2>1, ConstantsOK DEF Languages
  <2>3. entry' = [entry EXCEPT ![e] = Written(r)]
      BY <1>4 DEF ReplaceOriginals
  <2> HIDE DEF n
  <2>4. r \in Entry /\ r.present
      BY <1>1, <2>1, <2>2 DEF Entry
  <2> QED
      BY <2>3, <2>4
<1> QED
    BY <1>2, <1>3, <1>4

LEMMA TextsRequest ==
  ASSUME Ind, TextsSound, NEW e \in Entries,
         SaveEntry(e) \/ \E langs \in LangSets : AddEntry(e, langs) \/ ReplaceOriginals(e, langs)
  PROVE  TextsSound'
<1>1. PICK r \in Entry : entry' = [entry EXCEPT ![e] = Written(r)]
    BY RequestWrites DEF Ind
<1>2. Fresh(Written(r), project.lang)
    BY WrittenFresh DEF TextsSound
<1>3. Improves
    BY <1>1, <1>2, OneImproved
<1>4. UNCHANGED <<project, job, exec>>
    BY DEF SaveEntry, AddEntry, ReplaceOriginals
<1> QED
    BY <1>3, <1>4, TextsWritten

LEMMA TextsSweep == ASSUME Ind, TextsSound, Sweeping PROVE TextsSound'
<1>1. UNCHANGED <<project, job, exec>>
    BY DEF Sweeping, SweepWrite, SweepRead
<1>2. CASE SweepWrite
  <2> DEFINE e == sweep.entry
             r == IF EmbeddingRefused(entry[e], sweep.text) THEN entry[e]
                  ELSE Embedded(entry[e], sweep.text)
  <2>1. entry' = [entry EXCEPT ![e] = r]
      BY <1>2 DEF SweepWrite
  <2>2. ASSUME e \in Entries PROVE r = entry[e] \/ Fresh(r, project.lang)
    <3>1. entry[e] \in Entry /\ TypeOK /\ Ready
        BY <2>2, CurrentEntry DEF Ind, TextsSound
    <3>2. Embedded(entry[e], sweep.text) = entry[e] \/ Fresh(Embedded(entry[e], sweep.text), project.lang)
        BY <3>1, EmbeddedFresh
    <3> QED
        BY <3>2
  <2> HIDE DEF e, r
  <2>3. Improves
      BY <2>1, <2>2, OneImproved
  <2> QED
      BY <1>1, <2>3, TextsWritten
<1>3. CASE UNCHANGED entry
    BY <1>1, <1>3, NoneImproved, TextsWritten
<1> QED
    BY <1>2, <1>3 DEF Sweeping, SweepRead

(* A change is accepted only when everything is indexed; its job has got
   nowhere, and nobody executes it. *)
LEMMA TextsChange == ASSUME Ind, TextsSound, NEW j \in Jobs, ChangePrimary(j) PROVE TextsSound'
<1> DEFINE r == NewRow("lexical", Cardinality(Present))
           lang == project.lang + 1
<1>1. /\ job[j].state = "absent" /\ Ready
      /\ job' = [job EXCEPT ![j] = r]
      /\ UNCHANGED <<entry, exec>>
    BY DEF ChangePrimary, Absent
<1>2. project' = [project EXCEPT
                   !.lang = lang, !.cooling = TRUE,
                   !.lexical = "rebuilding", !.lexicalJob = j,
                   !.embedding = "pending", !.embeddingJob = NoJob]
    BY DEF ChangePrimary, Ind, TypeOK, Project
<1>3. project'.repair = project.repair /\ project'.lexicalJob = j
    BY <1>2 DEF Ind, TypeOK, Project
<1>4. Ready'
    BY <1>1, <1>3 DEF Ready
<1>5. j # NoJob
    BY ConstantsOK
<1>6. job'[j].cursor = 0 /\ job'[j].state = "queued"
    BY <1>1 DEF Ind, TypeOK, NewRow
<1>7. Indexed(entry', project'.lang, 0)
    BY DEF Indexed, Entries
<1>8. RowTells(job'[j], entry', project'.lang)
    BY <1>6, <1>7 DEF RowTells
<1>9. \A w \in Workers : HandlerTells(exec'[w], j, entry', project'.lang)
    BY <1>1 DEF HandlerTells, Ind, HandlerInv
<1> QED
    BY <1>3, <1>4, <1>5, <1>8, <1>9 DEF TextsSound

-----------------------------------------------------------------------------
(* Steps of the queue: no cursor moves, and what succeeds is indexed. *)
LEMMA TextsQueue ==
  ASSUME Ind, TextsSound, UNCHANGED entry,
         project'.repair = project.repair, project'.lang = project.lang,
         project'.lexicalJob = project.lexicalJob,
         project.lexicalJob # NoJob =>
           /\ job'[project.lexicalJob].cursor = job[project.lexicalJob].cursor
           /\ job'[project.lexicalJob].state = "succeeded" =>
                \/ job[project.lexicalJob].state = "succeeded"
                \/ Indexed(entry, project.lang, LastEntry),
         \A w \in Workers : exec'[w] = exec[w]
           \/ HandlerTells(exec'[w], project.lexicalJob, entry, project.lang)
  PROVE  TextsSound'
<1>1. entry' = entry /\ Improves
    BY NoneImproved
<1>2. project.lexicalJob # NoJob => RowTells(job'[project.lexicalJob], entry', project.lang)
    BY DEF TextsSound, RowTells
<1>3. \A w \in Workers : exec'[w] = exec[w]
           \/ HandlerTells(exec'[w], project.lexicalJob, entry', project.lang)
    BY <1>1
<1> QED
    BY <1>1, <1>2, <1>3, TextsStep

LEMMA CurrentJob ==
  ASSUME Ind, project.lexicalJob # NoJob
  PROVE  /\ project.lexicalJob \in Jobs /\ job[project.lexicalJob] \in Row
         /\ job[project.lexicalJob].kind = "lexical" /\ job[project.lexicalJob].state # "absent"
BY DEF Ind, TypeOK, Project, RebuildInv

LEMMA TextsRetry == ASSUME Ind, TextsSound, NEW j \in Jobs, ManualRetry(j) PROVE TextsSound'
<1> DEFINE r == Retried(job[j])
<1>1. /\ job' = [job EXCEPT ![j] = r] /\ UNCHANGED <<entry, exec>>
      /\ project' = Restarted(j)
    BY DEF ManualRetry
<1>2. job[j] \in Row
    BY DEF Ind, TypeOK
<1>3. r.cursor = job[j].cursor /\ r.state = "queued"
    BY <1>2, RetriedRow DEF Retried, Row
<1> HIDE DEF r
<1>4. \A i \in Jobs : job'[i] = IF i = j THEN r ELSE job[i]
    BY <1>1 DEF Ind, TypeOK
<1>5. /\ project'.repair = project.repair /\ project'.lang = project.lang
      /\ project'.lexicalJob = project.lexicalJob
    BY <1>1 DEF Restarted, Ind, TypeOK, Project
<1> QED
    BY <1>1, <1>3, <1>4, <1>5, TextsQueue, CurrentJob

(* The claim releases rows, and leases one. *)
LEMMA SweptCursors ==
  ASSUME Ind, NEW j \in Jobs
  PROVE  /\ Swept[j] \in Row /\ Swept[j].cursor = job[j].cursor
         /\ Swept[j].state = "succeeded" => job[j].state = "succeeded"
<1>1. job[j] \in Row /\ Swept \in [Jobs -> Row]
    BY SweptRows DEF Ind, TypeOK
<1>2. Swept[j] = job[j] \/ Swept[j] = Released(job[j], "failed")
    BY DEF Swept
<1>3. /\ Released(job[j], "failed").cursor = job[j].cursor
      /\ Released(job[j], "failed").state = "failed"
    BY <1>1 DEF Released, Row
<1> QED
    BY <1>1, <1>2, <1>3

LEMMA TextsClaim ==
  ASSUME Ind, TextsSound, NEW w \in Workers,
         ClaimNothing(w) \/ \E j \in Jobs : Claim(w, j)
  PROVE  TextsSound'
<1>1. CASE ClaimNothing(w)
    BY <1>1, TextsQueue, CurrentJob, SweptCursors DEF ClaimNothing
<1>2. ASSUME NEW j \in Jobs, Claim(w, j) PROVE TextsSound'
  <2> DEFINE r == Leased(Swept[j], w)
  <2>1. /\ job' = [Swept EXCEPT ![j] = r] /\ exec' = [exec EXCEPT ![w] = Handed(j)]
        /\ UNCHANGED <<project, entry>>
      BY <1>2 DEF Claim
  <2>2. r.cursor = job[j].cursor /\ r.state = "running"
      BY SweptCursors DEF Leased, Row
  <2> HIDE DEF r
  <2>3. \A i \in Jobs : job'[i] = IF i = j THEN r ELSE Swept[i]
      BY <2>1 DEF Swept
  <2>4. HandlerTells(Handed(j), project.lexicalJob, entry, project.lang)
    <3> SUFFICES ASSUME j = project.lexicalJob
                 PROVE  HandlerTells(Handed(j), j, entry, project.lang)
        BY DEF HandlerTells, Handed
    <3>1. job[j].kind = "lexical" /\ RowTells(job[j], entry, project.lang)
        BY CurrentJob, ConstantsOK DEF TextsSound
    <3>2. Handed(j).phase = "scan" /\ Handed(j).cursor = job[j].cursor
        BY <3>1 DEF Handed, FirstPhase
    <3> QED
        BY <3>1, <3>2 DEF RowTells, HandlerTells
  <2>5. \A v \in Workers : exec'[v] = exec[v]
           \/ HandlerTells(exec'[v], project.lexicalJob, entry, project.lang)
      BY <2>1, <2>4 DEF Ind, TypeOK
  <2> QED
      BY <2>1, <2>2, <2>3, <2>5, TextsQueue, CurrentJob, SweptCursors
<1> QED
    BY <1>1, <1>2

(* A handler goes. *)
LEMMA IdleTells == ASSUME NEW j, NEW rows, NEW lang PROVE HandlerTells(Idle, j, rows, lang)
BY DEF HandlerTells, Idle

LEMMA TextsIdle ==
  ASSUME Ind, TextsSound, NEW w \in Workers, exec' = [exec EXCEPT ![w] = Idle],
         UNCHANGED <<project, job, entry>>
  PROVE  TextsSound'
<1>1. \A v \in Workers : exec'[v] = exec[v]
           \/ HandlerTells(exec'[v], project.lexicalJob, entry, project.lang)
    BY IdleTells DEF Ind, TypeOK
<1> QED
    BY <1>1, TextsQueue

LEMMA TextsComplete == ASSUME Ind, TextsSound, NEW w \in Workers, Complete(w) PROVE TextsSound'
<1> DEFINE j == exec[w].job
           r == Succeeded(job[j])
<1>1. /\ exec[w].phase = "done" /\ exec' = [exec EXCEPT ![w] = Idle]
      /\ UNCHANGED <<project, entry>>
    BY DEF Complete
<1>2. CASE job' = job
    BY <1>1, <1>2, TextsIdle
<1>3. CASE job' = [job EXCEPT ![j] = r]
  <2>1. j \in Jobs /\ job[j] \in Row
      BY <1>1 DEF Ind, TypeOK, HandlerInv
  <2>2. r.cursor = job[j].cursor
    <3>1. Released(job[j], "succeeded") \in Row
          /\ Released(job[j], "succeeded").cursor = job[j].cursor
        BY <2>1, ReleasedRow DEF Released, Row
    <3> QED
        BY <3>1 DEF Succeeded, Row
  <2>3. j = project.lexicalJob => Indexed(entry, project.lang, LastEntry)
      BY <1>1 DEF TextsSound, HandlerTells
  <2> HIDE DEF r
  <2>4. \A i \in Jobs : job'[i] = IF i = j THEN r ELSE job[i]
      BY <1>3, <2>1 DEF Ind, TypeOK
  <2>5. \A v \in Workers : exec'[v] = exec[v]
           \/ HandlerTells(exec'[v], project.lexicalJob, entry, project.lang)
      BY <1>1, IdleTells DEF Ind, TypeOK
  <2> QED
      BY <1>1, <2>1, <2>2, <2>3, <2>4, <2>5, TextsQueue, CurrentJob
<1> QED
    BY <1>2, <1>3 DEF Complete

LEMMA TextsFail == ASSUME Ind, TextsSound, NEW w \in Workers, FailAttempt(w) PROVE TextsSound'
<1> DEFINE j == exec[w].job
<1>1. /\ exec[w].phase # "idle" /\ exec' = [exec EXCEPT ![w] = Idle]
      /\ UNCHANGED entry
    BY DEF FailAttempt
<1>2. CASE UNCHANGED <<project, job>>
    BY <1>1, <1>2, TextsIdle
<1>3. ASSUME NEW state \in {"queued", "failed"},
             job' = [job EXCEPT ![j] = Released(job[j], state)],
             project' = project \/ project' = FailedStage(j)
      PROVE  TextsSound'
  <2> DEFINE r == Released(job[j], state)
  <2>1. j \in Jobs /\ job[j] \in Row
      BY <1>1 DEF Ind, TypeOK, HandlerInv
  <2>2. r.cursor = job[j].cursor /\ r.state # "succeeded"
      BY <2>1 DEF Released, Row
  <2> HIDE DEF r
  <2>4. \A i \in Jobs : job'[i] = IF i = j THEN r ELSE job[i]
      BY <1>3, <2>1 DEF Ind, TypeOK, r
  <2>5. \A v \in Workers : exec'[v] = exec[v]
           \/ HandlerTells(exec'[v], project.lexicalJob, entry, project.lang)
      BY <1>1, IdleTells DEF Ind, TypeOK
  <2>6. /\ project'.repair = project.repair /\ project'.lang = project.lang
        /\ project'.lexicalJob = project.lexicalJob
      BY <1>3 DEF FailedStage, Ind, TypeOK, Project
  <2> QED
      BY <1>1, <2>1, <2>2, <2>4, <2>5, <2>6, TextsQueue, CurrentJob
<1>4. \/ UNCHANGED <<project, job>>
      \/ \E state \in {"queued", "failed"} :
           /\ job' = [job EXCEPT ![j] = Released(job[j], state)]
           /\ project' = project \/ project' = FailedStage(j)
    BY DEF FailAttempt
<1> QED
    BY <1>2, <1>3, <1>4

-----------------------------------------------------------------------------
(* Handlers *)

LEMMA TextsGoto ==
  ASSUME Ind, TextsSound, NEW w \in Workers, exec[w].phase # "idle",
         NEW phase \in Phases, Goto(w, phase), UNCHANGED entry,
         phase \in {"spawn", "insert", "done"} /\ exec[w].job = project.lexicalJob
           => Indexed(entry, project.lang, LastEntry),
         project'.repair = project.repair, project'.lang = project.lang,
         project'.lexicalJob = project.lexicalJob,
         project.lexicalJob # NoJob => job'[project.lexicalJob] = job[project.lexicalJob]
  PROVE  TextsSound'
<1> DEFINE x == [exec[w] EXCEPT !.phase = phase]
<1>1. /\ exec' = [exec EXCEPT ![w] = x] /\ exec[w] \in Execution
    BY DEF Goto, Ind, TypeOK
<1>2. x.phase = phase /\ x.job = exec[w].job /\ x.cursor = exec[w].cursor
    BY <1>1 DEF Execution
<1>3. HandlerTells(exec[w], project.lexicalJob, entry, project.lang)
    BY DEF TextsSound
<1>4. HandlerTells(x, project.lexicalJob, entry, project.lang)
    BY <1>2, <1>3 DEF HandlerTells
<1> HIDE DEF x
<1>5. \A v \in Workers : exec'[v] = exec[v]
           \/ HandlerTells(exec'[v], project.lexicalJob, entry, project.lang)
    BY <1>1, <1>4 DEF Ind, TypeOK
<1> QED
    BY <1>5, TextsQueue

(* What is behind the next entry has been indexed before. *)
LEMMA TextsLexical == ASSUME Ind, TextsSound, NEW w \in Workers, LexicalBatch(w) PROVE TextsSound'
<1> DEFINE c == exec[w].cursor
<1>1. exec[w].phase = "scan" /\ UNCHANGED <<project, sweep, faults>>
    BY DEF LexicalBatch
<1>2. CASE Beyond(c) = {} /\ Goto(w, "spawn") /\ UNCHANGED <<job, entry>>
  <2>1. ASSUME exec[w].job = project.lexicalJob
        PROVE  Indexed(entry, project.lang, LastEntry)
    <3>1. Indexed(entry, project.lang, c)
        BY <1>1, <2>1 DEF TextsSound, HandlerTells
    <3>2. \A e \in Entries : entry[e].present => ~(e > c)
        BY <1>2 DEF Beyond, Present
    <3>3. c \in Nat /\ Entries \subseteq Nat
        BY ConstantsOK DEF Ind, TypeOK, Execution, Entries
    <3>4. ASSUME NEW e \in Entries, entry[e].present PROVE e <= c
      <4>1. ~(e > c) /\ e \in Nat /\ c \in Nat
          BY <3>2, <3>3, <3>4
      <4> HIDE DEF c
      <4> QED
          BY <4>1
    <3> QED
        BY <3>1, <3>4 DEF Indexed
  <2>2. "spawn" \in Phases
      BY DEF Phases
  <2> QED
      BY <1>1, <1>2, <2>1, <2>2, TextsGoto
<1>3. CASE Goto(w, "rejected") /\ UNCHANGED <<job, entry>>
  <2>1. "rejected" \in Phases
      BY DEF Phases
  <2> QED
      BY <1>1, <1>3, <2>1, TextsGoto
<1>4. ASSUME NEW e \in First(Beyond(c)),
             entry' = [entry EXCEPT ![e] = Written(entry[e])], Advance(w, e, "scan")
      PROVE  TextsSound'
  <2> DEFINE j == exec[w].job
             n == exec[w].done + 1
             x == [exec[w] EXCEPT !.phase = "scan", !.cursor = e, !.done = n, !.chunk = NoText]
             r == [job[j] EXCEPT !.cursor = e, !.done = n]
  <2>1. e \in Entries /\ entry[e].present /\ \A d \in Entries : entry[d].present /\ d > c => e <= d
      BY DEF First, Beyond, Present
  <2>2. entry[e] \in Entry /\ Ready
      BY <2>1, CurrentEntry DEF TextsSound
  <2>3. Fresh(Written(entry[e]), project.lang)
      BY <2>2, WrittenFresh
  <2>4. Improves
      BY <1>4, <2>3, OneImproved
  <2>5. j \in Jobs /\ job[j] \in Row /\ exec[w] \in Execution
      BY <1>1 DEF Ind, TypeOK, HandlerInv
  <2>6. job' = [job EXCEPT ![j] = r] /\ exec' = [exec EXCEPT ![w] = x]
      BY <1>4 DEF Advance, Record
  <2>7. ASSUME j = project.lexicalJob PROVE Indexed(entry', project.lang, e)
    <3>1. Indexed(entry, project.lang, c)
        BY <1>1, <2>7 DEF TextsSound, HandlerTells
    <3>2. Indexed(entry', project.lang, c)
        BY <2>4, <3>1, IndexedStays
    <3>3. Fresh(entry'[e], project.lang)
        BY <1>4, <2>1, <2>3 DEF Ind, TypeOK
    <3>4. ASSUME NEW d \in Entries, entry'[d].present, d <= e
          PROVE  Fresh(entry'[d], project.lang)
      <4>1. d \in Nat /\ e \in Nat /\ c \in Nat
          BY <2>1, <2>5, ConstantsOK DEF Execution, Entries
      <4>2. CASE d = e
          BY <3>3, <4>2
      <4>3. CASE d # e
        <5>1. entry'[d] = entry[d]
            BY <1>4, <4>3 DEF Ind, TypeOK
        <5>2. ~(d > c)
            BY <2>1, <3>4, <4>1, <4>3, <5>1
        <5>3. d <= c
            BY <4>1, <5>2
        <5> QED
            BY <3>2, <3>4, <5>3 DEF Indexed
      <4> QED
          BY <4>2, <4>3
    <3> QED
        BY <3>4 DEF Indexed
  <2>8. r.cursor = e /\ r.state = job[j].state
      BY <2>5 DEF Row
  <2>9. x.phase = "scan" /\ x.job = j /\ x.cursor = e
      BY <2>5 DEF Execution
  <2>10. HandlerTells(x, project.lexicalJob, entry', project.lang)
      BY <2>7, <2>9 DEF HandlerTells
  <2>11. j = project.lexicalJob => RowTells(r, entry', project.lang)
    <3> SUFFICES ASSUME j = project.lexicalJob, r.state = "succeeded"
                 PROVE  Indexed(entry', project.lang, LastEntry)
        BY <2>7, <2>8 DEF RowTells
    <3>1. Indexed(entry, project.lang, LastEntry)
        BY <2>5, <2>8, ConstantsOK DEF TextsSound, RowTells
    <3> QED
        BY <2>4, <3>1, IndexedStays
  <2> HIDE DEF x, r
  <2>12. \A v \in Workers : exec'[v] = exec[v]
           \/ HandlerTells(exec'[v], project.lexicalJob, entry', project.lang)
      BY <2>6, <2>10 DEF Ind, TypeOK
  <2>13. \A i \in Jobs : job'[i] = IF i = j THEN r ELSE job[i]
      BY <2>5, <2>6 DEF Ind, TypeOK
  <2> QED
      BY <1>1, <2>4, <2>11, <2>12, <2>13, TextsStep, CurrentJob
<1> QED
    BY <1>2, <1>3, <1>4 DEF LexicalBatch

LEMMA TextsSpawn ==
  ASSUME Ind, TextsSound, NEW w \in Workers,
         FindNoEmbedding(w) \/ \E j \in Jobs : ReuseEmbedding(w, j) \/ InsertEmbedding(w, j)
  PROVE  TextsSound'
<1>1. exec[w].phase \in {"spawn", "insert"} /\ UNCHANGED entry
    BY DEF FindNoEmbedding, ReuseEmbedding, InsertEmbedding
<1>2. exec[w].job = project.lexicalJob => Indexed(entry, project.lang, LastEntry)
    BY <1>1 DEF TextsSound, HandlerTells
<1>3. PICK phase \in {"insert", "done"} : Goto(w, phase)
    BY DEF FindNoEmbedding, ReuseEmbedding, InsertEmbedding
<1>4. /\ project'.repair = project.repair /\ project'.lang = project.lang
      /\ project'.lexicalJob = project.lexicalJob
    BY DEF FindNoEmbedding, ReuseEmbedding, InsertEmbedding, Spawned, Ind, TypeOK, Project
<1>5. project.lexicalJob # NoJob => job'[project.lexicalJob] = job[project.lexicalJob]
    BY CurrentJob DEF FindNoEmbedding, ReuseEmbedding, InsertEmbedding, Absent, Ind, TypeOK
<1>6. phase \in Phases /\ exec[w].phase # "idle"
    BY <1>1, <1>3 DEF Phases
<1> QED
    BY <1>1, <1>2, <1>3, <1>4, <1>5, <1>6, TextsGoto

(* The embedding handler is never that of the rebuild. *)
LEMMA OtherJob ==
  ASSUME Ind, NEW w \in Workers, exec[w].phase # "idle", job[exec[w].job].kind = "embedding"
  PROVE  exec[w].job # project.lexicalJob
BY CurrentJob, ConstantsOK DEF Ind, HandlerInv

LEMMA TextsEmbedding ==
  ASSUME Ind, TextsSound, NEW w \in Workers,
         \/ \E enabled \in BOOLEAN : BeginEmbedding(w, enabled)
         \/ FinishEmbedding(w)
  PROVE  TextsSound'
<1>1. exec[w].phase \in {"begin", "ready"} /\ UNCHANGED <<job, entry>>
    BY DEF BeginEmbedding, FinishEmbedding
<1>2. exec[w].phase # "idle" /\ job[exec[w].job].kind = "embedding"
    BY <1>1 DEF Ind, HandlerInv
<1>3. exec[w].job # project.lexicalJob
    BY <1>2, OtherJob
<1>4. PICK phase \in {"scan", "done"} : Goto(w, phase)
    BY DEF BeginEmbedding, FinishEmbedding
<1>5. /\ project'.repair = project.repair /\ project'.lang = project.lang
      /\ project'.lexicalJob = project.lexicalJob
    BY DEF BeginEmbedding, FinishEmbedding, Ind, TypeOK, Project
<1>6. phase \in Phases
    BY <1>4 DEF Phases
<1> QED
    BY <1>1, <1>2, <1>3, <1>4, <1>5, <1>6, TextsGoto

(* It reads, and writes vectors. *)
LEMMA TextsOther ==
  ASSUME Ind, TextsSound, NEW w \in Workers, exec[w].phase # "idle",
         job[exec[w].job].kind = "embedding", Improves, UNCHANGED project,
         NEW x, exec' = [exec EXCEPT ![w] = x], x.job = exec[w].job,
         project.lexicalJob # NoJob => job'[project.lexicalJob] = job[project.lexicalJob]
  PROVE  TextsSound'
<1>1. exec[w].job # project.lexicalJob
    BY OtherJob
<1>2. HandlerTells(x, project.lexicalJob, entry', project.lang)
    BY <1>1 DEF HandlerTells
<1>3. \A v \in Workers : exec'[v] = exec[v]
           \/ HandlerTells(exec'[v], project.lexicalJob, entry', project.lang)
    BY <1>2 DEF Ind, TypeOK
<1> QED
    BY <1>3, TextsStep

LEMMA TextsRead == ASSUME Ind, TextsSound, NEW w \in Workers, ReadChunk(w) PROVE TextsSound'
<1>1. /\ exec[w].phase # "idle" /\ job[exec[w].job].kind = "embedding"
      /\ UNCHANGED <<project, job, entry>>
    BY DEF ReadChunk
<1>2. exec[w] \in Execution
    BY DEF Ind, TypeOK
<1>3. PICK x : exec' = [exec EXCEPT ![w] = x] /\ x.job = exec[w].job
    BY <1>2 DEF ReadChunk, Goto, Execution
<1> QED
    BY <1>1, <1>3, NoneImproved, TextsOther

LEMMA TextsWrite == ASSUME Ind, TextsSound, NEW w \in Workers, WriteChunk(w) PROVE TextsSound'
<1> DEFINE e == exec[w].cursor
           r == Embedded(entry[e], exec[w].chunk)
<1>1. exec[w].phase = "write" /\ UNCHANGED project
    BY DEF WriteChunk
<1>2. /\ exec[w].phase # "idle" /\ job[exec[w].job].kind = "embedding"
      /\ exec[w] \in Execution
    BY <1>1 DEF Ind, TypeOK, HandlerInv
<1>3. exec[w].job # project.lexicalJob
    BY <1>2, OtherJob
<1>4. CASE Goto(w, "rejected") /\ UNCHANGED <<job, entry>>
  <2> DEFINE x == [exec[w] EXCEPT !.phase = "rejected"]
  <2>1. exec' = [exec EXCEPT ![w] = x] /\ x.job = exec[w].job
      BY <1>2, <1>4 DEF Goto, Execution
  <2> HIDE DEF x
  <2> QED
      BY <1>1, <1>2, <1>4, <2>1, NoneImproved, TextsOther
<1>5. CASE entry' = [entry EXCEPT ![e] = r] /\ Advance(w, e, "scan")
  <2> DEFINE x == [exec[w] EXCEPT !.phase = "scan", !.cursor = e,
                                  !.done = exec[w].done + 1, !.chunk = NoText]
  <2>1. exec' = [exec EXCEPT ![w] = x] /\ x.job = exec[w].job
      BY <1>2, <1>5 DEF Advance, Record, Execution
  <2>2. ASSUME e \in Entries PROVE r = entry[e] \/ Fresh(r, project.lang)
    <3>1. entry[e] \in Entry /\ TypeOK /\ Ready
        BY <2>2, CurrentEntry DEF Ind, TextsSound
    <3> QED
        BY <3>1, EmbeddedFresh
  <2>3. project.lexicalJob # NoJob => job'[project.lexicalJob] = job[project.lexicalJob]
      BY <1>3, <1>5, CurrentJob DEF Advance, Record, Ind, TypeOK
  <2> HIDE DEF e, r, x
  <2>4. Improves
      BY <1>5, <2>2, OneImproved
  <2> QED
      BY <1>1, <1>2, <2>1, <2>3, <2>4, TextsOther
<1> QED
    BY <1>4, <1>5 DEF WriteChunk

-----------------------------------------------------------------------------
LEMMA TextsNext == Ind /\ TextsSound /\ [Next]_vars => TextsSound'
<1> SUFFICES ASSUME Ind, TextsSound, [Next]_vars PROVE TextsSound'
    OBVIOUS
<1>1. CASE Request
    BY <1>1, TextsRequest, TextsChange, TextsRetry DEF Request
<1>2. ASSUME NEW w \in Workers, Loop(w) PROVE TextsSound'
  <2>1. CASE LoseLease(w)
      BY <2>1, TextsIdle DEF LoseLease
  <2> QED
      BY <1>2, <2>1, TextsClaim, TextsComplete, TextsFail DEF Loop
<1>3. ASSUME NEW w \in Workers, Handler(w) PROVE TextsSound'
    BY <1>3, TextsLexical, TextsSpawn, TextsEmbedding, TextsRead, TextsWrite DEF Handler
<1>4. ASSUME NEW w \in Workers, HandlerError(w) PROVE TextsSound'
  <2>1. "error" \in Phases /\ exec[w].phase # "idle" /\ Goto(w, "error")
        /\ UNCHANGED <<project, job, entry>>
      BY <1>4 DEF HandlerError, Phases
  <2> QED
      BY <2>1, TextsGoto
<1>5. ASSUME NEW w \in Workers, Vanish(w) PROVE TextsSound'
    BY <1>5, TextsIdle DEF Vanish
<1>6. CASE Sweeping
    BY <1>6, TextsSweep
<1>7. ASSUME NEW j \in Jobs, LeaseExpires(j) PROVE TextsSound'
  <2> DEFINE r == [job[j] EXCEPT !.lease = "expired"]
  <2>1. job' = [job EXCEPT ![j] = r] /\ UNCHANGED <<project, entry, exec>>
      BY <1>7 DEF LeaseExpires
  <2>2. r.cursor = job[j].cursor /\ r.state = job[j].state
      BY DEF Ind, TypeOK, Row
  <2> HIDE DEF r
  <2>3. \A i \in Jobs : job'[i] = IF i = j THEN r ELSE job[i]
      BY <2>1 DEF Ind, TypeOK
  <2> QED
      BY <2>1, <2>2, <2>3, TextsQueue, CurrentJob
<1>8. CASE CooldownEnds
  <2>1. /\ project'.repair = project.repair /\ project'.lang = project.lang
        /\ project'.lexicalJob = project.lexicalJob
        /\ UNCHANGED <<job, entry, exec>>
      BY <1>8 DEF CooldownEnds, Ind, TypeOK, Project
  <2> QED
      BY <2>1, TextsQueue
<1>9. CASE UNCHANGED vars
    BY <1>9, NoneImproved, TextsWritten DEF vars
<1> QED
    BY <1>1, <1>2, <1>3, <1>4, <1>5, <1>6, <1>7, <1>8, <1>9 DEF Next

(* Search is served only of texts under the present primary source, or the job
   that owes the rest is not over, whatever attempts came late. *)
THEOREM TextsStayCurrent == Spec => []LexicalCurrent
<1>1. Ind /\ TextsSound => LexicalCurrent
  <2> SUFFICES ASSUME Ind, TextsSound PROVE LexicalCurrent
      OBVIOUS
  <2>1. ASSUME Indexed(entry, project.lang, LastEntry)
        PROVE  \A e \in Present : entry[e].text = <<entry[e].edits, project.lang>>
    <3>1. \A e \in Entries : e <= LastEntry
        BY ConstantsOK DEF Entries
    <3> QED
        BY <2>1, <3>1 DEF Indexed, Fresh, Present
  <2>2. \/ project.lexicalJob = NoJob
        \/ job[project.lexicalJob].state = "succeeded"
        \/ job[project.lexicalJob].state \in Active \union {"failed"}
      BY CurrentJob DEF Row
  <2>3. CASE job[project.lexicalJob].state \in Active \union {"failed"}
      BY <2>3 DEF LexicalCurrent
  <2>4. CASE Indexed(entry, project.lang, LastEntry)
      BY <2>1, <2>4 DEF LexicalCurrent
  <2> QED
      BY <2>2, <2>3, <2>4 DEF TextsSound, RowTells
<1>2. Spec => []TextsSound
    BY IndHolds, TextsInit, TextsNext, PTL DEF Spec
<1> QED
    BY <1>1, <1>2, IndHolds, PTL

-----------------------------------------------------------------------------
(* The repair of the languages.  What the steps of PrimarySource do to rows
   and handlers, in a project whose languages may not be ready: RebuildInv does
   not hold there, since each repair starts a rebuild of its own. *)

Repairing == {"load", "read", "repair", "finish", "flag"}

(* A handler executes a job that exists, of the kind its phase belongs to. *)
Fits(x, rows) ==
  x.phase # "idle" =>
    /\ x.job \in Jobs
    /\ rows[x.job].state # "absent"
    /\ x.phase \in {"begin", "write", "ready"} => rows[x.job].kind = "embedding"
    /\ x.phase \in {"spawn", "insert"} => rows[x.job].kind = "lexical"
    /\ x.phase = "scan" => rows[x.job].kind # "repair"
    /\ x.phase \in Repairing => rows[x.job].kind = "repair"

Staged == TypeOK /\ \A w \in Workers : Fits(exec[w], job)

Over(j) == \E w \in Workers : exec[w].phase = "done" /\ exec[w].job = j

(* Rows keep their kind, those of repairs their cursor, and a job succeeds when
   its handler is done. *)
RowFollows(old, new, over) ==
  \/ old.state = "absent" /\ new.kind # "repair"
  \/ /\ new.kind = old.kind
     /\ old.state # "absent" => new.state # "absent"
     /\ old.kind = "repair" => new.cursor = old.cursor
     /\ new.state = "succeeded" => old.state = "succeeded" \/ over

(* The handler of a repair is only started, or given up. *)
Foreign(x, rows) ==
  \/ x.phase \in {"idle", "scan", "spawn", "insert", "begin", "write", "ready",
                  "error", "rejected"}
  \/ x.phase = "load" /\ x.cursor = rows[x.job].cursor
  \/ x.phase = "done" /\ rows[x.job].kind # "repair"

JobsFollow ==
  /\ job' \in [Jobs -> Row]
  /\ \A j \in Jobs : RowFollows(job[j], job'[j], Over(j))

ExecFollows ==
  /\ exec' \in [Workers -> Execution]
  /\ \A w \in Workers : exec'[w] = exec[w] \/ (Fits(exec'[w], job') /\ Foreign(exec'[w], job))

EntriesFollow ==
  /\ entry' \in [Entries -> Entry]
  /\ \A e \in Entries : entry[e].present => entry'[e].present

ProjectFollows ==
  /\ project' \in Project
  /\ project'.repair = project.repair /\ project'.repairJob = project.repairJob

RestTyped ==
  /\ sweep' \in [entry: 0..LastEntry, text: Texts \union {NoText}]
  /\ faults' \in 0..MaxFaults

Follows == JobsFollow /\ ExecFollows /\ EntriesFollow /\ ProjectFollows /\ RestTyped

LEMMA FitsStays ==
  ASSUME JobsFollow, NEW x, Fits(x, job)
  PROVE  Fits(x, job')
BY DEF JobsFollow, RowFollows, Fits

LEMMA StagedStays == ASSUME Staged, Follows PROVE Staged'
<1>1. TypeOK'
    BY DEF Follows, JobsFollow, ExecFollows, EntriesFollow, ProjectFollows, RestTyped, TypeOK
<1>2. \A w \in Workers : Fits(exec'[w], job')
    BY FitsStays DEF Staged, Follows, ExecFollows
<1> QED
    BY <1>1, <1>2 DEF Staged

LEMMA SameJobs == ASSUME Staged, UNCHANGED job PROVE JobsFollow
BY DEF Staged, TypeOK, JobsFollow, RowFollows

LEMMA OneJob ==
  ASSUME Staged, NEW j, NEW r, job' = [job EXCEPT ![j] = r],
         j \in Jobs => r \in Row /\ RowFollows(job[j], r, Over(j))
  PROVE  JobsFollow
<1>1. \A i \in Jobs : job'[i] = IF i = j THEN r ELSE job[i]
    BY DEF Staged, TypeOK
<1>2. job' \in [Jobs -> Row]
    BY <1>1 DEF Staged, TypeOK
<1> QED
    BY <1>1, <1>2 DEF JobsFollow, RowFollows

LEMMA SameExec == ASSUME Staged, UNCHANGED exec PROVE ExecFollows
BY DEF Staged, TypeOK, ExecFollows

LEMMA OneExec ==
  ASSUME Staged, NEW w \in Workers, NEW x \in Execution, exec' = [exec EXCEPT ![w] = x],
         Fits(x, job'), Foreign(x, job)
  PROVE  ExecFollows
<1>1. \A v \in Workers : exec'[v] = IF v = w THEN x ELSE exec[v]
    BY DEF Staged, TypeOK
<1>2. exec' \in [Workers -> Execution]
    BY <1>1 DEF Staged, TypeOK
<1> QED
    BY <1>1, <1>2 DEF ExecFollows

LEMMA SameEntries == ASSUME Staged, UNCHANGED entry PROVE EntriesFollow
BY DEF Staged, TypeOK, EntriesFollow

LEMMA OneEntry ==
  ASSUME Staged, NEW e, NEW r, entry' = [entry EXCEPT ![e] = r],
         e \in Entries => r \in Entry /\ (entry[e].present => r.present)
  PROVE  EntriesFollow
<1>1. \A d \in Entries : entry'[d] = IF d = e THEN r ELSE entry[d]
    BY DEF Staged, TypeOK
<1>2. entry' \in [Entries -> Entry]
    BY <1>1 DEF Staged, TypeOK
<1> QED
    BY <1>1, <1>2 DEF EntriesFollow

LEMMA SameProject == ASSUME Staged, UNCHANGED project PROVE ProjectFollows
BY DEF Staged, TypeOK, ProjectFollows

LEMMA SameRest ==
  ASSUME Staged, UNCHANGED sweep, Fault \/ UNCHANGED faults
  PROVE  RestTyped
BY ConstantsOK DEF Staged, TypeOK, RestTyped, Fault

-----------------------------------------------------------------------------
(* Requests and sweep *)

LEMMA WrittenPresent ==
  ASSUME NEW r \in Entry PROVE Written(r).present = r.present
BY DEF Written, Entry

LEMMA EmbeddedPresent ==
  ASSUME NEW r \in Entry, NEW text PROVE Embedded(r, text).present = r.present
BY WrittenPresent DEF Embedded, Entry

LEMMA RequestFollows ==
  ASSUME Staged, NEW e \in Entries,
         SaveEntry(e) \/ \E langs \in LangSets : AddEntry(e, langs) \/ ReplaceOriginals(e, langs)
  PROVE  Follows
<1>1. PICK r \in Entry : r.present /\ entry' = [entry EXCEPT ![e] = Written(r)]
    BY RequestWrites DEF Staged
<1>2. Written(r) \in Entry /\ Written(r).present
    BY <1>1, WrittenEntry, WrittenPresent DEF Staged
<1>3. EntriesFollow
    BY <1>1, <1>2, OneEntry
<1>4. UNCHANGED <<project, job, exec, sweep, faults>>
    BY DEF SaveEntry, AddEntry, ReplaceOriginals
<1> QED
    BY <1>3, <1>4, SameJobs, SameExec, SameProject, SameRest DEF Follows

LEMMA SweepFollows == ASSUME Staged, Sweeping PROVE Follows
<1>1. UNCHANGED <<project, job, exec, faults>>
    BY DEF Sweeping, SweepWrite, SweepRead
<1>2. JobsFollow /\ ExecFollows /\ ProjectFollows
    BY <1>1, SameJobs, SameExec, SameProject
<1>3. CASE SweepWrite
  <2> DEFINE e == sweep.entry
             r == IF EmbeddingRefused(entry[e], sweep.text) THEN entry[e]
                  ELSE Embedded(entry[e], sweep.text)
  <2>1. entry' = [entry EXCEPT ![e] = r]
      BY <1>3 DEF SweepWrite
  <2>2. ASSUME e \in Entries PROVE r \in Entry /\ (entry[e].present => r.present)
    <3>1. TypeOK /\ entry[e] \in Entry /\ sweep.text \in Texts \union {NoText}
        BY <2>2 DEF Staged, TypeOK
    <3> QED
        BY <3>1, EmbeddedEntry, EmbeddedPresent
  <2> HIDE DEF e, r
  <2>3. EntriesFollow
      BY <2>1, <2>2, OneEntry
  <2>4. RestTyped
      BY <1>1, <1>3, ConstantsOK DEF SweepWrite, NotSweeping, RestTyped, Staged, TypeOK
  <2> QED
      BY <1>2, <2>3, <2>4 DEF Follows
<1>4. ASSUME NEW e \in Entries, SweepRead(e) PROVE Follows
  <2>1. entry[e].text \in Texts \union {NoText} /\ e \in 0..LastEntry
      BY ConstantsOK DEF Staged, TypeOK, Entry, Entries
  <2>2. RestTyped
      BY <1>1, <1>4, <2>1 DEF SweepRead, RestTyped, Staged, TypeOK
  <2>3. EntriesFollow
      BY <1>4, SameEntries DEF SweepRead
  <2> QED
      BY <1>2, <2>2, <2>3 DEF Follows
<1> QED
    BY <1>3, <1>4 DEF Sweeping

LEMMA ChangeFollows == ASSUME Staged, NEW j \in Jobs, ChangePrimary(j) PROVE Follows
<1> DEFINE r == NewRow("lexical", Cardinality(Present))
           n == project.lang + 1
<1>1. /\ job[j].state = "absent" /\ job' = [job EXCEPT ![j] = r]
      /\ UNCHANGED <<entry, exec, sweep, faults>>
    BY DEF ChangePrimary, Absent
<1>2. r \in Row /\ r.kind = "lexical"
    BY PresentFinite, BlankIsRow DEF NewRow
<1>3. JobsFollow
    BY <1>1, <1>2, OneJob DEF RowFollows
<1>4. n \in Languages /\ project \in Project
    BY ConstantsOK DEF ChangePrimary, Languages, Staged, TypeOK, Project
<1>5. project' = [project EXCEPT !.lang = n, !.cooling = TRUE,
                   !.lexical = "rebuilding", !.lexicalJob = j,
                   !.embedding = "pending", !.embeddingJob = NoJob]
    BY <1>4 DEF ChangePrimary, Project
<1> HIDE DEF n
<1>6. ProjectFollows
    BY <1>4, <1>5 DEF ProjectFollows, Project
<1> QED
    BY <1>1, <1>3, <1>6, SameExec, SameEntries, SameRest DEF Follows

LEMMA RetryRow ==
  ASSUME Staged, NEW j \in Jobs, job' = [job EXCEPT ![j] = Retried(job[j])]
  PROVE  JobsFollow
<1> DEFINE r == Retried(job[j])
<1>1. job[j] \in Row
    BY DEF Staged, TypeOK
<1>2. r \in Row /\ r.kind = job[j].kind /\ r.state = "queued" /\ r.cursor = job[j].cursor
    BY <1>1, RetriedRow DEF Retried, Row
<1> HIDE DEF r
<1>3. RowFollows(job[j], r, Over(j))
    BY <1>2 DEF RowFollows
<1> QED
    BY <1>2, <1>3, OneJob DEF r

LEMMA RetryFollows == ASSUME Staged, NEW j \in Jobs, ManualRetry(j) PROVE Follows
<1>1. /\ job' = [job EXCEPT ![j] = Retried(job[j])] /\ project' = Restarted(j)
      /\ UNCHANGED <<entry, exec, sweep, faults>>
    BY DEF ManualRetry
<1>2. ProjectFollows
    BY <1>1 DEF Restarted, ProjectFollows, Staged, TypeOK, Project
<1> QED
    BY <1>1, <1>2, RetryRow, SameExec, SameEntries, SameRest DEF Follows

-----------------------------------------------------------------------------
(* The worker loop *)

LEMMA SweptFollow ==
  ASSUME Staged
  PROVE  /\ Swept \in [Jobs -> Row]
         /\ \A j \in Jobs : /\ Swept[j].kind = job[j].kind /\ Swept[j].cursor = job[j].cursor
                            /\ Swept[j].state # "absent" \/ job[j].state = "absent"
                            /\ Swept[j].state = "succeeded" => job[j].state = "succeeded"
<1>1. Swept \in [Jobs -> Row]
    BY SweptRows DEF Staged
<1>2. ASSUME NEW j \in Jobs
      PROVE  /\ Swept[j].kind = job[j].kind /\ Swept[j].cursor = job[j].cursor
             /\ Swept[j].state # "absent" \/ job[j].state = "absent"
             /\ Swept[j].state = "succeeded" => job[j].state = "succeeded"
  <2>1. job[j] \in Row /\ (Swept[j] = job[j] \/ Swept[j] = Released(job[j], "failed"))
      BY DEF Swept, Staged, TypeOK
  <2>2. /\ Released(job[j], "failed").cursor = job[j].cursor
        /\ Released(job[j], "failed").kind = job[j].kind
        /\ Released(job[j], "failed").state = "failed"
      BY <2>1 DEF Released, Row
  <2> QED
      BY <2>1, <2>2
<1> QED
    BY <1>1, <1>2

LEMMA ClaimFollows ==
  ASSUME Staged, NEW w \in Workers, ClaimNothing(w) \/ \E j \in Jobs : Claim(w, j)
  PROVE  Follows
<1>1. UNCHANGED <<project, entry, sweep, faults>>
    BY DEF ClaimNothing, Claim
<1>2. EntriesFollow /\ ProjectFollows /\ RestTyped
    BY <1>1, SameEntries, SameProject, SameRest
<1>3. CASE ClaimNothing(w)
  <2>1. job' = Swept /\ UNCHANGED exec
      BY <1>3 DEF ClaimNothing
  <2>2. JobsFollow
      BY <2>1, SweptFollow DEF JobsFollow, RowFollows
  <2> QED
      BY <1>2, <2>1, <2>2, SameExec DEF Follows
<1>4. ASSUME NEW j \in Jobs, Claim(w, j) PROVE Follows
  <2> DEFINE r == Leased(Swept[j], w)
             x == Handed(j)
  <2>1. /\ Claimable(job[j]) /\ job' = [Swept EXCEPT ![j] = r]
        /\ exec' = [exec EXCEPT ![w] = x]
      BY <1>4 DEF Claim
  <2>2. job[j] \in Row /\ Swept[j] \in Row /\ Swept[j].kind = job[j].kind
        /\ Swept[j].cursor = job[j].cursor
      BY SweptFollow DEF Staged, TypeOK
  <2>3. r \in Row /\ r.kind = job[j].kind /\ r.state = "running" /\ r.cursor = job[j].cursor
      BY <2>2, LeasedRow DEF Leased, Row
  <2>4. x \in Execution /\ x.job = j /\ x.cursor = job[j].cursor
        /\ \/ x.phase = "scan" /\ job[j].kind = "lexical"
           \/ x.phase = "begin" /\ job[j].kind = "embedding"
           \/ x.phase = "load" /\ job[j].kind = "repair"
    <3>1. job[j].kind \in Kinds /\ job[j].cursor \in 0..LastEntry /\ job[j].done \in Nat
        BY <2>2 DEF Row
    <3>2. \/ FirstPhase[job[j].kind] = "scan" /\ job[j].kind = "lexical"
          \/ FirstPhase[job[j].kind] = "begin" /\ job[j].kind = "embedding"
          \/ FirstPhase[job[j].kind] = "load" /\ job[j].kind = "repair"
        BY <3>1 DEF FirstPhase, Kinds
    <3>3. FirstPhase[job[j].kind] \in Phases
        BY <3>2 DEF Phases
    <3> QED
        BY <3>1, <3>2, <3>3 DEF Handed, Execution
  <2> HIDE DEF r, x
  <2>5. \A i \in Jobs : job'[i] = IF i = j THEN r ELSE Swept[i]
      BY <2>1, SweptFollow
  <2>6. job' \in [Jobs -> Row]
      BY <2>1, <2>3, <2>5, SweptFollow
  <2>7. JobsFollow
      BY <2>3, <2>5, <2>6, SweptFollow DEF JobsFollow, RowFollows
  <2>8. job'[x.job] = r
      BY <2>4, <2>5
  <2>9. Fits(x, job')
      BY <2>3, <2>4, <2>8 DEF Fits, Repairing
  <2>10. Foreign(x, job)
      BY <2>4 DEF Foreign
  <2>11. ExecFollows
      BY <2>1, <2>4, <2>9, <2>10, OneExec
  <2> QED
      BY <1>2, <2>7, <2>11 DEF Follows
<1> QED
    BY <1>3, <1>4

LEMMA IdleExec ==
  ASSUME Staged, NEW w \in Workers, exec' = [exec EXCEPT ![w] = Idle] PROVE ExecFollows
<1>1. Idle \in Execution /\ Idle.phase = "idle"
    BY ConstantsOK DEF Idle, Execution, Phases
<1>2. Fits(Idle, job') /\ Foreign(Idle, job)
    BY <1>1 DEF Fits, Foreign
<1> QED
    BY <1>1, <1>2, OneExec

LEMMA IdleFollows ==
  ASSUME Staged, NEW w \in Workers, exec' = [exec EXCEPT ![w] = Idle],
         UNCHANGED <<project, job, entry, sweep>>, Fault \/ UNCHANGED faults
  PROVE  Follows
BY IdleExec, SameJobs, SameEntries, SameProject, SameRest DEF Follows

LEMMA CompleteFollows == ASSUME Staged, NEW w \in Workers, Complete(w) PROVE Follows
<1> DEFINE j == exec[w].job
           r == Succeeded(job[j])
<1>1. /\ exec[w].phase = "done" /\ exec' = [exec EXCEPT ![w] = Idle]
      /\ UNCHANGED <<project, entry, sweep, faults>>
    BY DEF Complete
<1>2. CASE job' = job
    BY <1>1, <1>2, IdleFollows
<1>3. CASE job' = [job EXCEPT ![j] = r]
  <2>1. j \in Jobs /\ job[j] \in Row /\ Over(j)
      BY <1>1 DEF Staged, TypeOK, Fits, Over
  <2>2. Released(job[j], "succeeded") \in Row
        /\ Released(job[j], "succeeded").cursor = job[j].cursor
      BY <2>1, ReleasedRow DEF Released, Row
  <2>3. r.cursor = job[j].cursor
      BY <2>2 DEF Succeeded, Row
  <2>4. r \in Row /\ r.kind = job[j].kind /\ r.state = "succeeded"
      BY <2>1, SucceededRow
  <2> HIDE DEF r, j
  <2>5. JobsFollow
      BY <1>3, <2>1, <2>3, <2>4, OneJob DEF RowFollows
  <2> QED
      BY <1>1, <2>5, IdleExec, SameEntries, SameProject, SameRest DEF Follows
<1> QED
    BY <1>2, <1>3 DEF Complete

LEMMA FailFollows == ASSUME Staged, NEW w \in Workers, FailAttempt(w) PROVE Follows
<1> DEFINE j == exec[w].job
<1>1. /\ exec[w].phase # "idle" /\ exec' = [exec EXCEPT ![w] = Idle]
      /\ UNCHANGED <<entry, sweep, faults>>
    BY DEF FailAttempt
<1>2. CASE UNCHANGED <<project, job>>
    BY <1>1, <1>2, IdleFollows
<1>3. ASSUME NEW state \in {"queued", "failed"},
             job' = [job EXCEPT ![j] = Released(job[j], state)],
             project' = project \/ project' = FailedStage(j)
      PROVE  Follows
  <2> DEFINE r == Released(job[j], state)
  <2>1. j \in Jobs /\ job[j] \in Row /\ state \in Active \union {"succeeded", "failed"}
      BY <1>1 DEF Staged, TypeOK, Fits, Active
  <2>2. r \in Row /\ r.kind = job[j].kind /\ r.state = state /\ r.cursor = job[j].cursor
      BY <2>1, ReleasedRow DEF Released, Row
  <2> HIDE DEF r
  <2>3. JobsFollow
      BY <1>3, <2>2, OneJob DEF RowFollows, r
  <2>4. ProjectFollows
      BY <1>3 DEF FailedStage, ProjectFollows, Staged, TypeOK, Project
  <2> QED
      BY <1>1, <2>3, <2>4, IdleExec, SameEntries, SameRest DEF Follows
<1>4. \/ UNCHANGED <<project, job>>
      \/ \E state \in {"queued", "failed"} :
           /\ job' = [job EXCEPT ![j] = Released(job[j], state)]
           /\ project' = project \/ project' = FailedStage(j)
    BY DEF FailAttempt
<1> QED
    BY <1>2, <1>3, <1>4

-----------------------------------------------------------------------------
(* Handlers of the other kinds *)

LEMMA GotoFollows ==
  ASSUME Staged, NEW w \in Workers, NEW phase \in Phases, Goto(w, phase),
         exec[w].phase # "idle", JobsFollow,
         \/ phase \in {"error", "rejected"}
         \/ phase \in {"spawn", "insert"} /\ job[exec[w].job].kind = "lexical"
         \/ phase \in {"scan", "ready", "done"} /\ job[exec[w].job].kind = "embedding"
         \/ phase = "done" /\ job[exec[w].job].kind = "lexical"
  PROVE  ExecFollows
<1> DEFINE x == [exec[w] EXCEPT !.phase = phase]
<1>1. exec' = [exec EXCEPT ![w] = x] /\ exec[w] \in Execution
    BY DEF Goto, Staged, TypeOK
<1>2. x \in Execution /\ x.phase = phase /\ x.job = exec[w].job
    BY <1>1 DEF Execution
<1> HIDE DEF x
<1>3. Fits(x, job)
    BY <1>2 DEF Staged, Fits, Repairing
<1>4. Foreign(x, job)
    BY <1>2 DEF Foreign
<1> QED
    BY <1>1, <1>2, <1>3, <1>4, FitsStays, OneExec

LEMMA AdvanceFollows ==
  ASSUME Staged, NEW w \in Workers, NEW e \in 0..LastEntry, Advance(w, e, "scan"),
         exec[w].phase \in {"scan", "write"}
  PROVE  JobsFollow /\ ExecFollows
<1> DEFINE n == exec[w].done + 1
           x == [exec[w] EXCEPT !.phase = "scan", !.cursor = e, !.done = n, !.chunk = NoText]
           r == [job[exec[w].job] EXCEPT !.cursor = e, !.done = n]
<1>1. /\ exec[w].job \in Jobs /\ job[exec[w].job].kind # "repair"
      /\ job[exec[w].job] \in Row /\ exec[w] \in Execution
      /\ job[exec[w].job].state # "absent"
    BY DEF Staged, TypeOK, Fits
<1>2. n \in Nat
    BY <1>1 DEF Execution
<1>3. job' = [job EXCEPT ![exec[w].job] = r] /\ exec' = [exec EXCEPT ![w] = x]
    BY DEF Advance, Record
<1> HIDE DEF n
<1>4. x \in Execution /\ x.phase = "scan" /\ x.job = exec[w].job
    BY <1>1, <1>2 DEF Execution, Phases
<1>5. r \in Row /\ r.kind = job[exec[w].job].kind /\ r.state = job[exec[w].job].state
    BY <1>1, <1>2, RecordedRow
<1> HIDE DEF x, r
<1>6. JobsFollow
    BY <1>1, <1>3, <1>5, OneJob DEF RowFollows
<1>7. Fits(x, job) /\ Foreign(x, job)
    BY <1>1, <1>4 DEF Fits, Foreign, Repairing
<1> QED
    BY <1>3, <1>4, <1>6, <1>7, FitsStays, OneExec

LEMMA LexicalFollows == ASSUME Staged, NEW w \in Workers, LexicalBatch(w) PROVE Follows
<1>1. /\ exec[w].phase = "scan" /\ job[exec[w].job].kind = "lexical"
      /\ UNCHANGED <<project, sweep, faults>>
    BY DEF LexicalBatch
<1>2. CASE \E phase \in {"spawn", "rejected"} : Goto(w, phase) /\ UNCHANGED <<job, entry>>
    BY <1>1, <1>2, SameJobs, GotoFollows, SameEntries, SameProject, SameRest DEF Follows, Phases
<1>3. ASSUME NEW e \in First(Beyond(exec[w].cursor)),
             entry' = [entry EXCEPT ![e] = Written(entry[e])], Advance(w, e, "scan")
      PROVE  Follows
  <2>1. e \in Entries /\ e \in 0..LastEntry
      BY ConstantsOK DEF First, Beyond, Present, Entries
  <2>2. entry[e] \in Entry
      BY <2>1 DEF Staged, TypeOK
  <2>3. EntriesFollow
      BY <1>3, <2>2, WrittenEntry, WrittenPresent, OneEntry DEF Staged
  <2> QED
      BY <1>1, <1>3, <2>1, <2>3, AdvanceFollows, SameProject, SameRest DEF Follows
<1> QED
    BY <1>2, <1>3 DEF LexicalBatch

LEMMA SpawnFollows ==
  ASSUME Staged, NEW w \in Workers,
         FindNoEmbedding(w) \/ \E j \in Jobs : ReuseEmbedding(w, j) \/ InsertEmbedding(w, j)
  PROVE  Follows
<1>1. exec[w].phase \in {"spawn", "insert"} /\ UNCHANGED <<entry, sweep, faults>>
    BY DEF FindNoEmbedding, ReuseEmbedding, InsertEmbedding
<1>2. exec[w].job \in Jobs /\ job[exec[w].job].kind = "lexical" /\ exec[w].phase # "idle"
    BY <1>1 DEF Staged, Fits
<1>3. JobsFollow
  <2>1. CASE UNCHANGED job
      BY <2>1, SameJobs
  <2>2. ASSUME NEW j \in Jobs, InsertEmbedding(w, j) PROVE JobsFollow
    <3> DEFINE total == job[exec[w].job].total
               r == NewRow("embedding", total)
    <3>1. total \in Nat \union {NoTotal}
        BY <1>2 DEF Staged, TypeOK, Row
    <3>2. r \in Row /\ r.kind = "embedding"
        BY <3>1, BlankIsRow DEF NewRow
    <3>3. job' = [job EXCEPT ![j] = r] /\ job[j].state = "absent"
        BY <2>2 DEF InsertEmbedding, Absent
    <3> HIDE DEF r
    <3> QED
        BY <3>2, <3>3, OneJob DEF RowFollows
  <2> QED
      BY <2>1, <2>2 DEF FindNoEmbedding, ReuseEmbedding
<1>4. PICK phase \in {"insert", "done"} : Goto(w, phase)
    BY DEF FindNoEmbedding, ReuseEmbedding, InsertEmbedding
<1>5. phase \in Phases
    BY <1>4 DEF Phases
<1>6. ExecFollows
    BY <1>2, <1>3, <1>4, <1>5, GotoFollows
<1>7. ProjectFollows
    BY DEF FindNoEmbedding, ReuseEmbedding, InsertEmbedding, Spawned, ProjectFollows, Staged, TypeOK, Project
<1> QED
    BY <1>1, <1>3, <1>6, <1>7, SameEntries, SameRest DEF Follows

LEMMA EmbeddingFollows ==
  ASSUME Staged, NEW w \in Workers,
         \/ \E enabled \in BOOLEAN : BeginEmbedding(w, enabled)
         \/ FinishEmbedding(w)
  PROVE  Follows
<1>1. exec[w].phase \in {"begin", "ready"} /\ UNCHANGED <<job, entry, sweep, faults>>
    BY DEF BeginEmbedding, FinishEmbedding
<1>2. job[exec[w].job].kind = "embedding" /\ exec[w].phase # "idle"
    BY <1>1 DEF Staged, Fits
<1>3. PICK phase \in {"scan", "done"} : Goto(w, phase)
    BY DEF BeginEmbedding, FinishEmbedding
<1>4. phase \in Phases /\ JobsFollow
    BY <1>1, <1>3, SameJobs DEF Phases
<1>5. ExecFollows
    BY <1>2, <1>3, <1>4, GotoFollows
<1>6. \E state \in {"running", "degraded", "ready"} :
         project' = [project EXCEPT !.embedding = state]
    BY DEF BeginEmbedding, FinishEmbedding
<1>7. ProjectFollows
    BY <1>6 DEF ProjectFollows, Staged, TypeOK, Project
<1> QED
    BY <1>1, <1>4, <1>5, <1>7, SameEntries, SameRest DEF Follows

LEMMA ReadFollows == ASSUME Staged, NEW w \in Workers, ReadChunk(w) PROVE Follows
<1> DEFINE more == {e \in Beyond(exec[w].cursor) : entry[e].text # NoText}
<1>1. /\ exec[w].phase = "scan" /\ job[exec[w].job].kind = "embedding"
      /\ UNCHANGED <<project, job, entry, sweep, faults>>
      /\ \/ Goto(w, "ready")
         \/ \E e \in First(more) :
              exec' = [exec EXCEPT ![w] = [exec[w] EXCEPT !.phase = "write", !.cursor = e,
                                                          !.chunk = entry[e].text]]
    BY DEF ReadChunk
<1>2. CASE Goto(w, "ready")
    BY <1>1, <1>2, SameJobs, GotoFollows, SameEntries, SameProject, SameRest DEF Follows, Phases
<1>3. ASSUME NEW e \in First(more),
             exec' = [exec EXCEPT ![w] = [exec[w] EXCEPT !.phase = "write", !.cursor = e,
                                                         !.chunk = entry[e].text]]
      PROVE  Follows
  <2> DEFINE text == entry[e].text
             x == [exec[w] EXCEPT !.phase = "write", !.cursor = e, !.chunk = text]
  <2>1. e \in Entries /\ e \in 0..LastEntry
      BY ConstantsOK DEF First, Beyond, Present, Entries
  <2>2. text \in Texts \union {NoText} /\ exec[w] \in Execution /\ Fits(exec[w], job)
      BY <2>1 DEF Staged, TypeOK, Entry
  <2> HIDE DEF text
  <2>3. x \in Execution /\ x.phase = "write" /\ x.job = exec[w].job
      BY <2>1, <2>2 DEF Execution, Phases
  <2>4. exec' = [exec EXCEPT ![w] = x]
      BY <1>3 DEF text
  <2> HIDE DEF x
  <2>5. Fits(x, job') /\ Foreign(x, job)
      BY <1>1, <2>2, <2>3 DEF Fits, Foreign, Repairing
  <2>6. ExecFollows
      BY <2>3, <2>4, <2>5, OneExec
  <2> QED
      BY <1>1, <2>6, SameJobs, SameEntries, SameProject, SameRest DEF Follows
<1> QED
    BY <1>1, <1>2, <1>3

LEMMA WriteFollows == ASSUME Staged, NEW w \in Workers, WriteChunk(w) PROVE Follows
<1> DEFINE e == exec[w].cursor
           text == exec[w].chunk
           r == Embedded(entry[e], text)
<1>1. exec[w].phase = "write" /\ UNCHANGED <<project, sweep, faults>>
    BY DEF WriteChunk
<1>2. CASE Goto(w, "rejected") /\ UNCHANGED <<job, entry>>
    BY <1>1, <1>2, SameJobs, GotoFollows, SameEntries, SameProject, SameRest DEF Follows, Phases
<1>3. CASE entry' = [entry EXCEPT ![e] = r] /\ Advance(w, e, "scan")
  <2>1. e \in 0..LastEntry /\ text \in Texts \union {NoText}
      BY DEF Staged, TypeOK, Execution
  <2>2. ASSUME e \in Entries PROVE r \in Entry /\ (entry[e].present => r.present)
    <3>1. entry[e] \in Entry /\ TypeOK
        BY <2>2 DEF Staged, TypeOK
    <3> QED
        BY <2>1, <3>1, EmbeddedEntry, EmbeddedPresent
  <2> HIDE DEF e, r
  <2>3. EntriesFollow
      BY <1>3, <2>2, OneEntry
  <2> QED
      BY <1>1, <1>3, <2>1, <2>3, AdvanceFollows, SameProject, SameRest DEF Follows
<1> QED
    BY <1>2, <1>3 DEF WriteChunk

-----------------------------------------------------------------------------
LEMMA NextFollows == ASSUME Staged, [Next]_vars PROVE Follows
<1>1. CASE Request
    BY <1>1, RequestFollows, ChangeFollows, RetryFollows DEF Request
<1>2. ASSUME NEW w \in Workers, Loop(w) PROVE Follows
  <2>1. CASE LoseLease(w)
      BY <2>1, IdleFollows DEF LoseLease
  <2> QED
      BY <1>2, <2>1, ClaimFollows, CompleteFollows, FailFollows DEF Loop
<1>3. ASSUME NEW w \in Workers, Handler(w) PROVE Follows
    BY <1>3, LexicalFollows, SpawnFollows, EmbeddingFollows, ReadFollows, WriteFollows DEF Handler
<1>4. ASSUME NEW w \in Workers, HandlerError(w) PROVE Follows
  <2>1. "error" \in Phases /\ exec[w].phase # "idle" /\ Goto(w, "error")
        /\ UNCHANGED <<project, job, entry, sweep>> /\ Fault
      BY <1>4 DEF HandlerError, Phases
  <2> QED
      BY <2>1, SameJobs, GotoFollows, SameEntries, SameProject, SameRest DEF Follows
<1>5. ASSUME NEW w \in Workers, Vanish(w) PROVE Follows
    BY <1>5, IdleFollows DEF Vanish
<1>6. CASE Sweeping
    BY <1>6, SweepFollows
<1>7. ASSUME NEW j \in Jobs, LeaseExpires(j) PROVE Follows
  <2> DEFINE r == [job[j] EXCEPT !.lease = "expired"]
  <2>1. /\ job' = [job EXCEPT ![j] = r] /\ UNCHANGED <<project, entry, exec, sweep>>
        /\ Fault \/ UNCHANGED faults
      BY <1>7 DEF LeaseExpires
  <2>2. job[j] \in Row
      BY DEF Staged, TypeOK
  <2>3. r \in Row /\ r.kind = job[j].kind /\ r.state = job[j].state /\ r.cursor = job[j].cursor
      BY <2>2 DEF Row
  <2> HIDE DEF r
  <2>4. JobsFollow
      BY <2>1, <2>3, OneJob DEF RowFollows
  <2> QED
      BY <2>1, <2>4, SameExec, SameEntries, SameProject, SameRest DEF Follows
<1>8. CASE CooldownEnds
  <2>1. /\ project' = [project EXCEPT !.cooling = FALSE]
        /\ UNCHANGED <<job, entry, exec, sweep, faults>>
      BY <1>8 DEF CooldownEnds
  <2>2. ProjectFollows
      BY <2>1 DEF ProjectFollows, Staged, TypeOK, Project
  <2> QED
      BY <2>1, <2>2, SameJobs, SameExec, SameEntries, SameRest DEF Follows
<1>9. CASE UNCHANGED vars
    BY <1>9, SameJobs, SameExec, SameEntries, SameProject, SameRest DEF vars, Follows
<1> QED
    BY <1>1, <1>2, <1>3, <1>4, <1>5, <1>6, <1>7, <1>8, <1>9 DEF Next

-----------------------------------------------------------------------------
(* What a repair has read and rewritten *)

Spelling == [raw: SUBSET Languages, clash: SUBSET Languages, stray: BOOLEAN]

Loaded == [lang: Languages, unresolved: BOOLEAN, langs: SUBSET Languages, spelling: Spelling]

Spelled ==
  /\ spelling \in [Entries -> Spelling]
  /\ declared \in BOOLEAN
  /\ loaded \in [Workers -> Loaded]

(* Originals of entries that are still to come are spelled right, too. *)
Newcomers == \A e \in Entries : ~entry[e].present => spelling[e] = Clean

(* A project has its repair, which is over only when the project is not
   repairing any more. *)
BoundRepair ==
  /\ project.repairJob \in Jobs
  /\ job[project.repairJob].kind = "repair"
  /\ job[project.repairJob].state # "absent"
  /\ \A j \in Jobs : job[j].kind = "repair" => job[j].cursor = 0
  /\ \A w \in Workers : exec[w].phase = "done" /\ exec[w].job = project.repairJob
                        => project.repair # "repairing"

Tidy(sp, c) == \A e \in Entries : e <= c => sp[e] = Clean

(* A handler that has met nothing unresolved leaves nothing behind. *)
Reads(x, read, sp) ==
  /\ x.phase = "load" => x.cursor = 0
  /\ x.phase = "read" /\ ~read.unresolved => Tidy(sp, x.cursor)
  /\ x.phase = "repair" => x.cursor \in Entries /\ (~read.unresolved => Tidy(sp, x.cursor - 1))
  /\ x.phase = "finish" => Tidy(sp, LastEntry)

Progress == \A w \in Workers : Reads(exec[w], loaded[w], spelling)

RepairInv == Staged /\ Spelled /\ Newcomers /\ BoundRepair /\ Progress /\ RepairSound

-----------------------------------------------------------------------------
LEMMA CleanSpelling == Clean \in Spelling
BY DEF Clean, Spelling

LEMMA NothingLoadedTyped == ASSUME NEW l \in Languages PROVE [NothingLoaded EXCEPT !.lang = l] \in Loaded
BY CleanSpelling DEF NothingLoaded, Loaded

LEMMA RepairRow == NewRow("repair", NoTotal) \in Row
<1>1. 0 \in 0..LastEntry /\ Budget \in Nat
    BY ConstantsOK
<1> QED
    BY <1>1 DEF NewRow, Row, Kinds, Active

(* Tags only become canonical. *)
LEMMA TidyStays ==
  ASSUME NEW sp, NEW sq, \A e \in Entries : sp[e] = Clean => sq[e] = Clean,
         NEW c, Tidy(sp, c)
  PROVE  Tidy(sq, c)
BY DEF Tidy

LEMMA ReadsStays ==
  ASSUME NEW sp, NEW sq, \A e \in Entries : sp[e] = Clean => sq[e] = Clean,
         NEW x, NEW read, Reads(x, read, sp)
  PROVE  Reads(x, read, sq)
<1>1. \A c : Tidy(sp, c) => Tidy(sq, c)
    BY TidyStays
<1> QED
    BY <1>1 DEF Reads

(* The repair of the project is not over before its handler is. *)
LEMMA StillOwed ==
  ASSUME RepairInv, JobsFollow, project'.repairJob = project.repairJob,
         project'.repair = "repairing" => project.repair = "repairing"
  PROVE  /\ project'.repair = "repairing"
              => job'[project'.repairJob].state \in Active \union {"failed"}
         /\ project'.repairJob \in Jobs
         /\ job'[project'.repairJob].kind = "repair"
         /\ job'[project'.repairJob].state # "absent"
         /\ \A j \in Jobs : job'[j].kind = "repair" => job'[j].cursor = 0
<1> DEFINE j == project.repairJob
<1>1. j \in Jobs /\ job[j].kind = "repair" /\ job[j].state # "absent"
    BY DEF RepairInv, BoundRepair
<1>2. job'[j] \in Row /\ RowFollows(job[j], job'[j], Over(j))
    BY <1>1 DEF JobsFollow
<1>3. job'[j].kind = "repair" /\ job'[j].state # "absent"
    BY <1>1, <1>2 DEF RowFollows
<1>4. ASSUME project.repair = "repairing" PROVE ~Over(j) /\ job[j].state # "succeeded"
    BY <1>4 DEF RepairInv, BoundRepair, Over, RepairSound, Active
<1>5. ASSUME project.repair = "repairing" PROVE job'[j].state # "succeeded"
    BY <1>1, <1>2, <1>4, <1>5 DEF RowFollows
<1>6. job'[j].state \in Active \union {"absent", "succeeded", "failed"}
    BY <1>2 DEF Row
<1>7. \A i \in Jobs : job'[i].kind = "repair" => job'[i].cursor = 0
    BY DEF JobsFollow, RowFollows, RepairInv, BoundRepair
<1> HIDE DEF j
<1>8. project'.repairJob = j
    BY DEF j
<1> QED
    BY <1>1, <1>3, <1>5, <1>6, <1>7, <1>8

(* Steps of the rest of the program. *)
LEMMA OutsideStep ==
  ASSUME RepairInv, Follows, UNCHANGED <<spelling, declared, issues, loaded>>
  PROVE  RepairInv'
<1>1. Staged'
    BY StagedStays DEF RepairInv
<1>2. Spelled'
    BY DEF RepairInv, Spelled
<1>3. Newcomers'
    BY DEF RepairInv, Newcomers, Follows, EntriesFollow
<1>4. project'.repair = project.repair /\ project'.repairJob = project.repairJob /\ JobsFollow
    BY DEF Follows, ProjectFollows
<1>5. /\ project'.repair = "repairing"
           => job'[project'.repairJob].state \in Active \union {"failed"}
      /\ project'.repairJob \in Jobs
      /\ job'[project'.repairJob].kind = "repair"
      /\ job'[project'.repairJob].state # "absent"
      /\ \A j \in Jobs : job'[j].kind = "repair" => job'[j].cursor = 0
    BY <1>4, StillOwed
<1>6. ASSUME NEW w \in Workers
      PROVE  \/ exec'[w] = exec[w]
             \/ /\ exec'[w].phase \notin {"read", "repair", "finish"}
                /\ exec'[w].phase = "load" => exec'[w].cursor = 0
                /\ exec'[w].phase = "done" => exec'[w].job # project.repairJob
  <2> SUFFICES ASSUME exec'[w] # exec[w]
               PROVE  /\ exec'[w].phase \notin {"read", "repair", "finish"}
                      /\ exec'[w].phase = "load" => exec'[w].cursor = 0
                      /\ exec'[w].phase = "done" => exec'[w].job # project.repairJob
      OBVIOUS
  <2>1. Fits(exec'[w], job') /\ Foreign(exec'[w], job)
      BY DEF Follows, ExecFollows
  <2>2. ASSUME exec'[w].phase = "load" PROVE exec'[w].cursor = 0
    <3>1. /\ exec'[w].job \in Jobs /\ job'[exec'[w].job].kind = "repair"
          /\ exec'[w].cursor = job[exec'[w].job].cursor
        BY <2>1, <2>2 DEF Fits, Foreign, Repairing
    <3>2. job[exec'[w].job].kind = "repair"
        BY <3>1 DEF Follows, JobsFollow, RowFollows
    <3> QED
        BY <3>1, <3>2 DEF RepairInv, BoundRepair
  <2>3. ASSUME exec'[w].phase = "done" PROVE exec'[w].job # project.repairJob
      BY <2>1, <2>3 DEF Foreign, RepairInv, BoundRepair
  <2> QED
      BY <2>1, <2>2, <2>3 DEF Foreign
<1>7. BoundRepair'
    BY <1>4, <1>5, <1>6 DEF RepairInv, BoundRepair
<1>8. Progress'
  <2> SUFFICES ASSUME NEW w \in Workers PROVE Reads(exec'[w], loaded[w], spelling)
      BY DEF Progress
  <2>1. Reads(exec[w], loaded[w], spelling)
      BY DEF RepairInv, Progress
  <2> QED
      BY <1>6, <2>1 DEF Reads
<1>9. RepairSound'
  <2>1. ASSUME Ready' PROVE declared' /\ \A e \in Present' : spelling'[e] = Clean
      BY <1>4, <2>1 DEF Ready, RepairInv, RepairSound, Newcomers, Present
  <2>2. project'.repair = "needs" => issues' # {}
      BY <1>4 DEF RepairInv, RepairSound
  <2> QED
      BY <1>5, <2>1, <2>2 DEF RepairSound
<1> QED
    BY <1>1, <1>2, <1>3, <1>7, <1>8, <1>9 DEF RepairInv

-----------------------------------------------------------------------------
(* The handler *)

LEMMA RepairStep ==
  ASSUME RepairInv, NEW w \in Workers, exec[w].phase \in Repairing,
         NEW x \in Execution, x.job = exec[w].job, exec' = [exec EXCEPT ![w] = x],
         x.phase \in Repairing \union {"done", "error", "unresolved"},
         NEW read \in Loaded, loaded' = [loaded EXCEPT ![w] = read],
         Reads(x, read, spelling'),
         x.phase = "done" => project'.repair # "repairing",
         JobsFollow,
         entry' \in [Entries -> Entry], \A e \in Entries : entry'[e].present = entry[e].present,
         spelling' \in [Entries -> Spelling],
         \A e \in Entries : spelling[e] = Clean => spelling'[e] = Clean,
         project' \in Project, project'.repairJob = project.repairJob,
         project'.repair = project.repair \/ project'.repair \in {"ready", "needs"},
         project'.repair = "ready" =>
           project.repair = "ready" \/ (declared' /\ Tidy(spelling', LastEntry)),
         project'.repair = "needs" => project.repair = "needs" \/ issues' # {},
         declared' \in BOOLEAN, declared => declared', issues \subseteq issues',
         UNCHANGED <<sweep, faults>>
  PROVE  RepairInv'
<1>1. /\ exec[w].job \in Jobs /\ job[exec[w].job].kind = "repair"
      /\ job[exec[w].job].state # "absent"
    BY DEF RepairInv, Staged, Fits, Repairing
<1>2. /\ \A v \in Workers : exec'[v] = IF v = w THEN x ELSE exec[v]
      /\ \A v \in Workers : loaded'[v] = IF v = w THEN read ELSE loaded[v]
      /\ exec' \in [Workers -> Execution] /\ loaded' \in [Workers -> Loaded]
    BY DEF RepairInv, Staged, TypeOK, Spelled
<1>3. Staged'
  <2>1. TypeOK'
      BY <1>2 DEF RepairInv, Staged, TypeOK, JobsFollow
  <2>2. Fits(x, job)
      BY <1>1 DEF Fits, Repairing
  <2>3. \A v \in Workers : Fits(exec'[v], job')
      BY <1>2, <2>2, FitsStays DEF RepairInv, Staged
  <2> QED
      BY <2>1, <2>3 DEF Staged
<1>4. Spelled'
    BY <1>2 DEF Spelled
<1>5. Newcomers'
    BY DEF RepairInv, Newcomers
<1>6. project'.repair = "repairing" => project.repair = "repairing"
    OBVIOUS
<1>7. /\ project'.repair = "repairing"
           => job'[project'.repairJob].state \in Active \union {"failed"}
      /\ project'.repairJob \in Jobs
      /\ job'[project'.repairJob].kind = "repair"
      /\ job'[project'.repairJob].state # "absent"
      /\ \A j \in Jobs : job'[j].kind = "repair" => job'[j].cursor = 0
    BY <1>6, StillOwed
<1>8. BoundRepair'
  <2>1. ASSUME NEW v \in Workers, exec'[v].phase = "done", exec'[v].job = project'.repairJob
        PROVE  project'.repair # "repairing"
      BY <1>2, <1>6, <2>1 DEF RepairInv, BoundRepair
  <2> QED
      BY <1>7, <2>1 DEF BoundRepair
<1>9. Progress'
  <2> SUFFICES ASSUME NEW v \in Workers PROVE Reads(exec'[v], loaded'[v], spelling')
      BY DEF Progress
  <2>1. Reads(exec[v], loaded[v], spelling)
      BY DEF RepairInv, Progress
  <2>2. Reads(exec[v], loaded[v], spelling')
      BY <2>1, ReadsStays
  <2> QED
      BY <1>2, <2>2
<1>10. RepairSound'
  <2>1. ASSUME Ready' PROVE declared' /\ \A e \in Present' : spelling'[e] = Clean
    <3>1. \A e \in Entries : e <= LastEntry
        BY ConstantsOK DEF Entries
    <3>2. CASE project.repair = "ready"
        BY <3>2 DEF Ready, RepairInv, RepairSound, Present
    <3>3. CASE declared' /\ Tidy(spelling', LastEntry)
        BY <3>1, <3>3 DEF Tidy, Present
    <3> QED
        BY <2>1, <3>2, <3>3 DEF Ready
  <2>2. project'.repair = "needs" => issues' # {}
      BY DEF RepairInv, RepairSound
  <2> QED
      BY <1>7, <2>1, <2>2 DEF RepairSound
<1> QED
    BY <1>3, <1>4, <1>5, <1>8, <1>9, <1>10 DEF RepairInv

(* What a handler is that goes to another phase. *)
LEMMA GotoRepair ==
  ASSUME RepairInv, NEW w \in Workers, NEW phase \in Phases, Goto(w, phase)
  PROVE  /\ [exec[w] EXCEPT !.phase = phase] \in Execution
         /\ [exec[w] EXCEPT !.phase = phase].phase = phase
         /\ [exec[w] EXCEPT !.phase = phase].job = exec[w].job
         /\ [exec[w] EXCEPT !.phase = phase].cursor = exec[w].cursor
         /\ exec' = [exec EXCEPT ![w] = [exec[w] EXCEPT !.phase = phase]]
<1>1. exec[w] \in Execution
    BY DEF RepairInv, Staged, TypeOK
<1> QED
    BY <1>1 DEF Goto, Execution

LEMMA ReadSoFar ==
  ASSUME RepairInv, NEW w \in Workers
  PROVE  /\ loaded[w] \in Loaded /\ loaded = [loaded EXCEPT ![w] = loaded[w]]
         /\ Reads(exec[w], loaded[w], spelling) /\ exec[w] \in Execution
         /\ project \in Project /\ Staged /\ spelling \in [Entries -> Spelling]
         /\ declared \in BOOLEAN /\ entry \in [Entries -> Entry]
BY DEF RepairInv, Spelled, Progress, Staged, TypeOK

LEMMA LoadStep == ASSUME RepairInv, NEW w \in Workers, LoadProject(w) PROVE RepairInv'
<1> DEFINE read == [NothingLoaded EXCEPT !.lang = project.lang]
<1>1. /\ exec[w].phase = "load" /\ loaded' = [loaded EXCEPT ![w] = read]
      /\ UNCHANGED <<project, job, entry, sweep, faults, spelling, declared, issues>>
    BY DEF LoadProject, Load
<1>2. PICK phase \in {"done", "read", "flag"} :
        Goto(w, phase) /\ (phase = "done" => project.repair = "ready")
    BY DEF LoadProject, Ready
<1>3. phase \in Phases /\ exec[w].phase \in Repairing
      /\ phase \in Repairing \union {"done", "error", "unresolved"}
    BY <1>1, <1>2 DEF Phases, Repairing
<1> DEFINE x == [exec[w] EXCEPT !.phase = phase]
<1>4. /\ x \in Execution /\ x.phase = phase /\ x.job = exec[w].job
      /\ x.cursor = exec[w].cursor /\ exec' = [exec EXCEPT ![w] = x]
    BY <1>2, <1>3, GotoRepair
<1>5. exec[w].cursor = 0
    BY <1>1, ReadSoFar DEF Reads
<1>6. read \in Loaded
    BY ReadSoFar, NothingLoadedTyped DEF Project
<1>7. Tidy(spelling, 0)
    BY DEF Tidy, Entries
<1> HIDE DEF x, read
<1>8. Reads(x, read, spelling')
    BY <1>1, <1>2, <1>4, <1>5, <1>7 DEF Reads
<1>9. JobsFollow
    BY <1>1, ReadSoFar, SameJobs
<1>10. /\ entry' \in [Entries -> Entry] /\ \A e \in Entries : entry'[e].present = entry[e].present
       /\ spelling' \in [Entries -> Spelling]
       /\ \A e \in Entries : spelling[e] = Clean => spelling'[e] = Clean
       /\ project' \in Project /\ declared' \in BOOLEAN
    BY <1>1, ReadSoFar
<1> QED
    BY <1>1, <1>2, <1>3, <1>4, <1>6, <1>8, <1>9, <1>10, RepairStep

LEMMA Least ==
  ASSUME NEW S \in SUBSET Nat, S # {}
  PROVE  Min(S) \in S /\ \A x \in S : Min(S) <= x
<1>1. PICK x \in S : \A y \in S : ~(<<y, x>> \in OpToRel(<, Nat))
    BY NatLessThanWellFounded, WFMin
<1>2. \A y \in S : x <= y
  <2> SUFFICES ASSUME NEW y \in S PROVE x <= y
      OBVIOUS
  <2>1. <<y, x>> \in Nat \X Nat /\ ~(y < x)
      BY <1>1 DEF OpToRel
  <2> QED
      BY <2>1
<1> QED
    BY <1>2 DEF Min

LEMMA ReadEntryStep == ASSUME RepairInv, NEW w \in Workers, ReadEntry(w) PROVE RepairInv'
<1> DEFINE more == Beyond(exec[w].cursor)
           c == exec[w].cursor
<1>1. /\ exec[w].phase = "read"
      /\ UNCHANGED <<project, job, entry, sweep, faults, spelling, declared, issues>>
    BY DEF ReadEntry
<1>2. /\ JobsFollow /\ exec[w].phase \in Repairing
      /\ entry' \in [Entries -> Entry] /\ \A e \in Entries : entry'[e].present = entry[e].present
      /\ spelling' \in [Entries -> Spelling]
      /\ \A e \in Entries : spelling[e] = Clean => spelling'[e] = Clean
      /\ project' \in Project /\ declared' \in BOOLEAN
    BY <1>1, ReadSoFar, SameJobs DEF Repairing
<1>3. c \in Nat /\ Entries \subseteq Nat
    BY ReadSoFar, ConstantsOK DEF Execution, Entries
<1>4. ~loaded[w].unresolved => Tidy(spelling, c)
    BY <1>1, ReadSoFar DEF Reads
(* What is not present is clean. *)
<1>5. ASSUME NEW b \in Nat, ~loaded[w].unresolved,
             \A e \in Entries : entry[e].present /\ e > c => e > b
      PROVE  Tidy(spelling, b)
  <2> SUFFICES ASSUME NEW e \in Entries, e <= b PROVE spelling[e] = Clean
      BY DEF Tidy
  <2>1. CASE ~entry[e].present
      BY <2>1 DEF RepairInv, Newcomers
  <2>2. CASE entry[e].present
    <3>1. e \in Nat /\ ~(e > b)
        BY <1>3
    <3>2. ~(e > c)
        BY <1>5, <2>2, <3>1
    <3> HIDE DEF c
    <3>3. e <= c
        BY <1>3, <3>1, <3>2
    <3> QED
        BY <1>4, <1>5, <3>3 DEF Tidy
  <2> QED
      BY <2>1, <2>2
<1>6. CASE more = {}
  <2>1. PICK phase \in {"flag", "finish"} :
          Goto(w, phase) /\ (phase = "finish" => ~loaded[w].unresolved) /\ UNCHANGED loaded
      BY <1>6 DEF ReadEntry
  <2>2. phase \in Phases /\ phase \in Repairing \union {"done", "error", "unresolved"}
      BY <2>1 DEF Phases, Repairing
  <2> DEFINE x == [exec[w] EXCEPT !.phase = phase]
  <2>3. /\ x \in Execution /\ x.phase = phase /\ x.job = exec[w].job
        /\ exec' = [exec EXCEPT ![w] = x]
      BY <2>1, <2>2, GotoRepair
  <2>4. phase = "finish" => Tidy(spelling, LastEntry)
    <3>1. \A e \in Entries : ~(entry[e].present /\ e > c)
        BY <1>6 DEF Beyond, Present
    <3>2. LastEntry \in Nat
        BY ConstantsOK
    <3> QED
        BY <1>5, <2>1, <3>1, <3>2
  <2> HIDE DEF x
  <2>5. Reads(x, loaded[w], spelling')
      BY <1>1, <2>1, <2>3, <2>4 DEF Reads
  <2>6. loaded[w] \in Loaded /\ loaded' = [loaded EXCEPT ![w] = loaded[w]]
      BY <2>1, ReadSoFar
  <2> QED
      BY <1>1, <1>2, <2>1, <2>2, <2>3, <2>5, <2>6, RepairStep
<1>7. CASE more # {}
  <2> DEFINE e == Min(more)
             read == WithRow(w, e)
             x == [exec[w] EXCEPT !.phase = "repair", !.cursor = e]
  <2>1. exec' = [exec EXCEPT ![w].phase = "repair", ![w].cursor = e]
        /\ loaded' = [loaded EXCEPT ![w] = read]
      BY <1>7 DEF ReadEntry, Load
  <2>2. more \in SUBSET Nat
      BY <1>3 DEF Beyond, Present
  <2>3. e \in more /\ \A d \in more : e <= d
      BY <1>7, <2>2, Least
  <2>4. e \in Entries /\ e \in 0..LastEntry
      BY <2>3, ConstantsOK DEF Beyond, Present, Entries
  <2>5. exec' = [exec EXCEPT ![w] = x]
      BY <2>1, ReadSoFar DEF Execution, RepairInv, Staged, TypeOK
  <2>6. read \in Loaded /\ read.unresolved = loaded[w].unresolved
    <3>1. loaded[w] \in Loaded /\ entry[e].langs \in SUBSET Languages /\ spelling[e] \in Spelling
        BY <2>4, ReadSoFar DEF Entry
    <3> HIDE DEF e
    <3> QED
        BY <3>1 DEF WithRow, Loaded
  <2>7. ~read.unresolved => Tidy(spelling, e - 1)
    <3>1. e - 1 \in Nat
        BY <2>4, ConstantsOK DEF Entries
    <3>2. ASSUME NEW d \in Entries, entry[d].present, d > c PROVE d > e - 1
      <4>1. d \in more
          BY <3>2 DEF Beyond, Present
      <4>2. e <= d /\ e \in Nat /\ d \in Nat
          BY <1>3, <2>3, <2>4, <4>1
      <4> HIDE DEF e
      <4> QED
          BY <4>2
    <3> HIDE DEF e, read
    <3> QED
        BY <1>5, <2>6, <3>1, <3>2
  <2> HIDE DEF e, read
  <2>8. x \in Execution /\ x.phase = "repair" /\ x.job = exec[w].job /\ x.cursor = e
      BY <2>4, ReadSoFar DEF Execution, Phases
  <2> HIDE DEF x
  <2>9. Reads(x, read, spelling')
      BY <1>1, <2>4, <2>7, <2>8 DEF Reads
  <2>10. x.phase \in Repairing \union {"done", "error", "unresolved"} /\ x.phase # "done"
      BY <2>8 DEF Repairing
  <2> QED
      BY <1>1, <1>2, <2>1, <2>5, <2>6, <2>8, <2>9, <2>10, RepairStep
<1> QED
    BY <1>6, <1>7

-----------------------------------------------------------------------------
LEMMA RewrittenEntry ==
  ASSUME Staged, NEW e \in Entries, NEW langs \in SUBSET Languages
  PROVE  Rewritten(e, langs) \in Entry /\ Rewritten(e, langs).present = entry[e].present
<1> DEFINE r == [entry[e] EXCEPT !.langs = langs]
<1>1. r \in Entry /\ r.present = entry[e].present /\ TypeOK
    BY DEF Staged, TypeOK, Entry
<1>2. Rewritten(e, langs) = Written(r)
    BY DEF Rewritten
<1> HIDE DEF r
<1> QED
    BY <1>1, <1>2, WrittenEntry, WrittenPresent

LEMMA RepairEntryStep == ASSUME RepairInv, NEW w \in Workers, RepairEntry(w) PROVE RepairInv'
<1> DEFINE e == exec[w].cursor
           langs == loaded[w].langs \union loaded[w].spelling.raw
           problems == Problems(loaded[w].langs, loaded[w].spelling, loaded[w].lang)
<1>1. /\ exec[w].phase = "repair"
      /\ UNCHANGED <<project, job, sweep, faults, declared>>
    BY DEF RepairEntry
<1>2. /\ JobsFollow /\ exec[w].phase \in Repairing
      /\ project' \in Project /\ declared' \in BOOLEAN
    BY <1>1, ReadSoFar, SameJobs DEF Repairing
<1>3. /\ e \in Entries /\ e \in Nat /\ Entries \subseteq Nat
      /\ ~loaded[w].unresolved => Tidy(spelling, e - 1)
    BY <1>1, ReadSoFar, ConstantsOK DEF Reads, Entries
<1>4. /\ loaded[w] \in Loaded /\ loaded = [loaded EXCEPT ![w] = loaded[w]]
      /\ langs \in SUBSET Languages
    BY ReadSoFar DEF Loaded, Spelling
<1>5. CASE /\ entry' = [entry EXCEPT ![e] = Rewritten(e, langs)]
           /\ spelling' = [spelling EXCEPT ![e] = Clean]
           /\ Goto(w, "read") /\ UNCHANGED <<issues, loaded>>
  <2> DEFINE x == [exec[w] EXCEPT !.phase = "read"]
             r == Rewritten(e, langs)
  <2>1. "read" \in Phases
      BY DEF Phases
  <2>2. /\ x \in Execution /\ x.phase = "read" /\ x.job = exec[w].job /\ x.cursor = e
        /\ exec' = [exec EXCEPT ![w] = x]
      BY <1>5, <2>1, GotoRepair
  <2>3. r \in Entry /\ r.present = entry[e].present
      BY <1>3, <1>4, RewrittenEntry, ReadSoFar
  <2> HIDE DEF x, r, e
  <2>4. \A d \in Entries : entry'[d] = IF d = e THEN r ELSE entry[d]
      BY <1>5, ReadSoFar DEF r
  <2>5. entry' \in [Entries -> Entry] /\ \A d \in Entries : entry'[d].present = entry[d].present
      BY <1>3, <1>5, <2>3, <2>4, ReadSoFar DEF r
  <2>6. \A d \in Entries : spelling'[d] = IF d = e THEN Clean ELSE spelling[d]
      BY <1>5, ReadSoFar
  <2>7. /\ spelling' \in [Entries -> Spelling]
        /\ \A d \in Entries : spelling[d] = Clean => spelling'[d] = Clean
      BY <1>5, <2>6, CleanSpelling, ReadSoFar
  <2>8. ASSUME ~loaded[w].unresolved PROVE Tidy(spelling', e)
    <3> SUFFICES ASSUME NEW d \in Entries, d <= e PROVE spelling'[d] = Clean
        BY DEF Tidy
    <3>1. d = e \/ d <= e - 1
        BY <1>3
    <3> QED
        BY <1>3, <2>6, <2>8, <3>1 DEF Tidy
  <2>9. Reads(x, loaded[w], spelling')
      BY <2>2, <2>8 DEF Reads
  <2>10. x.phase \in Repairing \union {"done", "error", "unresolved"} /\ x.phase # "done"
      BY <2>2 DEF Repairing
  <2>11. loaded' = [loaded EXCEPT ![w] = loaded[w]] /\ issues \subseteq issues'
      BY <1>4, <1>5
  <2> QED
      BY <1>1, <1>2, <1>4, <2>2, <2>5, <2>7, <2>9, <2>10, <2>11, RepairStep
<1>6. ASSUME NEW phase \in {"error", "read"}, NEW read \in Loaded, Goto(w, phase),
             loaded' = [loaded EXCEPT ![w] = read], phase = "read" => read.unresolved,
             issues \subseteq issues', UNCHANGED <<entry, spelling>>
      PROVE  RepairInv'
  <2> DEFINE x == [exec[w] EXCEPT !.phase = phase]
  <2>1. phase \in Phases /\ phase \in Repairing \union {"done", "error", "unresolved"}
        /\ phase # "done"
      BY DEF Phases, Repairing
  <2>2. /\ x \in Execution /\ x.phase = phase /\ x.job = exec[w].job
        /\ exec' = [exec EXCEPT ![w] = x]
      BY <1>6, <2>1, GotoRepair
  <2> HIDE DEF x
  <2>3. Reads(x, read, spelling')
      BY <1>6, <2>2 DEF Reads
  <2>4. /\ entry' \in [Entries -> Entry] /\ \A d \in Entries : entry'[d].present = entry[d].present
        /\ spelling' \in [Entries -> Spelling]
        /\ \A d \in Entries : spelling[d] = Clean => spelling'[d] = Clean
      BY <1>6, ReadSoFar
  <2> QED
      BY <1>1, <1>2, <1>6, <2>1, <2>2, <2>3, <2>4, RepairStep
<1>7. CASE Goto(w, "error") /\ UNCHANGED <<entry, spelling, issues, loaded>>
    BY <1>4, <1>6, <1>7
<1>8. CASE /\ \E kind \in problems : issues' = issues \union {EntryIssue(e, kind)}
           /\ Load(w, [loaded[w] EXCEPT !.unresolved = TRUE])
           /\ Goto(w, "read") /\ UNCHANGED <<entry, spelling>>
  <2> DEFINE read == [loaded[w] EXCEPT !.unresolved = TRUE]
  <2>1. read \in Loaded /\ read.unresolved
      BY <1>4 DEF Loaded
  <2>2. loaded' = [loaded EXCEPT ![w] = read] /\ issues \subseteq issues'
      BY <1>8 DEF Load
  <2> HIDE DEF read
  <2> QED
      BY <1>6, <1>8, <2>1, <2>2
<1> QED
    BY <1>5, <1>7, <1>8 DEF RepairEntry

LEMMA FinishStep ==
  ASSUME RepairInv, NEW w \in Workers, NEW j \in Jobs, FinishRepair(w, j) PROVE RepairInv'
<1> DEFINE r == NewRow("lexical", NoTotal)
           x == [exec[w] EXCEPT !.phase = "done"]
           lang == loaded[w].lang
<1>1. /\ exec[w].phase = "finish" /\ job[j].state = "absent"
      /\ job' = [job EXCEPT ![j] = r] /\ declared' = TRUE /\ Goto(w, "done")
      /\ UNCHANGED <<entry, sweep, faults, spelling, issues, loaded>>
    BY DEF FinishRepair, Absent
<1>2. project' = [project EXCEPT
                   !.lang = lang, !.repair = "ready",
                   !.lexical = "rebuilding", !.lexicalJob = j,
                   !.embedding = "pending", !.embeddingJob = NoJob]
    BY DEF FinishRepair
<1>3. r \in Row /\ r.kind = "lexical"
    BY BlankIsRow DEF NewRow
<1> HIDE DEF r
<1>4. JobsFollow
    BY <1>1, <1>3, ReadSoFar, OneJob DEF RowFollows
<1>5. "done" \in Phases /\ exec[w].phase \in Repairing
    BY <1>1 DEF Phases, Repairing
<1>6. /\ x \in Execution /\ x.phase = "done" /\ x.job = exec[w].job
      /\ exec' = [exec EXCEPT ![w] = x]
    BY <1>1, <1>5, GotoRepair
<1> HIDE DEF x
<1>7. loaded[w] \in Loaded /\ loaded' = [loaded EXCEPT ![w] = loaded[w]] /\ lang \in Languages
    BY <1>1, ReadSoFar DEF Loaded
<1> HIDE DEF lang
<1>8. /\ project' \in Project /\ project'.repair = "ready"
      /\ project'.repairJob = project.repairJob
    BY <1>2, <1>7, ReadSoFar DEF Project
<1>9. Reads(x, loaded[w], spelling')
    BY <1>6 DEF Reads
<1>10. Tidy(spelling', LastEntry)
    BY <1>1, ReadSoFar DEF Reads
<1>11. /\ entry' \in [Entries -> Entry] /\ \A d \in Entries : entry'[d].present = entry[d].present
       /\ spelling' \in [Entries -> Spelling]
       /\ \A d \in Entries : spelling[d] = Clean => spelling'[d] = Clean
    BY <1>1, ReadSoFar
<1> QED
    BY <1>1, <1>4, <1>5, <1>6, <1>7, <1>8, <1>9, <1>10, <1>11, RepairStep

LEMMA FlagStep == ASSUME RepairInv, NEW w \in Workers, Flag(w) PROVE RepairInv'
<1> DEFINE x == [exec[w] EXCEPT !.phase = "unresolved"]
<1>1. /\ exec[w].phase = "flag" /\ Goto(w, "unresolved")
      /\ issues' = issues \union {ProjectIssue}
      /\ UNCHANGED <<job, entry, sweep, faults, spelling, declared, loaded>>
    BY DEF Flag
<1>2. "unresolved" \in Phases /\ exec[w].phase \in Repairing
    BY <1>1 DEF Phases, Repairing
<1>3. /\ x \in Execution /\ x.phase = "unresolved" /\ x.job = exec[w].job
      /\ exec' = [exec EXCEPT ![w] = x]
    BY <1>1, <1>2, GotoRepair
<1> HIDE DEF x
<1>4. /\ project' \in Project /\ project'.repair = "needs"
      /\ project'.repairJob = project.repairJob
    BY ReadSoFar DEF Flag, Project
<1>5. loaded[w] \in Loaded /\ loaded' = [loaded EXCEPT ![w] = loaded[w]]
    BY <1>1, ReadSoFar
<1>6. Reads(x, loaded[w], spelling')
    BY <1>3 DEF Reads
<1>7. /\ entry' \in [Entries -> Entry] /\ \A d \in Entries : entry'[d].present = entry[d].present
      /\ spelling' \in [Entries -> Spelling] /\ declared' \in BOOLEAN
      /\ \A d \in Entries : spelling[d] = Clean => spelling'[d] = Clean
    BY <1>1, ReadSoFar
<1>8. JobsFollow
    BY <1>1, ReadSoFar, SameJobs
<1> QED
    BY <1>1, <1>2, <1>3, <1>4, <1>5, <1>6, <1>7, <1>8, RepairStep

-----------------------------------------------------------------------------
(* Requests *)

LEMMA RepairedLangs ==
  ASSUME NEW langs \in SUBSET Languages, NEW s \in Spelling,
         NEW mapped \in Languages, NEW primary \in Languages
  PROVE  Repaired(langs, s, mapped, primary) \in SUBSET Languages
BY DEF Repaired, Spelling

(* The decision starts a repair that nobody executes yet. *)
LEMMA ResolveStep ==
  ASSUME RepairInv, NEW primary \in Languages, NEW mapped \in [Entries -> Languages],
         NEW j \in Jobs, Resolve(primary, mapped, j)
  PROVE  RepairInv'
<1> DEFINE r == NewRow("repair", NoTotal)
           new(e) == Repaired(entry[e].langs, spelling[e], mapped[e], primary)
<1>1. /\ job[j].state = "absent" /\ job' = [job EXCEPT ![j] = r]
      /\ declared' = TRUE
      /\ UNCHANGED <<exec, sweep, faults, loaded>>
    BY DEF Resolve, Absent
<1>2. /\ entry' = [e \in Entries |-> IF e \in Concerned THEN Rewritten(e, new(e)) ELSE entry[e]]
      /\ spelling' = [e \in Entries |-> IF e \in Concerned THEN Clean ELSE spelling[e]]
    BY DEF Resolve
<1>3. r \in Row /\ r.kind = "repair" /\ r.state = "queued" /\ r.cursor = 0
    BY RepairRow DEF NewRow
<1> HIDE DEF r
<1>4. /\ job' \in [Jobs -> Row]
      /\ \A i \in Jobs : job'[i] = IF i = j THEN r ELSE job[i]
    BY <1>1, <1>3 DEF RepairInv, Staged, TypeOK
<1>5. ASSUME NEW e \in Entries
      PROVE  entry'[e] \in Entry /\ entry'[e].present = entry[e].present
  <2>1. entry[e] \in Entry /\ entry[e].langs \in SUBSET Languages /\ spelling[e] \in Spelling
      BY DEF RepairInv, Staged, TypeOK, Spelled, Entry
  <2>2. new(e) \in SUBSET Languages
      BY <2>1, RepairedLangs
  <2> HIDE DEF new
  <2>3. Rewritten(e, new(e)) \in Entry /\ Rewritten(e, new(e)).present = entry[e].present
      BY <2>2, RewrittenEntry DEF RepairInv
  <2> QED
      BY <1>2, <2>1, <2>3
<1>6. entry' \in [Entries -> Entry]
    BY <1>2, <1>5
<1>7. /\ spelling' \in [Entries -> Spelling]
      /\ \A e \in Entries : spelling[e] = Clean => spelling'[e] = Clean
    BY <1>2, CleanSpelling DEF RepairInv, Spelled
<1>8. /\ project' \in Project /\ project'.repair = "repairing" /\ project'.repairJob = j
    BY DEF Resolve, Bound, RepairInv, Staged, TypeOK, Project
<1>9. Staged'
  <2>1. TypeOK'
      BY <1>1, <1>4, <1>6, <1>8 DEF RepairInv, Staged, TypeOK
  <2>2. \A w \in Workers : Fits(exec[w], job) => Fits(exec[w], job')
      BY <1>1, <1>4 DEF Fits
  <2> QED
      BY <1>1, <2>1, <2>2 DEF RepairInv, Staged
<1>10. Spelled'
    BY <1>1, <1>7 DEF RepairInv, Spelled
<1>11. Newcomers'
    BY <1>5, <1>7 DEF RepairInv, Newcomers
<1>12. BoundRepair'
  <2>1. ASSUME NEW w \in Workers, exec[w].phase = "done" PROVE exec[w].job # j
      BY <1>1, <2>1 DEF RepairInv, Staged, Fits
  <2>2. \A i \in Jobs : job'[i].kind = "repair" => job'[i].cursor = 0
      BY <1>3, <1>4 DEF RepairInv, BoundRepair
  <2> QED
      BY <1>1, <1>3, <1>4, <1>8, <2>1, <2>2 DEF BoundRepair
<1>13. Progress'
  <2> SUFFICES ASSUME NEW w \in Workers PROVE Reads(exec[w], loaded[w], spelling')
      BY <1>1 DEF Progress
  <2>1. Reads(exec[w], loaded[w], spelling)
      BY DEF RepairInv, Progress
  <2> QED
      BY <1>7, <2>1, ReadsStays
<1>14. RepairSound'
    BY <1>3, <1>4, <1>8 DEF RepairSound, Ready, Active
<1> QED
    BY <1>9, <1>10, <1>11, <1>12, <1>13, <1>14 DEF RepairInv

LEMMA RetryRepairStep == ASSUME RepairInv, RetryRepair PROVE RepairInv'
<1> DEFINE j == project.repairJob
<1>1. /\ job' = [job EXCEPT ![j] = Retried(job[j])]
      /\ UNCHANGED <<project, entry, exec, sweep, faults>>
      /\ UNCHANGED <<spelling, declared, issues, loaded>>
    BY DEF RetryRepair, repairVars
<1>2. Staged /\ j \in Jobs
    BY DEF RepairInv, BoundRepair
<1> HIDE DEF j
<1>3. Follows
    BY <1>1, <1>2, RetryRow, SameExec, SameEntries, SameProject, SameRest DEF Follows
<1> QED
    BY <1>1, <1>3, OutsideStep

LEMMA WithdrawStep == ASSUME RepairInv, NEW e \in Entries, Withdraw(e) PROVE RepairInv'
<1>1. /\ entry' = [entry EXCEPT ![e] = Written(entry[e])]
      /\ UNCHANGED <<project, job, exec, sweep, faults>>
      /\ UNCHANGED <<spelling, declared, issues, loaded>>
    BY DEF Withdraw
<1>2. Staged /\ TypeOK /\ entry[e] \in Entry
    BY DEF RepairInv, Staged, TypeOK
<1>3. EntriesFollow
    BY <1>1, <1>2, WrittenEntry, WrittenPresent, OneEntry
<1>4. Follows
    BY <1>1, <1>2, <1>3, SameJobs, SameExec, SameProject, SameRest DEF Follows
<1> QED
    BY <1>1, <1>4, OutsideStep

-----------------------------------------------------------------------------
LEMMA NewEntry ==
  ASSUME NEW l \in SUBSET Languages
  PROVE  /\ [Blank EXCEPT !.present = TRUE, !.langs = l] \in Entry
         /\ [Blank EXCEPT !.present = TRUE, !.langs = l].present = TRUE
         /\ [Blank EXCEPT !.present = FALSE, !.langs = l] \in Entry
         /\ [Blank EXCEPT !.present = FALSE, !.langs = l].present = FALSE
<1>1. 0 \in 0..MaxEdits
    BY ConstantsOK
<1> QED
    BY <1>1 DEF Blank, Entry

LEMMA RepairInit == InitLegacy => RepairInv
<1> SUFFICES ASSUME InitLegacy PROVE RepairInv
    OBVIOUS
<1> DEFINE r == NewRow("repair", NoTotal)
<1>1. /\ 0 \in Languages /\ 0 \in 0..MaxEdits /\ 0 \in 0..LastEntry /\ 0 \in 0..MaxFaults
      /\ 1 \in Jobs
    BY ConstantsOK, LegacyAssumption DEF Languages, Jobs
<1>2. r \in Row /\ r.kind = "repair" /\ r.state = "queued" /\ r.cursor = 0
    BY RepairRow DEF NewRow
<1>3. BlankRow \in Row /\ BlankRow.kind = "lexical"
  <2>1. NewRow("lexical", 0) \in Row
      BY BlankIsRow
  <2> QED
      BY <2>1 DEF BlankRow, NewRow, Row
<1>4. job = [[i \in Jobs |-> BlankRow] EXCEPT ![1] = r]
    BY DEF InitLegacy
<1> HIDE DEF r
<1>5. job \in [Jobs -> Row] /\ \A i \in Jobs : job[i] = IF i = 1 THEN r ELSE BlankRow
    BY <1>1, <1>2, <1>3, <1>4
<1>6. project = [lang |-> 0, cooling |-> FALSE, repair |-> "repairing", repairJob |-> 1,
                 lexical |-> "pending", lexicalJob |-> NoJob,
                 embedding |-> "pending", embeddingJob |-> NoJob]
    BY DEF InitLegacy
<1>7. project \in Project
    BY <1>1, <1>6 DEF Project
<1>8. exec \in [Workers -> Execution] /\ \A w \in Workers : exec[w].phase = "idle"
  <2>1. exec = [w \in Workers |-> Idle]
      BY DEF InitLegacy
  <2>2. Idle \in Execution /\ Idle.phase = "idle"
      BY <1>1 DEF Idle, Execution, Phases
  <2> QED
      BY <2>1, <2>2
<1>9. spelling \in [Entries -> Spelling]
    BY LegacyAssumption DEF InitLegacy, Spelling
<1>10. /\ entry \in [Entries -> Entry]
       /\ \A e \in Entries : ~entry[e].present => spelling[e] = Clean
  <2> DEFINE langs(e) == Languages \ (spelling[e].raw \union spelling[e].clash)
             there(e) == e <= Uploaded
             row(e) == [Blank EXCEPT !.present = there(e), !.langs = langs(e)]
  <2>1. entry = [e \in Entries |-> row(e)]
      BY DEF InitLegacy
  <2>2. \A e \in Entries : there(e) \in BOOLEAN /\ langs(e) \in SUBSET Languages
      OBVIOUS
  <2>3. \A e \in Entries : ~there(e) => spelling[e] = Clean
    <3>1. \A e \in Entries : e > Uploaded => spelling[e] = Clean
        BY DEF InitLegacy
    <3>2. \A e \in Entries : ~there(e) => e > Uploaded
        BY ConstantsOK DEF Entries
    <3> QED
        BY <3>1, <3>2
  <2> HIDE DEF langs, there
  <2>4. ASSUME NEW e \in Entries
        PROVE  row(e) \in Entry /\ row(e).present = there(e)
    <3>1. there(e) \in BOOLEAN /\ langs(e) \in SUBSET Languages
        BY <2>2
    <3>2. CASE there(e) = TRUE
      <4>1. row(e) = [Blank EXCEPT !.present = TRUE, !.langs = langs(e)]
          BY <3>2
      <4> HIDE DEF row
      <4> QED
          BY <1>1, <3>1, <3>2, <4>1, NewEntry
    <3>3. CASE there(e) = FALSE
      <4>1. row(e) = [Blank EXCEPT !.present = FALSE, !.langs = langs(e)]
          BY <3>3
      <4> HIDE DEF row
      <4> QED
          BY <1>1, <3>1, <3>3, <4>1, NewEntry
    <3> QED
        BY <3>1, <3>2, <3>3
  <2> HIDE DEF row
  <2> QED
      BY <2>1, <2>3, <2>4
<1>11. sweep \in [entry: 0..LastEntry, text: Texts \union {NoText}]
    BY <1>1 DEF InitLegacy, NotSweeping
<1>12. faults \in 0..MaxFaults
    BY <1>1 DEF InitLegacy
<1>13. Staged
    BY <1>5, <1>7, <1>8, <1>10, <1>11, <1>12 DEF Staged, TypeOK, Fits
<1>14. Spelled
  <2>1. loaded = [w \in Workers |-> NothingLoaded] /\ declared \in BOOLEAN
      BY DEF InitLegacy
  <2>2. NothingLoaded \in Loaded
      BY <1>1, CleanSpelling DEF NothingLoaded, Loaded
  <2> QED
      BY <1>9, <2>1, <2>2 DEF Spelled
<1>15. Newcomers
    BY <1>10 DEF Newcomers
<1>16. BoundRepair
    BY <1>1, <1>2, <1>3, <1>5, <1>6, <1>8 DEF BoundRepair
<1>17. Progress
    BY <1>8 DEF Progress, Reads
<1>18. RepairSound
    BY <1>1, <1>2, <1>5, <1>6 DEF RepairSound, Ready, Active
<1> QED
    BY <1>13, <1>14, <1>15, <1>16, <1>17, <1>18 DEF RepairInv

LEMMA RepairNext == RepairInv /\ [NextLegacy]_allVars => RepairInv'
<1> SUFFICES ASSUME RepairInv, [NextLegacy]_allVars PROVE RepairInv'
    OBVIOUS
<1>1. CASE Known(Next)
  <2>1. Follows
      BY <1>1, NextFollows DEF Known, RepairInv
  <2> QED
      BY <1>1, <2>1, OutsideStep DEF Known, repairVars
<1>2. ASSUME NEW w \in Workers, Repair(w) PROVE RepairInv'
    BY <1>2, LoadStep, ReadEntryStep, RepairEntryStep, FlagStep, FinishStep DEF Repair
<1>3. ASSUME NEW primary \in Languages, NEW mapped \in [Entries -> Languages], NEW j \in Jobs,
             Resolve(primary, mapped, j)
      PROVE  RepairInv'
    BY <1>3, ResolveStep
<1>4. CASE RetryRepair
    BY <1>4, RetryRepairStep
<1>5. ASSUME NEW e \in Entries, Withdraw(e) PROVE RepairInv'
    BY <1>5, WithdrawStep
<1>6. CASE UNCHANGED allVars
  <2>1. UNCHANGED vars /\ UNCHANGED <<spelling, declared, issues, loaded>>
      BY <1>6 DEF allVars, vars
  <2>2. Follows
      BY <2>1, NextFollows DEF RepairInv
  <2> QED
      BY <2>1, <2>2, OutsideStep
<1> QED
    BY <1>1, <1>2, <1>3, <1>4, <1>5, <1>6 DEF NextLegacy

(* A project is released only with canonical originals, although its handler
   reads them outside the transactions that rewrite them and late attempts go
   on; one that waits for its owner has an open issue, and one that is being
   repaired has a job that is not over. *)
THEOREM RepairStaysSound == LegacySpec => []RepairSound
<1>1. RepairInv => RepairSound
    BY DEF RepairInv
<1>2. LegacySpec => []RepairInv
    BY RepairInit, RepairNext, PTL DEF LegacySpec
<1> QED
    BY <1>1, <1>2, PTL
=============================================================================
