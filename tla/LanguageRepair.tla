---------------------------- MODULE LanguageRepair ----------------------------
(***************************************************************************)
(* PrimarySource for a project that is older than canonical language tags. *)
(* A job rewrites the tags of every entry; what it cannot decide becomes   *)
(* an issue, and the owner decides all of them at once, which starts the   *)
(* next repair.  A repair that leaves nothing open starts the lexical      *)
(* rebuild of PrimarySource.  An administrator may retry a repair whose    *)
(* attempts are used up.                                                   *)
(*                                                                         *)
(* An original has some languages under their canonical tag (entry.langs); *)
(* `spelling` has the rest: languages it has under another spelling,       *)
(* languages it has under two spellings with different texts, and whether  *)
(* there is a tag that no language has.                                    *)
(***************************************************************************)
EXTENDS PrimarySource

CONSTANTS Legacy,      \* the spellings the entries may have at the start
          MaxRepairs   \* bound: repairs the owner starts

VARIABLES
  spelling,   \* Entries -> [raw, clash: SUBSET Languages, stray: BOOLEAN]
  declared,   \* the tags in the row of the project are valid
  issues,     \* open rows of language_resolution_issues
  gone,       \* entries that are deleted, whose rows stay
  loaded,     \* Workers -> what the handler has read
  rounds      \* repairs the owner has started

repairVars == <<spelling, declared, issues, gone, loaded, rounds>>
allVars == <<project, job, entry, exec, sweep, faults,
             spelling, declared, issues, gone, loaded, rounds>>

Clean == [raw |-> {}, clash |-> {}, stray |-> FALSE]
Whole == 0      \* the entity of an issue that is about the project
EntryIssue(e, kind) == [entity |-> e, kind |-> kind]
ProjectIssue == [entity |-> Whole, kind |-> "invalid_tag"]
NothingLoaded == [lang |-> 0, unresolved |-> FALSE, langs |-> {}, spelling |-> Clean]

ASSUME LegacyAssumption ==
  /\ Legacy \subseteq [raw: SUBSET Languages, clash: SUBSET Languages, stray: BOOLEAN]
  /\ LastJob > 0

-----------------------------------------------------------------------------
(* Originals *)

(* canonicalize_original: the first problem in the order of the keys counts,
   a missing primary source only when there is no other. *)
Problems(langs, s, primary) ==
  LET spelled == (IF s.stray THEN {"invalid_tag"} ELSE {})
                   \union (IF s.clash # {} THEN {"conflicting_original_keys"} ELSE {})
  IN IF spelled # {} THEN spelled
     ELSE IF primary \in langs \union s.raw THEN {} ELSE {"primary_not_in_sources"}

(* repair_entry_original: a tag of no language, and a primary source that is
   missing, become the language `mapped` the owner names. *)
Repaired(langs, s, mapped, primary) ==
  LET known == langs \union s.raw \union s.clash
  IN known \union (IF s.stray \/ primary \notin known THEN {mapped} ELSE {})

(* Writing the row runs the trigger of PrimarySource. *)
Rewritten(e, langs) == Written([entry[e] EXCEPT !.langs = langs])

-----------------------------------------------------------------------------
(* The handler of a repair *)

Load(w, value) == loaded' = [loaded EXCEPT ![w] = value]

LoadProject(w) ==
  LET finished == /\ Ready /\ project.repairJob = exec[w].job
                  /\ project.lexicalJob # NoJob
  IN /\ exec[w].phase = "load"
     /\ Goto(w, IF finished THEN "done" ELSE IF declared THEN "read" ELSE "flag")
     /\ Load(w, [NothingLoaded EXCEPT !.lang = project.lang])
     /\ UNCHANGED <<project, job, entry, sweep, faults, spelling, declared, issues, gone, rounds>>

(* Slip: each batch starts with nothing unresolved. *)
WithRowAlone(w, e) ==
  [lang |-> loaded[w].lang, unresolved |-> FALSE,
   langs |-> entry[e].langs, spelling |-> spelling[e]]

WithRow(w, e) == [loaded[w] EXCEPT !.langs = entry[e].langs, !.spelling = spelling[e]]

(* The rows are read outside the transaction that rewrites them. *)
ReadEntry(w) ==
  LET more == Beyond(exec[w].cursor)
  IN /\ exec[w].phase = "read"
     /\ IF more = {}
        THEN /\ Goto(w, IF loaded[w].unresolved THEN "flag" ELSE "finish")
             /\ UNCHANGED loaded
        ELSE LET e == Min(more)
             IN /\ exec' = [exec EXCEPT ![w].phase = "repair", ![w].cursor = e]
                /\ Load(w, WithRow(w, e))
     /\ UNCHANGED <<project, job, entry, sweep, faults, spelling, declared, issues, gone, rounds>>

RepairEntry(w) ==
  LET e == exec[w].cursor
      read == loaded[w]
      problems == Problems(read.langs, read.spelling, read.lang)
      row == Rewritten(e, read.langs \union read.spelling.raw)
  IN /\ exec[w].phase = "repair"
     /\ IF problems = {}
        THEN /\ IF Accepted(row)
                THEN /\ entry' = [entry EXCEPT ![e] = row]
                     /\ spelling' = [spelling EXCEPT ![e] = Clean]
                     /\ Goto(w, "read")
                ELSE Goto(w, "error") /\ UNCHANGED <<entry, spelling>>
             /\ UNCHANGED <<issues, loaded>>
        ELSE /\ \E kind \in problems : issues' = issues \union {EntryIssue(e, kind)}
             /\ Load(w, [read EXCEPT !.unresolved = TRUE])
             /\ Goto(w, "read")
             /\ UNCHANGED <<entry, spelling>>
     /\ UNCHANGED <<project, job, sweep, faults, declared, gone, rounds>>

(* The languages that were read at the beginning are written, whatever the
   row says by now; progress_total of the lexical job is NULL. *)
FinishRepair(w, j) ==
  /\ exec[w].phase = "finish"
  /\ Absent(j)
  /\ job' = [job EXCEPT ![j] = NewRow("lexical", NoTotal)]
  /\ project' = [project EXCEPT
                   !.lang = loaded[w].lang, !.repair = "ready",
                   !.lexical = "rebuilding", !.lexicalJob = j,
                   !.embedding = "pending", !.embeddingJob = NoJob]
  /\ declared' = TRUE
  /\ Goto(w, "done")
  /\ UNCHANGED <<entry, sweep, faults, spelling, issues, gone, loaded, rounds>>

(* mark_project_unresolved *)
Flag(w) ==
  /\ exec[w].phase = "flag"
  /\ project' = [project EXCEPT !.repair = "needs", !.lexical = "pending"]
  /\ issues' = issues \union {ProjectIssue}
  /\ Goto(w, "unresolved")
  /\ UNCHANGED <<job, entry, sweep, faults, spelling, declared, gone, loaded, rounds>>

Repair(w) ==
  \/ LoadProject(w) \/ ReadEntry(w) \/ RepairEntry(w) \/ Flag(w)
  \/ \E j \in Jobs : FinishRepair(w, j)

-----------------------------------------------------------------------------
(* Requests *)

Concerned == {i.entity : i \in issues} \ {Whole}

(* The project is bound to its new repair. *)
Bound(j) == [project EXCEPT !.repair = "repairing", !.repairJob = j]

(* The owner names the primary source and, for every entry, the language of
   what has none; he decides every open issue, which is refused while one is
   about a deleted entry. *)
Resolve(primary, mapped, j) ==
  LET new(e) == Repaired(entry[e].langs, spelling[e], mapped[e], primary)
  IN /\ project.repair = "needs"
     /\ rounds < MaxRepairs
     /\ issues # {} /\ Concerned \intersect gone = {}
     /\ \A e \in Concerned : primary \in new(e)
     /\ Absent(j)
     /\ entry' = [e \in Entries |-> IF e \in Concerned THEN Rewritten(e, new(e)) ELSE entry[e]]
     /\ spelling' = [e \in Entries |-> IF e \in Concerned THEN Clean ELSE spelling[e]]
     /\ issues' = {}
     /\ declared' = TRUE
     /\ job' = [job EXCEPT ![j] = NewRow("repair", NoTotal)]
     /\ project' = [Bound(j) EXCEPT
                      !.lang = primary, !.lexical = "pending", !.lexicalJob = NoJob,
                      !.embedding = "pending", !.embeddingJob = NoJob]
     /\ rounds' = rounds + 1
     /\ UNCHANGED <<exec, sweep, faults, gone, loaded>>

RetryRepair ==
  LET j == project.repairJob
  IN /\ project.repair = "repairing"
     /\ job[j].state = "failed" /\ job[j].attempts < RetryCap
     /\ job' = [job EXCEPT ![j] = Retried(@)]
     /\ UNCHANGED <<project, entry, exec, sweep, faults>> /\ UNCHANGED repairVars

(* An upload or a rollback of the file removes an entry, and brings it back;
   a rollback does not ask whether the languages are ready. *)
Withdraw(e) ==
  /\ entry[e].present /\ Accepted(entry[e])
  /\ entry' = [entry EXCEPT ![e] = Written(@)]
  /\ gone' = (gone \ {e}) \union ({e} \ gone)
  /\ UNCHANGED <<project, job, exec, sweep, faults, spelling, declared, issues, loaded, rounds>>

-----------------------------------------------------------------------------
(* The project comes out of the migration with a repair of its own. *)

InitLegacy ==
  /\ job = [[j \in Jobs |-> BlankRow] EXCEPT ![1] = NewRow("repair", NoTotal)]
  /\ project = [lang |-> 0, cooling |-> FALSE, repair |-> "repairing", repairJob |-> 1,
                lexical |-> "pending", lexicalJob |-> NoJob,
                embedding |-> "pending", embeddingJob |-> NoJob]
  /\ exec = [w \in Workers |-> Idle] /\ sweep = NotSweeping /\ faults = 0
  /\ spelling \in [Entries -> Legacy]
  /\ \A e \in Entries : e > Uploaded => spelling[e] = Clean
  /\ entry = [e \in Entries |->
                [Blank EXCEPT !.present = e <= Uploaded,
                              !.langs = Languages \ (spelling[e].raw \union spelling[e].clash)]]
  /\ declared \in BOOLEAN
  /\ issues = {} /\ gone = {} /\ rounds = 0
  /\ loaded = [w \in Workers |-> NothingLoaded]

Known(A) == A /\ UNCHANGED repairVars

NextLegacy ==
  \/ Known(Next)
  \/ \E w \in Workers : Repair(w)
  \/ \E primary \in Languages, mapped \in [Entries -> Languages], j \in Jobs :
       Resolve(primary, mapped, j)
  \/ RetryRepair
  \/ \E e \in Entries : Withdraw(e)

(* Workers poll, handlers return, the sweep goes round, leases run out; no
   request, no decision and no fault has to happen. *)
FairLegacy ==
  /\ \A w \in Workers : WF_allVars(Known(Loop(w) \/ Handler(w)) \/ Repair(w))
  /\ \A j \in Jobs : WF_allVars(Known(LeaseExpires(j)) /\ UNCHANGED faults)
  /\ WF_allVars(Known(Sweeping))

LegacySpec == InitLegacy /\ [][NextLegacy]_allVars /\ FairLegacy

-----------------------------------------------------------------------------
(* Properties *)

(* A project is released only with originals whose tags are all canonical;   *)
(* one that waits for its owner has something for him to decide; and a       *)
(* repair that is under way has its job, or a failed one that can be retried *)
(* (repair_languages.rs; resolve_project_languages answers 409 without an    *)
(* open issue, retry_admin_language_repair without a failed job).            *)
RepairSound ==
  /\ Ready => declared /\ \A e \in Present : spelling[e] = Clean
  /\ project.repair = "needs" => issues # {}
  /\ project.repair = "repairing" =>
       job[project.repairJob].state \in Active \union {"failed"}

(* A project is searchable again, or it waits for somebody: for the decision *)
(* of its owner, or for the retry of a failed job (job_worker.rs).           *)
Waits == \/ project.repair = "needs"
         \/ project.repair = "repairing" /\ job[project.repairJob].state = "failed"
         \/ Ready /\ project.lexical # "ready" /\ job[project.lexicalJob].state = "failed"

(* Bound of the model: the ids are used up, and a handler needs one. *)
OutOfIds == /\ \A j \in Jobs : job[j].state # "absent"
            /\ \E w \in Workers : exec[w].phase \in {"insert", "finish"}

SearchReturns == TRUE ~> ((Ready /\ project.lexical = "ready") \/ Waits \/ OutOfIds)
=============================================================================
