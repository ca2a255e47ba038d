---------------------------- MODULE EntryEditing ----------------------------
(***************************************************************************)
(* The entries of one project while people translate them: the optimistic  *)
(* save from an editor that may be out of date, the flags, the replacement *)
(* of a file by an upload, and everything the same transactions keep in    *)
(* step: the materialised counts, the progress of tasks, the history of    *)
(* the entry and the ledger of contributions.                              *)
(*                                                                         *)
(* A transaction locks the project row and is one step; what is spread     *)
(* over time is an editor that opened an entry and saves it later.         *)
(***************************************************************************)
EXTENDS Integers, FiniteSets, Functions, Permissions

CONSTANTS
  Users, Files, Entries, Tasks,
  PlatformRole,   \* [Users -> PlatformRoles or NoRole]
  MemberRole,     \* [Users -> Roles or NoRole]: the role a user has while a member
  FileOf,         \* [Entries -> Files]
  SaveRequests,   \* bound: [Users -> text, state and tag that they save]
  FlagRequests,   \* bound: flags that are asked for, "lock" and "hide"
  Sources,        \* bound: [Entries -> sets of source texts that are uploaded]
  Seed,           \* bound: [Entries -> text and state that an upload brings along]
  Edited,         \* bound: [Users -> sets of entries that they open in the editor]
  TaskFiles,      \* bound: sets of files that a task is given
  MaxVersion      \* bound: [Entries -> Nat], versions of an entry

States == {"untranslated", "translated", "checked", "reviewed"}

ASSUME EntryEditingAssumption ==
  /\ IsFiniteSet(Files) /\ IsFiniteSet(Entries)
  /\ PlatformRole \in [Users -> PlatformRoles \union {NoRole}]
  /\ MemberRole \in [Users -> Roles \union {NoRole}]
  /\ FileOf \in [Entries -> Files]
  /\ SaveRequests \in [Users -> SUBSET [text: Nat, state: States, tag: {"keep", "yes", "no"}]]
  /\ FlagRequests \subseteq UNION {[S -> BOOLEAN] : S \in SUBSET {"lock", "hide"}}
  /\ DOMAIN Sources = Entries
  /\ Seed \in [Entries -> [text: Nat, state: States]] /\ MaxVersion \in [Entries -> Nat \ {0}]
  /\ Edited \in [Users -> SUBSET Entries] /\ TaskFiles \subseteq SUBSET Files

VARIABLES
  row,           \* Entries -> the row of entries, or Absent
  active,        \* the files that are not deleted
  fileStats,     \* Files -> counts by bucket (file_stats)
  projectStats,  \* counts by bucket (project_stats)
  history,       \* Entries -> the rows of entry_versions
  draft,         \* Users -> the entry open in the editor, as it was read
  member,        \* the users with a membership
  ledger,        \* rows of contribution_events
  projectCp,     \* Users -> memberships.cp_tenths; 0 without a membership
  userCp,        \* Users -> users.cp_tenths
  task,          \* Tasks -> files, baseline and progress, or NoTask
  strayed        \* files whose entries were written to while it was deleted

vars == <<row, active, fileStats, projectStats, history, draft, member, ledger,
          projectCp, userCp, task, strayed>>

Absent == [version |-> 0]
NoTask == [files |-> {}, baseline |-> {}, progress |-> <<-1, -1>>]
Closed == [seen |-> Absent]

Row == [source: UNION {Sources[e] : e \in Entries}, text: Nat, state: States, locked: BOOLEAN, hidden: BOOLEAN,
        questioned: BOOLEAN, tomb: BOOLEAN, version: Nat \ {0}]

Exists(e) == row[e] # Absent

Within(rows) == \A e \in Entries : rows[e].version <= MaxVersion[e]

-----------------------------------------------------------------------------
(* Counts.  A bucket is a column of file_stats and project_stats. *)

Buckets == [hidden: BOOLEAN, label: States \union {"questioned"}]
Zero == [b \in Buckets |-> 0]

BucketsOf(r) ==
  {[hidden |-> r.hidden, label |-> r.state]}
  \union (IF r.questioned THEN {[hidden |-> r.hidden, label |-> "questioned"]} ELSE {})

(* A row counts unless it is a tombstone. *)
Weight(r) ==
  [b \in Buckets |-> IF r # Absent /\ ~r.tomb /\ b \in BucketsOf(r) THEN 1 ELSE 0]

Plus(s, d) == [b \in Buckets |-> s[b] + d[b]]
Minus(s, d) == [b \in Buckets |-> s[b] - d[b]]
Sum(rows, S) == [b \in Buckets |-> SumFunction([e \in S |-> Weight(rows[e])[b]])]

TotalOf(s, hidden) == SumFunction([l \in States |-> s[[hidden |-> hidden, label |-> l]]])

(* CHECK constraints: no count below zero, no more questioned than there are. *)
Admissible(s) ==
  /\ \A b \in Buckets : s[b] >= 0
  /\ \A h \in BOOLEAN : s[[hidden |-> h, label |-> "questioned"]] <= TotalOf(s, h)

Counted(f, delta) ==
  /\ fileStats' = [fileStats EXCEPT ![f] = Plus(@, delta)]
  /\ projectStats' = Plus(projectStats, delta)
  /\ Admissible(fileStats'[f]) /\ Admissible(projectStats')

(* The trigger of entries counts only what is structurally visible. *)
CountTrigger(e, new) ==
  LET f == FileOf[e] IN
  IF f \in active
  THEN Counted(f, Minus(Weight(new), Weight(row[e]))) /\ UNCHANGED strayed
  ELSE /\ strayed' = IF Weight(new) = Weight(row[e]) THEN strayed ELSE strayed \union {f}
       /\ UNCHANGED <<fileStats, projectStats>>

-----------------------------------------------------------------------------
(* Tasks.  A baseline keeps the entries that were to be translated when a  *)
(* file was added; progress is measured on those that are still visible.   *)

Visible(e, rows, files) ==
  /\ rows[e] # Absent /\ ~rows[e].tomb /\ ~rows[e].hidden
  /\ FileOf[e] \in files

InBaseline(e) == Visible(e, row, active) /\ row[e].state = "untranslated"

Progress(e, rows, files) ==
  IF ~Visible(e, rows, files) THEN <<0, 0>>
  ELSE <<1, IF rows[e].state = "untranslated" THEN 0 ELSE 1>>

Recomputed(t, rows, files) ==
  LET live == {e \in t.baseline : Visible(e, rows, files)}
  IN [t EXCEPT !.progress =
        <<Cardinality(live), Cardinality({e \in live : rows[e].state # "untranslated"})>>]

ProgressDelta(e, rows) ==
  LET before == Progress(e, row, active)
      after == Progress(e, rows, active)
  IN <<after[1] - before[1], after[2] - before[2]>>

(* apply_entry_transition_tx: the tasks that have the entry in a baseline. *)
Moved(e, rows) ==
  LET d == ProgressDelta(e, rows)
  IN [t \in Tasks |->
        IF e \in task[t].baseline
        THEN [task[t] EXCEPT !.progress = <<@[1] + d[1], @[2] + d[2]>>]
        ELSE task[t]]

(* Tasks that are recomputed because of their files. *)
RecomputedFor(f, rows, files) ==
  [t \in Tasks |-> IF f \in task[t].files THEN Recomputed(task[t], rows, files) ELSE task[t]]

RecomputedAll(rows, files) ==
  [t \in Tasks |-> IF task[t] = NoTask THEN NoTask ELSE Recomputed(task[t], rows, files)]

-----------------------------------------------------------------------------
(* Reading, saving, flags *)

Role(u) == Effective(IF u \in member THEN MemberRole[u] ELSE NoRole, PlatformRole[u])
May(u, node) == node \in Grants(Role(u))

Recorded(e, new, kind) ==
  [version |-> new.version, kind |-> kind, text |-> new.text, state |-> new.state,
   source |-> new.source, locked |-> new.locked, hidden |-> new.hidden]

(* get: neither the entry nor its file is deleted. *)
OpenEntry(u, e) ==
  /\ Exists(e) /\ ~row[e].tomb /\ FileOf[e] \in active
  /\ draft' = [draft EXCEPT ![u] = [entry |-> e, seen |-> row[e]]]
  /\ UNCHANGED <<row, active, fileStats, projectStats, history, member, ledger,
                 projectCp, userCp, task, strayed>>

ContributionKind(state) == IF state \in {"checked", "reviewed"} THEN "review" ELSE "edit"
WeightTenths(kind) == IF kind = "edit" THEN 10 ELSE 3

(* The distance of two different translations is one edit. *)
Distance(a, b) == IF a = b THEN 0 ELSE 1

Score(old, text, state) == Distance(old, text) * WeightTenths(ContributionKind(state))

(* Slip: who is no longer a member earns nothing anywhere. *)
AwardMembers(u, e, version, cp) ==
  IF cp = 0 THEN UNCHANGED <<ledger, projectCp, userCp>>
  ELSE /\ ledger' = ledger \union
            {[user |-> u, entry |-> e, version |-> version, cp |-> cp]}
       /\ IF u \in member
          THEN projectCp' = [projectCp EXCEPT ![u] = @ + cp]
               /\ userCp' = [userCp EXCEPT ![u] = @ + cp]
          ELSE UNCHANGED <<projectCp, userCp>>

Award(u, e, version, cp) ==
  IF cp = 0 THEN UNCHANGED <<ledger, projectCp, userCp>>
  ELSE /\ \A ev \in ledger : ev.entry # e \/ ev.version # version
       /\ ledger' = ledger \union
            {[user |-> u, entry |-> e, version |-> version, cp |-> cp]}
       /\ projectCp' = IF u \in member THEN [projectCp EXCEPT ![u] = @ + cp] ELSE projectCp
       /\ userCp' = [userCp EXCEPT ![u] = @ + cp]

Written(e, new, kind) ==
  LET rows == [row EXCEPT ![e] = new] IN
  /\ Within(rows)
  /\ row' = rows
  /\ history' = [history EXCEPT ![e] = @ \union {Recorded(e, new, kind)}]
  /\ CountTrigger(e, new)
  /\ task' = Moved(e, rows)

SaveAllowed(u, e, state) ==
  /\ May(u, "edit")
  /\ row[e].locked => CanEditLocked(Role(u))
  /\ state # row[e].state => May(u, NodeForState(state))

(* A text is a number, 0 the empty one; the tag is set, removed or kept. *)
Save(u, text, state, tag) ==
  LET e == draft[u].entry
      old == row[e]
      new == [old EXCEPT !.text = text, !.state = state, !.version = @ + 1,
                         !.questioned = IF tag = "keep" THEN @ ELSE tag = "yes"]
  IN /\ draft[u] # Closed
     /\ SaveAllowed(u, e, state)
     /\ draft[u].seen.version = old.version
     /\ Written(e, new, ContributionKind(state))
     /\ Award(u, e, new.version, Score(old.text, text, state))
     /\ draft' = [draft EXCEPT ![u] = [entry |-> e, seen |-> new]]
     /\ UNCHANGED <<active, member>>

(* A flag that is given asks for its node; no version is asked for, and    *)
(* deleted entries are not refused.                                        *)
SetFlags(u, e, flags) ==
  LET Given(flag) == flag \in DOMAIN flags
      new == [row[e] EXCEPT !.locked = IF Given("lock") THEN flags["lock"] ELSE @,
                            !.hidden = IF Given("hide") THEN flags["hide"] ELSE @,
                            !.version = @ + 1]
  IN /\ Exists(e)
     /\ \A flag \in DOMAIN flags : May(u, flag)
     /\ Written(e, new, "flags")
     /\ UNCHANGED <<active, draft, member, ledger, projectCp, userCp>>

-----------------------------------------------------------------------------
(* The replacement of a file: uploaded maps the keys that are in the       *)
(* upload to their source text.                                            *)

SourceChanged(e, uploaded) ==
  e \in DOMAIN uploaded /\ Exists(e) /\ uploaded[e] # row[e].source

(* Only a new row takes the translation and state of the upload. *)
PlanInsert(e, uploaded) ==
  [source |-> uploaded[e], text |-> Seed[e].text, state |-> Seed[e].state, locked |-> FALSE,
   hidden |-> FALSE, questioned |-> FALSE, tomb |-> FALSE, version |-> 1]

PlanMissing(e) ==
  IF ~Exists(e) \/ row[e].tomb THEN row[e]
  ELSE [row[e] EXCEPT !.tomb = TRUE, !.version = @ + 1]

(* Slip: only a row that comes back gets a new version. *)
PlanExistingSilent(e, uploaded) ==
  IF SourceChanged(e, uploaded)
  THEN [row[e] EXCEPT !.source = uploaded[e], !.state = "untranslated", !.tomb = FALSE,
                      !.version = IF row[e].tomb THEN @ + 1 ELSE @]
  ELSE IF row[e].tomb THEN [row[e] EXCEPT !.tomb = FALSE, !.version = @ + 1]
  ELSE row[e]

(* A row that comes back, or whose source changed; else nothing happens. *)
PlanExisting(e, uploaded) ==
  IF SourceChanged(e, uploaded)
  THEN [row[e] EXCEPT !.source = uploaded[e], !.state = "untranslated", !.tomb = FALSE,
                      !.version = @ + 1]
  ELSE IF row[e].tomb THEN [row[e] EXCEPT !.tomb = FALSE, !.version = @ + 1]
  ELSE row[e]

Plan(e, uploaded) ==
  CASE e \notin DOMAIN uploaded -> PlanMissing(e)
    [] e \in DOMAIN uploaded /\ ~Exists(e) -> PlanInsert(e, uploaded)
    [] OTHER -> PlanExisting(e, uploaded)

(* The version before the source changed, unless a save left it there. *)
Baselines(e, uploaded) ==
  IF SourceChanged(e, uploaded) /\ \A h \in history[e] : h.version # row[e].version
  THEN {Recorded(e, row[e], "baseline")} ELSE {}

(* Slip: a row that comes back with another source leaves no version. *)
SourceVersionsLive(e, uploaded, new) ==
  IF SourceChanged(e, uploaded) /\ ~row[e].tomb
  THEN {Recorded(e, new, "source_update")} ELSE {}

SourceVersions(e, uploaded, new) ==
  IF SourceChanged(e, uploaded) THEN {Recorded(e, new, "source_update")} ELSE {}

ReplacedRows(f, uploaded) ==
  [e \in Entries |-> IF FileOf[e] = f THEN Plan(e, uploaded) ELSE row[e]]

ReplaceFile(f, uploaded) ==
  LET rows == ReplacedRows(f, uploaded)
      changed == {e \in Entries : rows[e] # row[e]}
      delta == Minus(Sum(rows, changed), Sum(row, changed))
  IN /\ f \in active
     /\ changed # {}
     /\ Within(rows)
     /\ row' = rows
     /\ Counted(f, delta)
     /\ history' = [e \in Entries |-> history[e] \union Baselines(e, uploaded)
                                                 \union SourceVersions(e, uploaded, rows[e])]
     /\ task' = RecomputedFor(f, rows, active)
     /\ UNCHANGED <<active, draft, member, ledger, projectCp, userCp, strayed>>

(* Deletion and restoration as the file history applies them: the project  *)
(* loses or regains the counts the file was left with.                     *)
DeleteFile(f) ==
  /\ f \in active
  /\ active' = active \ {f}
  /\ projectStats' = Minus(projectStats, fileStats[f])
  /\ Admissible(projectStats')
  /\ task' = RecomputedAll(row, active')
  /\ UNCHANGED <<row, fileStats, history, draft, member, ledger, projectCp, userCp, strayed>>

RestoreFile(f) ==
  /\ f \notin active
  /\ active' = active \union {f}
  /\ projectStats' = Plus(projectStats, fileStats[f])
  /\ Admissible(projectStats')
  /\ task' = RecomputedAll(row, active')
  /\ UNCHANGED <<row, fileStats, history, draft, member, ledger, projectCp, userCp, strayed>>

-----------------------------------------------------------------------------
(* Tasks and memberships *)

BaselineOf(files) == {e \in Entries : FileOf[e] \in files /\ InBaseline(e)}

(* plan_file_set and its execution: what is kept keeps its baseline. *)
WithFiles(t, files) ==
  [files |-> files,
   baseline |-> {e \in t.baseline : FileOf[e] \in files} \union BaselineOf(files \ t.files),
   progress |-> <<0, 0>>]

SetTaskFiles(t, files) ==
  /\ (files \ task[t].files) \subseteq active
  /\ task' = [task EXCEPT ![t] = Recomputed(WithFiles(task[t], files), row, active)]
  /\ UNCHANGED <<row, active, fileStats, projectStats, history, draft, member, ledger,
                 projectCp, userCp, strayed>>

CreateTask(u, t, files) == May(u, "task") /\ task[t] = NoTask /\ SetTaskFiles(t, files)

UpdateTask(u, t, files) ==
  /\ May(u, "task") /\ task[t] # NoTask /\ files # task[t].files
  /\ SetTaskFiles(t, files)

DeleteTask(u, t) ==
  /\ May(u, "task") /\ task[t] # NoTask
  /\ task' = [task EXCEPT ![t] = NoTask]
  /\ UNCHANGED <<row, active, fileStats, projectStats, history, draft, member, ledger,
                 projectCp, userCp, strayed>>

EarnedBy(u) == SumFunction([ev \in {ev \in ledger : ev.user = u} |-> ev.cp])

Leave(u) ==
  /\ u \in member /\ MemberRole[u] # "owner"
  /\ member' = member \ {u}
  /\ projectCp' = [projectCp EXCEPT ![u] = 0]
  /\ UNCHANGED <<row, active, fileStats, projectStats, history, draft, ledger, userCp,
                 task, strayed>>

(* The trigger of memberships restores what the ledger says. *)
Rejoin(u) ==
  /\ u \notin member /\ MemberRole[u] # NoRole
  /\ member' = member \union {u}
  /\ projectCp' = [projectCp EXCEPT ![u] = EarnedBy(u)]
  /\ UNCHANGED <<row, active, fileStats, projectStats, history, draft, ledger, userCp,
                 task, strayed>>

-----------------------------------------------------------------------------

Init ==
  /\ row = [e \in Entries |-> Absent]
  /\ active = Files
  /\ fileStats = [f \in Files |-> Zero] /\ projectStats = Zero
  /\ history = [e \in Entries |-> {}]
  /\ draft = [u \in Users |-> Closed]
  /\ member = {u \in Users : MemberRole[u] = "owner"}
  /\ ledger = {} /\ projectCp = [u \in Users |-> 0] /\ userCp = [u \in Users |-> 0]
  /\ task = [t \in Tasks |-> NoTask]
  /\ strayed = {}

Uploads(f) ==
  LET Of(S) == {up \in [S -> UNION {Sources[e] : e \in S}] : \A e \in S : up[e] \in Sources[e]}
  IN UNION {Of(S) : S \in SUBSET {e \in Entries : FileOf[e] = f}}

Next ==
  \/ \E u \in Users : \E e \in Edited[u] : OpenEntry(u, e)
  \/ \E u \in Users : \E r \in SaveRequests[u] : Save(u, r.text, r.state, r.tag)
  \/ \E u \in Users, e \in Entries : \E flags \in FlagRequests : SetFlags(u, e, flags)
  \/ \E f \in Files : \E uploaded \in Uploads(f) : ReplaceFile(f, uploaded)
  \/ \E f \in Files : DeleteFile(f) \/ RestoreFile(f)
  \/ \E u \in Users, t \in Tasks, files \in TaskFiles :
       CreateTask(u, t, files) \/ UpdateTask(u, t, files)
  \/ \E u \in Users, t \in Tasks : DeleteTask(u, t)
  \/ \E u \in Users : Leave(u) \/ Rejoin(u)

Spec == Init /\ [][Next]_vars

-----------------------------------------------------------------------------
(* The list of the editor and the number of its pages.  The list reads the *)
(* entries, the number only the materialised counts.                       *)

InScope(f, scope) ==
  CASE scope.kind = "project" -> TRUE
    [] scope.kind = "file" -> f = scope.file
    [] scope.kind = "task" -> f \in task[scope.task].files

(* list, with include_hidden as the route passes it on *)
ListEntries(q) ==
  {e \in Entries :
     /\ Exists(e) /\ ~row[e].tomb /\ FileOf[e] \in active
     /\ row[e].hidden => q.hidden
     /\ InScope(FileOf[e], q.scope)
     /\ q.states # {} => row[e].state \in q.states
     /\ q.questioned # "any" => row[e].questioned = (q.questioned = "yes")}

(* editor_stats_expression: the columns a filter adds up. *)
StatsExpression(s, q) ==
  LET Side(hidden) ==
        LET Column(label) == s[[hidden |-> hidden, label |-> label]] IN
        CASE q.states # {} -> SumFunction([l \in q.states |-> Column(l)])
          [] q.states = {} /\ q.questioned = "any" -> TotalOf(s, hidden)
          [] q.states = {} /\ q.questioned = "yes" -> Column("questioned")
          [] OTHER -> TotalOf(s, hidden) - Column("questioned")
  IN Side(FALSE) + (IF q.hidden THEN Side(TRUE) ELSE 0)

(* Slip: the number of a task counts its deleted files as well. *)
EntryTotalOfAll(q) ==
  IF q.scope.kind = "project" THEN StatsExpression(projectStats, q)
  ELSE SumFunction([f \in {f \in Files : InScope(f, q.scope)} |->
                      StatsExpression(fileStats[f], q)])

(* editor_entry_total *)
EntryTotal(q) ==
  IF q.scope.kind = "project" THEN StatsExpression(projectStats, q)
  ELSE SumFunction([f \in {f \in active : InScope(f, q.scope)} |->
                      StatsExpression(fileStats[f], q)])

Scopes ==
  {[kind |-> "project"]} \union {[kind |-> "file", file |-> f] : f \in Files}
  \union {[kind |-> "task", task |-> t] : t \in Tasks}

(* bound: no state, one, or all of them *)
StateFilters == {{}, States} \union {{state} : state \in States}

(* A number is refused for states together with the questioned tag. *)
CountQueries ==
  {q \in [scope: Scopes, states: StateFilters, questioned: {"any", "yes", "no"},
          hidden: BOOLEAN] : q.states = {} \/ q.questioned = "any"}

-----------------------------------------------------------------------------
(* Properties *)

(* What is counted by differences is what counting again would give: the   *)
(* number of entries shown beside the list is the number of rows the list  *)
(* returns, whatever the filter, and the progress of a task is that of its *)
(* baseline, through saves, flags, uploads, deletion and restoration.      *)
(* Files whose entries were written to while they were deleted are         *)
(* excepted from the first, since the code loses count there.              *)
CountsExact ==
  /\ \A q \in CountQueries :
       (\A f \in strayed : ~InScope(f, q.scope)) =>
         EntryTotal(q) = Cardinality(ListEntries(q))
  /\ \A t \in Tasks : task[t] # NoTask => Recomputed(task[t], row, active) = task[t]

(* An editor whose version is still the current one has seen the entry as  *)
(* it is: the save that its version lets through overwrites nothing unseen. *)
VersionNamesContent ==
  \A u \in Users : draft[u] # Closed =>
    LET e == draft[u].entry
    IN draft[u].seen.version = row[e].version => draft[u].seen = row[e]

(* The totals of a user and of a membership are the sums of the ledger,    *)
(* also for what was earned while the user was not a member.               *)
LedgerAgrees ==
  \A u \in Users :
    /\ userCp[u] = EarnedBy(u)
    /\ u \in member => projectCp[u] = EarnedBy(u)

(* The history lays each change of an entry at the door of who made it:    *)
(* one row per version, the source changes only at an upload, the text     *)
(* only at an edit or review, the flags only when flags are set.           *)
Attributed ==
  \A e \in Entries : \A new \in history[e] :
    /\ \A other \in history[e] : other.version = new.version => other = new
    /\ \A old \in history[e] :
         (/\ old.version < new.version
          /\ \A h \in history[e] : h.version \notin (old.version + 1)..(new.version - 1)) =>
            /\ old.source # new.source => new.kind = "source_update"
            /\ old.text # new.text => new.kind \in {"edit", "review"}
            /\ old.state # new.state => new.kind \in {"edit", "review", "source_update"}
            /\ (old.locked # new.locked \/ old.hidden # new.hidden) => new.kind = "flags"

=============================================================================
