------------------------------- MODULE Terms -------------------------------
(***************************************************************************)
(* The glossary of a project and the parts of speech of the platform.      *)
(* Terms are written one by one, imported from a document that was         *)
(* previewed before, restored from their history, and archived or          *)
(* activated when the project changes its primary source language.         *)
(*                                                                         *)
(* A handler decides everything again inside its transaction, under the    *)
(* lock of the project, so it is one action.  An import is three: the      *)
(* preview, the token taken out of Redis, and the transaction; the parts   *)
(* of speech may change in between.                                        *)
(***************************************************************************)
EXTENDS Permissions, Naturals, Sequences

CONSTANTS Users, Tokens, Languages,
          RoleOf, PlatformOf,   \* of each user
          FirstPrimary, FirstPresets,
          TermIntents,          \* what users may ask for, in each of several mixes
          MaxTerms, MaxVersions, MaxPresets    \* bounds of the model

VARIABLES project,   \* primary: its source language; ready: needs no resolution
          book,      \* the terms in the order of their ids, with their versions
          presets,   \* the parts of speech in the order of their ids
          preview,   \* what a token in Redis stands for
          importing, \* the preview each user has taken and not yet committed
          applied,   \* how often the preview of a token was committed
          intent

termVars == <<project, book, presets, preview, importing, applied, intent>>

NoPos == 0
NoName == "none"
NoPreset == [zh |-> NoName, en |-> NoName]
NoPreview == [kind |-> "none", user |-> "nobody", rows |-> <<>>, token |-> 0]

TermRow == [lang: Languages, text: STRING, mode: STRING, pos: Nat, translation: STRING,
            archived: BOOLEAN, deleted: BOOLEAN, version: Nat]
Preset == [zh: STRING, en: STRING]

(* A row of a document names its part of speech. *)
DocumentRow == [lang: Languages, text: STRING, mode: STRING, pos: STRING, translation: STRING,
                archived: BOOLEAN]

(* A preset has one name at least. *)
Request(r) ==
  /\ r.op \in {"create", "update"} => r.row \in TermRow
  /\ r.op = "primary" => r.lang \in Languages
  /\ r.op \in {"newpos", "setpos"} => r.preset \in Preset \ {NoPreset}
  /\ r.op \in {"preview", "confirm"} =>
       /\ r.by \in Users /\ r.kind \in {"term", "pos"}
       /\ r.rows \in Seq(IF r.kind = "term" THEN DocumentRow ELSE Preset)

ASSUME TermsAssumption ==
  /\ FirstPrimary \in Languages /\ FirstPresets \in Seq(Preset)
  /\ NoPreview.token \notin Tokens
  /\ \A mix \in TermIntents : \A r \in mix : Request(r)

-----------------------------------------------------------------------------
(* Rows and their history. *)

Identity(row) == <<row.lang, row.text, row.mode, row.pos>>
Holders(b, row) == {i \in DOMAIN b : Identity(b[i].now) = Identity(row)}

Snapshot(kind, row) == [kind |-> kind, row |-> row]

Inserted(b, row, kind) ==
  LET first == [row EXCEPT !.version = 1] IN
  Append(b, [now |-> first, versions |-> <<Snapshot(kind, first)>>])

Written(term, row, kind) ==
  LET next == [row EXCEPT !.version = term.now.version + 1] IN
  [now |-> next, versions |-> Append(term.versions, Snapshot(kind, next))]

(* A term of the same identity is written over, deleted or not. *)
Upserted(b, row, kind) ==
  IF Holders(b, row) = {} THEN Inserted(b, row, kind)
  ELSE LET i == CHOOSE i \in Holders(b, row) : TRUE IN
       [b EXCEPT ![i] = Written(@, row, kind)]

TermWritePlan(lang, archived) == project.ready /\ (archived \/ lang = project.primary)

ExistingPos(p) == p = NoPos \/ (p \in DOMAIN presets /\ presets[p] # NoPreset)

WithinBounds(b) ==
  Len(b) <= MaxTerms /\ \A i \in DOMAIN b : b[i].now.version <= MaxVersions

TermMutation(u) ==
  /\ "term" \in Grants(Effective(RoleOf[u], PlatformOf[u]))
  /\ project.ready /\ ~project.scheduled

CreateTerm(r) ==
  /\ r.op = "create" /\ TermMutation(r.by)
  /\ TermWritePlan(r.row.lang, r.row.archived) /\ ExistingPos(r.row.pos)
  /\ \A i \in Holders(book, r.row) : book[i].now.deleted
  /\ book' = Upserted(book, r.row,
                      IF Holders(book, r.row) = {} THEN "create" ELSE "restore_create")
  /\ WithinBounds(book')
  /\ UNCHANGED <<project, presets, preview, importing, applied, intent>>

UpdateTerm(r) ==
  /\ r.op = "update" /\ TermMutation(r.by)
  /\ r.id \in DOMAIN book /\ ~book[r.id].now.deleted
  /\ TermWritePlan(r.row.lang, r.row.archived) /\ ExistingPos(r.row.pos)
  /\ Holders(book, r.row) \subseteq {r.id}
  /\ book' = [book EXCEPT ![r.id] = Written(@, r.row, "update")]
  /\ WithinBounds(book')
  /\ UNCHANGED <<project, presets, preview, importing, applied, intent>>

DeleteTerm(r) ==
  /\ r.op = "delete" /\ TermMutation(r.by)
  /\ r.id \in DOMAIN book /\ ~book[r.id].now.deleted
  /\ book' = [book EXCEPT ![r.id] = Written(@, [@.now EXCEPT !.deleted = TRUE], "delete")]
  /\ WithinBounds(book')
  /\ UNCHANGED <<project, presets, preview, importing, applied, intent>>

(* Slip: a snapshot was valid once, so it is not planned again. *)
RestoreVersionUnplanned(r) ==
  /\ r.op = "restore" /\ TermMutation(r.by)
  /\ r.id \in DOMAIN book /\ r.version \in DOMAIN book[r.id].versions
  /\ LET old == book[r.id].versions[r.version].row IN
     /\ ExistingPos(old.pos)
     /\ Holders(book, old) \subseteq {r.id}
     /\ book' = [book EXCEPT ![r.id] = Written(@, [old EXCEPT !.deleted = FALSE], "restore")]
  /\ WithinBounds(book')
  /\ UNCHANGED <<project, presets, preview, importing, applied, intent>>

RestoreVersion(r) ==
  /\ r.op = "restore" /\ TermMutation(r.by)
  /\ r.id \in DOMAIN book /\ r.version \in DOMAIN book[r.id].versions
  /\ LET old == book[r.id].versions[r.version].row IN
     /\ TermWritePlan(old.lang, old.archived) /\ ExistingPos(old.pos)
     /\ Holders(book, old) \subseteq {r.id}
     /\ book' = [book EXCEPT ![r.id] = Written(@, [old EXCEPT !.deleted = FALSE], "restore")]
  /\ WithinBounds(book')
  /\ UNCHANGED <<project, presets, preview, importing, applied, intent>>

-----------------------------------------------------------------------------
(* The project. *)

Archived(term) == Written(term, [term.now EXCEPT !.archived = TRUE], "primary_source_archive")
Activated(term) == Written(term, [term.now EXCEPT !.archived = FALSE], "primary_source_activate")

(* Slip: the rows are switched, their history is not told. *)
PrimarySourcePlanUnversioned(lang) ==
  [i \in DOMAIN book |-> [book[i] EXCEPT !.now.archived =
     IF book[i].now.deleted THEN @ ELSE book[i].now.lang # lang]]

(* Deleted terms are left as they are. *)
PrimarySourcePlan(lang) ==
  [i \in DOMAIN book |->
     LET term == book[i] IN
     IF term.now.deleted \/ term.now.archived = (term.now.lang # lang) THEN term
     ELSE IF term.now.lang = lang THEN Activated(term) ELSE Archived(term)]

(* The cooldown and the jobs that may refuse it are in PrimarySource. *)
ChangePrimarySource(r) ==
  /\ r.op = "primary" /\ RoleOf[r.by] = "owner"
  /\ project.ready /\ ~project.scheduled /\ project.primary # r.lang
  /\ book' = PrimarySourcePlan(r.lang) /\ WithinBounds(book')
  /\ project' = [project EXCEPT !.primary = r.lang]
  /\ UNCHANGED <<presets, preview, importing, applied, intent>>

(* Deletion is scheduled or cancelled. *)
ToggleScheduled(r) ==
  /\ r.op = "schedule" /\ RoleOf[r.by] = "owner"
  /\ project' = [project EXCEPT !.scheduled = ~@]
  /\ UNCHANGED <<book, presets, preview, importing, applied, intent>>

-----------------------------------------------------------------------------
(* Parts of speech. *)

SameName(a, b) == a # NoName /\ a = b

(* The unique indexes on either name. *)
NamesDistinct(p) ==
  \A i, j \in DOMAIN p :
    i # j => ~SameName(p[i].zh, p[j].zh) /\ ~SameName(p[i].en, p[j].en)

MayManagePos(u) == "pos" \in PlatformGrants(PlatformOf[u])

CreatePos(r) ==
  /\ r.op = "newpos" /\ MayManagePos(r.by) /\ Len(presets) < MaxPresets
  /\ presets' = Append(presets, r.preset) /\ NamesDistinct(presets')
  /\ UNCHANGED <<project, book, preview, importing, applied, intent>>

UpdatePos(r) ==
  /\ r.op = "setpos" /\ MayManagePos(r.by)
  /\ r.id \in DOMAIN presets /\ presets[r.id] # NoPreset
  /\ presets' = [presets EXCEPT ![r.id] = r.preset] /\ NamesDistinct(presets')
  /\ UNCHANGED <<project, book, preview, importing, applied, intent>>

Detached(row, p) == IF row.pos = p THEN [row EXCEPT !.pos = NoPos] ELSE row

(* Terms and their versions reference a preset ON DELETE SET NULL, and two *)
(* terms that would become the same refuse it.                             *)
DeletePos(r) ==
  /\ r.op = "delpos" /\ MayManagePos(r.by)
  /\ r.id \in DOMAIN presets /\ presets[r.id] # NoPreset
  /\ presets' = [presets EXCEPT ![r.id] = NoPreset]
  /\ book' = [i \in DOMAIN book |->
       [now |-> Detached(book[i].now, r.id),
        versions |-> [v \in DOMAIN book[i].versions |->
          [book[i].versions[v] EXCEPT !.row = Detached(@, r.id)]]]]
  /\ \A i \in DOMAIN book' : Holders(book', book'[i].now) = {i}
  /\ UNCHANGED <<project, preview, importing, applied, intent>>

-----------------------------------------------------------------------------
(* Imports.  A document is a sequence of rows; the digest binds a token to *)
(* its document, so it stands for the document.                            *)

Named(name) ==
  {p \in DOMAIN presets : SameName(name, presets[p].zh) \/ SameName(name, presets[p].en)}

(* An unknown name is a warning, an ambiguous one refuses the document. *)
ResolvePosName(name) == IF Named(name) = {} THEN NoPos ELSE CHOOSE p \in Named(name) : TRUE

Resolved(rows) ==
  [n \in DOMAIN rows |->
     [lang |-> rows[n].lang, text |-> rows[n].text, mode |-> rows[n].mode,
      pos |-> ResolvePosName(rows[n].pos), translation |-> rows[n].translation,
      archived |-> rows[n].archived, deleted |-> FALSE, version |-> 1]]

Unambiguous(rows) == \A n \in DOMAIN rows : \A p, q \in Named(rows[n].pos) : p = q

(* Slip: rows were told apart when they were previewed. *)
ResolveTermRowsOnce(rows) == Unambiguous(rows)

ResolveTermRows(rows) ==
  /\ Unambiguous(rows)
  /\ \A n, k \in DOMAIN rows : n # k => Identity(Resolved(rows)[n]) # Identity(Resolved(rows)[k])

(* The preset each row of a document of parts of speech stands for. *)
Claims(row) ==
  {p \in DOMAIN presets : SameName(row.zh, presets[p].zh) \/ SameName(row.en, presets[p].en)}

ResolvePosRows(rows) ==
  /\ \A n \in DOMAIN rows : \A p, q \in Claims(rows[n]) : p = q
  /\ \A n, k \in DOMAIN rows : n # k => Claims(rows[n]) \intersect Claims(rows[k]) = {}

PlanHolds(kind, rows) ==
  IF kind = "pos" THEN ResolvePosRows(rows)
  ELSE /\ \A n \in DOMAIN rows : TermWritePlan(rows[n].lang, rows[n].archived)
       /\ ResolveTermRows(rows)

MayImport(u, kind) == IF kind = "pos" THEN MayManagePos(u) ELSE TermMutation(u)

PreviewImport(r) ==
  /\ r.op = "preview" /\ MayImport(r.by, r.kind) /\ PlanHolds(r.kind, r.rows)
  /\ \E t \in Tokens :
       /\ preview[t] = NoPreview /\ applied[t] = 0
       /\ \A v \in Users : importing[v].token # t
       /\ preview' = [preview EXCEPT ![t] =
            [kind |-> r.kind, user |-> r.by, rows |-> r.rows, token |-> t]]
  /\ UNCHANGED <<project, book, presets, importing, applied, intent>>

ExpirePreview ==
  /\ \E t \in Tokens : preview[t] # NoPreview /\ preview' = [preview EXCEPT ![t] = NoPreview]
  /\ UNCHANGED <<project, book, presets, importing, applied, intent>>

(* One script: the token is checked against its user, kind and digest and  *)
(* taken away.                                                             *)
TakeBoundPreview(r) ==
  /\ r.op = "confirm" /\ importing[r.by] = NoPreview
  /\ \E t \in Tokens :
       /\ preview[t].user = r.by /\ preview[t].kind = r.kind /\ preview[t].rows = r.rows
       /\ importing' = [importing EXCEPT ![r.by] = preview[t]]
       /\ preview' = [preview EXCEPT ![t] = NoPreview]
  /\ UNCHANGED <<project, book, presets, applied, intent>>

(* Each row is created or updated in turn; the indexes hold at every step. *)
PosStep(p, row) ==
  IF Claims(row) = {} THEN Append(p, [zh |-> row.zh, en |-> row.en])
  ELSE [p EXCEPT ![CHOOSE i \in Claims(row) : TRUE] = [zh |-> row.zh, en |-> row.en]]

PosSteps(rows) ==
  LET steps[n \in 0..Len(rows)] ==
        IF n = 0 THEN presets ELSE PosStep(steps[n - 1], rows[n])
  IN steps

ConfirmPosImport(u) ==
  LET rows == importing[u].rows
      steps == PosSteps(rows) IN
  /\ importing[u].kind = "pos" /\ MayManagePos(u) /\ ResolvePosRows(rows)
  /\ \A n \in DOMAIN steps : NamesDistinct(steps[n])
  /\ presets' = steps[Len(rows)] /\ Len(presets') <= MaxPresets
  /\ applied' = [applied EXCEPT ![importing[u].token] = @ + 1]
  /\ importing' = [importing EXCEPT ![u] = NoPreview]
  /\ UNCHANGED <<project, book, preview, intent>>

TermSteps(rows) ==
  LET steps[n \in 0..Len(rows)] ==
        IF n = 0 THEN book ELSE Upserted(steps[n - 1], Resolved(rows)[n], "import")
  IN steps

ConfirmTermImport(u) ==
  LET rows == importing[u].rows IN
  /\ importing[u].kind = "term" /\ TermMutation(u) /\ PlanHolds("term", rows)
  /\ book' = TermSteps(rows)[Len(rows)] /\ WithinBounds(book')
  /\ applied' = [applied EXCEPT ![importing[u].token] = @ + 1]
  /\ importing' = [importing EXCEPT ![u] = NoPreview]
  /\ UNCHANGED <<project, presets, preview, intent>>

(* A refused or failed confirmation has lost its token. *)
LoseImport(u) ==
  /\ importing[u] # NoPreview
  /\ importing' = [importing EXCEPT ![u] = NoPreview]
  /\ UNCHANGED <<project, book, presets, preview, applied, intent>>

-----------------------------------------------------------------------------

TermsInit ==
  /\ project = [primary |-> FirstPrimary, ready |-> TRUE, scheduled |-> FALSE]
  /\ book = <<>> /\ presets = FirstPresets
  /\ preview = [t \in Tokens |-> NoPreview]
  /\ importing = [u \in Users |-> NoPreview]
  /\ applied = [t \in Tokens |-> 0]
  /\ intent \in TermIntents

TermsNext ==
  \/ \E r \in intent :
       \/ CreateTerm(r) \/ UpdateTerm(r) \/ DeleteTerm(r) \/ RestoreVersion(r)
       \/ ChangePrimarySource(r) \/ ToggleScheduled(r)
       \/ CreatePos(r) \/ UpdatePos(r) \/ DeletePos(r)
       \/ PreviewImport(r) \/ TakeBoundPreview(r)
  \/ \E u \in Users : ConfirmPosImport(u) \/ ConfirmTermImport(u) \/ LoseImport(u)
  \/ ExpirePreview

(* The live terms of a language that occur in a text, a set of words. *)
MatchCandidates(lang, text) ==
  {i \in DOMAIN book :
     /\ book[i].now.lang = lang /\ book[i].now.text \in text
     /\ ~book[i].now.archived /\ ~book[i].now.deleted}

-----------------------------------------------------------------------------
(* Properties. *)

(* Whatever is deleted, restored, imported and switched, a term that is    *)
(* live and not archived is in the primary source language, no two terms   *)
(* are the same, and none names a part of speech that is gone (terms.rs    *)
(* plan_term_write, the unique constraint, pos.rs delete_pos).             *)
GlossarySound ==
  \A i \in DOMAIN book :
    LET row == book[i].now IN
    /\ ~row.deleted /\ ~row.archived => row.lang = project.primary
    /\ Holders(book, row) = {i}
    /\ ExistingPos(row.pos)

(* The history of a term has no gap and its last version is the row, so    *)
(* every version can be restored (append_version_tx in each operation).    *)
HistoryTells ==
  \A i \in DOMAIN book :
    LET told == book[i].versions IN
    /\ \A v \in DOMAIN told : told[v].row.version = v
    /\ told[Len(told)].row = book[i].now

Shows(b, row) ==
  \E i \in DOMAIN b :
    LET now == b[i].now IN
    /\ now.lang = row.lang /\ now.text = row.text /\ now.mode = row.mode
    /\ now.translation = row.translation /\ now.archived = row.archived /\ ~now.deleted

(* A preview is committed at most once, by the user who saw it, and every  *)
(* row he saw is then in the glossary, though parts of speech were renamed *)
(* or deleted since (term_import.rs take_bound_preview, resolve_term_rows).*)
ImportExact ==
  [][\A u \in Users : \A t \in Tokens :
       importing[u].token = t /\ applied'[t] # applied[t] =>
         /\ applied'[t] = 1 /\ importing[u].user = u
         /\ importing[u].kind = "term" =>
              \A n \in DOMAIN importing[u].rows : Shows(book', importing[u].rows[n])]_termVars

=============================================================================
