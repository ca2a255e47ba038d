---------------------------- MODULE FileHistory ----------------------------
(***************************************************************************)
(* The file tree of one project, its change sets, and what deletion,       *)
(* restoration, rollback and the end of the retention do to both.          *)
(*                                                                         *)
(* Every operation holds the row lock of the project, so each is one step; *)
(* the hard part is what a long sequence of them adds up to.  An upload    *)
(* takes the time of its change set when its transaction begins, before it *)
(* gets the lock: BeginUpload and ReplaceContents are separate steps.      *)
(***************************************************************************)
EXTENDS Integers, Sequences, FiniteSets, FiniteSetsExt

CONSTANTS
  Folders, Files,  \* row ids, all different
  Root,            \* no folder: the top of the tree
  Names,
  UploadPaths,     \* bound: paths that are uploaded to
  MaxDepth,        \* bound: segments of a path
  MaxSets          \* bound: change sets

ASSUME FileHistoryAssumption ==
  /\ Folders \subseteq Nat /\ Files \subseteq Nat /\ Folders \intersect Files = {}
  /\ IsFiniteSet(Folders) /\ IsFiniteSet(Files)
  /\ Root \notin Folders \union Files
  /\ MaxDepth \in Nat \ {0} /\ MaxSets \in Nat \ {0}
  /\ UploadPaths \subseteq UNION {[1..k -> Names] : k \in 1..MaxDepth}

VARIABLES
  node,     \* Folders and Files -> row: parent, name, path, deletion operation
  text,     \* Files -> the one entry of the file: no row, live, or tombstone
  set,      \* 1..MaxSets -> change set, in the order of created_at
  upload,   \* the upload whose transaction has begun: its path and change set
  elapsed,  \* change sets older than the retention
  stats,    \* project_stats.visible_total
  split     \* some folder was restored below one that stayed deleted

vars == <<node, text, set, upload, elapsed, stats, split>>

Nodes == Folders \union Files
Parents == Folders \union {Root}
Paths == UNION {[1..k -> Names] : k \in 1..MaxDepth}
Sets == 1..MaxSets

(* owner: the delete operation that holds the row; 0 while it is active. *)
Row == [state: {"here"}, parent: Parents, name: Names, path: Paths, owner: 0..MaxSets]
       \union {[state |-> "none"], [state |-> "gone"]}

(* What a change item keeps of a row: structure and whether it was deleted. *)
Snapshot == [parent: Parents, name: Names, path: Paths, deleted: BOOLEAN]

SnapshotOf(row) == [parent |-> row.parent, name |-> row.name, path |-> row.path,
                    deleted |-> row.owner # 0]

Unused == [op |-> "unused"]
Pending == [op |-> "pending"]
Removed == [op |-> "removed"]
ChangeSet ==
  [op: {"move", "delete", "restore", "rollback", "upload"}, target: Nodes,
   before: UNION {[items -> Snapshot] : items \in SUBSET Nodes},
   textBefore: UNION {[items -> {"none", "live", "tomb"}] : items \in SUBSET Files}]
  \union {Unused, Pending, Removed}

Kept == {c \in Sets : set[c] \notin {Unused, Pending, Removed}}
Free == {c \in Sets : set[c] = Unused}
NextSet == Min(Free)

-----------------------------------------------------------------------------
(* The tree *)

Here == {n \in Nodes : node[n].state = "here"}
Active(n) == n \in Here /\ node[n].owner = 0
ActiveOr(n) == n = Root \/ Active(n)

ActivePaths(kind) == {node[n].path : n \in {m \in kind : Active(m)}}

(* The folders above n: the least set with the parent of n and the parents
   of its own members, as the walk up and the recursive query find them. *)
Climbs(n, S) ==
  /\ node[n].parent \in S \union {Root}
  /\ \A d \in S \intersect Here : node[d].parent \in S \union {Root}

Above(n) == {d \in Folders : \A S \in SUBSET Folders : Climbs(n, S) => d \in S}

(* lock_folder_subtree_tx follows parent_id, whatever the paths say. *)
Subtree(d) == {n \in Here : n = d \/ d \in Above(n)}

ChainActive(n) == \A d \in Above(n) : Active(d)

(* folder_chain_active_after: active once the rows of op are restored. *)
ChainActiveAfter(n, op) == \A d \in Above(n) : node[d].owner \in {0, op}

Join(parent, name) == IF parent = Root THEN <<name>> ELSE Append(node[parent].path, name)

Descends(path, root) ==
  Len(path) > Len(root) /\ SubSeq(path, 1, Len(root)) = root

Replaced(path, old, new) == new \o SubSeq(path, Len(old) + 1, Len(path))

Weight(t) == IF t = "live" THEN 1 ELSE 0
Total(files, texts) == Cardinality({f \in files : texts[f] = "live"})

-----------------------------------------------------------------------------
(* Plans of the core, and what applying one does *)

Plan(op, target, items, rows, texts, delta) ==
  [op |-> op, target |-> target, items |-> items, rows |-> rows,
   texts |-> texts, delta |-> delta]

(* Each item keeps the row, or the entry, as it was. *)
Recorded(p) ==
  [op |-> p.op, target |-> p.target,
   before |-> [n \in p.items |-> SnapshotOf(node[n])],
   textBefore |-> [f \in {g \in Files : p.texts[g] # text[g]} |-> text[f]]]

Counted(delta) == stats' = stats + delta

(* verify_stats_nonnegative_tx aborts the whole request. *)
NonNegative(delta) == stats + delta >= 0

Apply(p) ==
  /\ Free # {}
  /\ NonNegative(p.delta)
  /\ node' = p.rows
  /\ text' = p.texts
  /\ set' = [set EXCEPT ![NextSet] = Recorded(p)]
  /\ Counted(p.delta)
  /\ UNCHANGED <<upload, elapsed>>

Marked(nodes, op) ==
  [n \in Nodes |-> IF n \in nodes THEN [node[n] EXCEPT !.owner = op] ELSE node[n]]

-----------------------------------------------------------------------------
(* Create, move, rename *)

Fresh(kind) == {n \in kind : node[n].state = "none"}

NewRow(parent, name, path) ==
  [state |-> "here", parent |-> parent, name |-> name, path |-> path, owner |-> 0]

CreateFolder(parent, name) ==
  LET path == Join(parent, name)
  IN /\ ActiveOr(parent)
     /\ path \in Paths
     /\ path \notin ActivePaths(Folders)
     /\ Fresh(Folders) # {}
     /\ node' = [node EXCEPT ![Min(Fresh(Folders))] = NewRow(parent, name, path)]
     /\ UNCHANGED <<text, set, upload, elapsed, stats, split>>

FileMoveAllowed(f, dest, name) ==
  LET path == Join(dest, name)
  IN /\ <<path, dest, name>> # <<node[f].path, node[f].parent, node[f].name>>
     /\ path \in ActivePaths(Files) => path = node[f].path

FileMove(f, dest, name) ==
  LET rows == [node EXCEPT ![f].parent = dest, ![f].name = name,
                           ![f].path = Join(dest, name)]
  IN Plan("move", f, {f}, rows, text, 0)

MoveFile(f, dest, name) ==
  /\ Active(f)
  /\ ActiveOr(dest)
  /\ Join(dest, name) \in Paths
  /\ FileMoveAllowed(f, dest, name)
  /\ Apply(FileMove(f, dest, name))
  /\ UNCHANGED split

(* Slip: the deleted rows of the tree keep their paths. *)
MovedActiveTree(d, dest, name) ==
  LET old == node[d].path
  IN [n \in Nodes |->
       IF n = d THEN [node[d] EXCEPT !.parent = dest, !.name = name,
                                     !.path = Join(dest, name)]
       ELSE IF n \in Subtree(d) /\ Active(n)
       THEN [node[n] EXCEPT !.path = Replaced(@, old, Join(dest, name))]
       ELSE node[n]]

(* The rows of the whole tree, deleted ones included, get the new prefix. *)
MovedTree(d, dest, name) ==
  LET old == node[d].path
  IN [n \in Nodes |->
       IF n = d THEN [node[d] EXCEPT !.parent = dest, !.name = name,
                                     !.path = Join(dest, name)]
       ELSE IF n \in Subtree(d)
       THEN [node[n] EXCEPT !.path = Replaced(@, old, Join(dest, name))]
       ELSE node[n]]

WellFormed(d) == \A n \in Subtree(d) \ {d} : Descends(node[n].path, node[d].path)

FolderMoveAllowed(d, dest, name) ==
  LET root == node[d].path
      rows == MovedTree(d, dest, name)
      Clear(kind) ==
        LET moving == {node[n].path : n \in Subtree(d) \intersect kind}
        IN \A n \in Subtree(d) \intersect kind :
             rows[n].path \notin ActivePaths(kind) \ moving
  IN /\ dest # Root => node[dest].path # root /\ ~Descends(node[dest].path, root)
     /\ <<Join(dest, name), dest, name>> # <<root, node[d].parent, node[d].name>>
     /\ WellFormed(d)
     /\ \A n \in Subtree(d) : rows[n].path \in Paths
     /\ Clear(Folders) /\ Clear(Files)

MoveFolder(d, dest, name) ==
  /\ Active(d)
  /\ ActiveOr(dest)
  /\ FolderMoveAllowed(d, dest, name)
  /\ Apply(Plan("move", d, Subtree(d), MovedTree(d, dest, name), text, 0))
  /\ UNCHANGED split

-----------------------------------------------------------------------------
(* Delete and restore *)

FileDeletion(f) == Plan("delete", f, {f}, Marked({f}, NextSet), text, -Weight(text[f]))

DeleteFile(f) ==
  /\ Active(f)
  /\ Free # {}
  /\ Apply(FileDeletion(f))
  /\ UNCHANGED split

(* Only rows that are active: the others keep the operation that holds them. *)
Doomed(d) == {n \in Subtree(d) : Active(n)}

FolderDeletion(d) ==
  Plan("delete", d, Doomed(d), Marked(Doomed(d), NextSet), text,
       -Total(Doomed(d) \intersect Files, text))

DeleteFolder(d) ==
  /\ Active(d)
  /\ Free # {}
  /\ WellFormed(d)
  /\ Apply(FolderDeletion(d))
  /\ UNCHANGED split

FileRestorable(f) == node[f].path \notin ActivePaths(Files) /\ ChainActive(f)

(* The request names the operation, which must hold the row. *)
RestoreFile(f) ==
  /\ f \in Here /\ ~Active(f)
  /\ FileRestorable(f)
  /\ Apply(Plan("restore", f, {f}, Marked({f}, 0), text, Weight(text[f])))
  /\ UNCHANGED split

(* Rows below the path of d, found by path among the folders of the project
   and by parent among its files, that the same operation holds. *)
Held(d) ==
  LET op == node[d].owner
      Within(n) == n = d \/ Descends(node[n].path, node[d].path)
                         \/ node[n].path = node[d].path
  IN {n \in Here \intersect Folders : Within(n) /\ node[n].owner = op}
     \union {f \in Subtree(d) \intersect Files : node[f].owner = op}

(* Slip: every file counts again, whether its folders are active or not. *)
RegainedHidden(d) == Subtree(d) \intersect Files

(* Only what is exposed again counts. *)
Regained(d) == {f \in Held(d) \intersect Files : ChainActiveAfter(f, node[d].owner)}

FolderRestorable(d) ==
  /\ \A f \in Subtree(d) \intersect Files : Descends(node[f].path, node[d].path)
  /\ \A n \in Held(d) \intersect Folders : node[n].path \notin ActivePaths(Folders)
  /\ \A n \in Held(d) \intersect Files : node[n].path \notin ActivePaths(Files)

FolderRestoration(d) ==
  Plan("restore", d, Held(d), Marked(Held(d), 0), text, Total(Regained(d), text))

(* No look at the parents of d: they may stay deleted. *)
RestoreFolder(d) ==
  /\ d \in Here /\ ~Active(d)
  /\ FolderRestorable(d)
  /\ Apply(FolderRestoration(d))
  /\ split' = (split \/ ~ChainActive(d))

-----------------------------------------------------------------------------
(* Rollback *)

About(c, n) == c \in Kept /\ (set[c].target = n \/ n \in DOMAIN set[c].before)

LaterItems(n, c) == {d \in Kept : d > c /\ n \in DOMAIN set[d].before}

(* Slip: the newest of the later items decides. *)
StructureNewest(n, c) ==
  IF LaterItems(n, c) = {} THEN SnapshotOf(node[n]) ELSE set[Max(LaterItems(n, c))].before[n]

(* The later items are undone from the newest to the oldest, and each one
   overwrites the whole snapshot: the oldest decides. *)
Structure(n, c) ==
  IF LaterItems(n, c) = {} THEN SnapshotOf(node[n]) ELSE set[Min(LaterItems(n, c))].before[n]

Text(f, c) ==
  LET later == {d \in Kept : d > c /\ f \in DOMAIN set[d].textBefore}
  IN IF later = {} THEN text[f] ELSE set[Min(later)].textBefore[f]

(* An entry the target version does not know becomes a tombstone. *)
Reverted(f, c) ==
  IF Text(f, c) = "none" /\ text[f] # "none" THEN "tomb" ELSE Text(f, c)

(* The path is the historical one, whatever the folder is called now. *)
FileReversion(f, c) ==
  LET target == Structure(f, c)
      rows == [node EXCEPT ![f].parent = target.parent, ![f].name = target.name,
                           ![f].path = target.path]
      texts == [text EXCEPT ![f] = Reverted(f, c)]
  IN Plan("rollback", f, IF rows # node THEN {f} ELSE {}, rows, texts,
          Weight(texts[f]) - Weight(text[f]))

RollbackFile(f, c) ==
  /\ Active(f)
  /\ About(c, f)
  /\ LET target == Structure(f, c)
     IN /\ ~target.deleted
        /\ ActiveOr(target.parent)
        /\ target.path \in ActivePaths(Files) => target.path = node[f].path
  /\ Apply(FileReversion(f, c))
  /\ UNCHANGED split

(* Parent and name of the target version, below the parent's present path. *)
FolderReversion(d, c) ==
  LET target == Structure(d, c)
  IN Plan("rollback", d, Subtree(d), MovedTree(d, target.parent, target.name), text, 0)

RollbackFolder(d, c) ==
  /\ Active(d)
  /\ About(c, d)
  /\ LET target == Structure(d, c)
     IN /\ ~target.deleted
        /\ ActiveOr(target.parent)
        /\ FolderMoveAllowed(d, target.parent, target.name)
  /\ Apply(FolderReversion(d, c))
  /\ UNCHANGED split

-----------------------------------------------------------------------------
(* Upload *)

NoUpload == [path |-> <<>>, slot |-> 0]

BeginUpload(path) ==
  /\ upload = NoUpload
  /\ Free # {}
  /\ upload' = [path |-> path, slot |-> NextSet]
  /\ set' = [set EXCEPT ![NextSet] = Pending]
  /\ UNCHANGED <<node, text, elapsed, stats, split>>

Found(path, kind) == {n \in kind : Active(n) /\ node[n].path = path}

(* get_or_create_folder goes through the segments: an active folder of that
   path, whatever its parents are, or a new one; and so for the file. *)
Missing(path) ==
  {k \in 1..(Len(path) - 1) : Found(SubSeq(path, 1, k), Folders) = {}}

(* Which fresh row each missing folder becomes. *)
Places(path) == Injection(Missing(path), Fresh(Folders))

Creatable(path) ==
  /\ Places(path) # {}
  /\ Found(path, Files) = {} => Fresh(Files) # {}

FolderAt(path, k) ==
  IF k = 0 THEN Root
  ELSE IF k \in Missing(path) THEN (CHOOSE place \in Places(path) : TRUE)[k]
  ELSE CHOOSE d \in Found(SubSeq(path, 1, k), Folders) : TRUE

FileAt(path) ==
  IF Found(path, Files) = {} THEN Min(Fresh(Files))
  ELSE CHOOSE f \in Found(path, Files) : TRUE

Ensured(path) ==
  LET Create(n) ==
        IF n \in Files THEN NewRow(FolderAt(path, Len(path) - 1), path[Len(path)], path)
        ELSE LET k == CHOOSE j \in Missing(path) : FolderAt(path, j) = n
             IN NewRow(FolderAt(path, k - 1), path[k], SubSeq(path, 1, k))
      new == ({FileAt(path)} \union {FolderAt(path, k) : k \in Missing(path)}) \ Here
  IN [n \in Nodes |-> IF n \in new THEN Create(n) ELSE node[n]]

(* present: whether the uploaded file has the key of the entry. *)
Replacement(old, present) ==
  IF present THEN "live" ELSE IF old = "none" THEN "none" ELSE "tomb"

ReplaceContents(present) ==
  /\ upload # NoUpload
  /\ Creatable(upload.path)
  /\ LET f == FileAt(upload.path)
         after == Replacement(text[f], present)
     IN /\ node' = Ensured(upload.path)
        /\ text' = [text EXCEPT ![f] = after]
        /\ stats' = stats + Weight(after) - Weight(text[f])
        /\ set' = [set EXCEPT ![upload.slot] =
             [op |-> "upload", target |-> f, before |-> <<>>,
              textBefore |-> [g \in {h \in {f} : after # text[f]} |-> text[g]]]]
  /\ upload' = NoUpload
  /\ UNCHANGED <<elapsed, split>>

AbortUpload ==
  /\ upload # NoUpload
  /\ set' = [set EXCEPT ![upload.slot] = Removed]
  /\ upload' = NoUpload
  /\ UNCHANGED <<node, text, elapsed, stats, split>>

-----------------------------------------------------------------------------
(* The end of the retention *)

RetentionPasses ==
  /\ elapsed < MaxSets
  /\ set[elapsed + 1] \notin {Unused, Pending}
  /\ elapsed' = elapsed + 1
  /\ UNCHANGED <<node, text, set, upload, stats, split>>

DueTree(n) == IF n \in Folders THEN Subtree(n) ELSE {n}

(* The root is still held by the operation. *)
Listed(c) ==
  /\ c \in Kept /\ set[c].op = "delete"
  /\ set[c].target \in Here
  /\ node[set[c].target].owner = c

(* Everything below the root is due as well. *)
Purgeable(c) ==
  /\ Listed(c)
  /\ \A n \in DueTree(set[c].target) : node[n].owner \in 1..elapsed

(* The scan goes by purge_after and leaves out what is not purgeable. *)
FirstDue(c) == Purgeable(c) /\ \A d \in Sets : Purgeable(d) => d >= c

Related(c) ==
  {d \in Kept : d = c \/ \E n \in DueTree(set[c].target) :
                           About(d, n) \/ n \in DOMAIN set[d].textBefore}

(* folders and files reference their delete operation ON DELETE RESTRICT. *)
Restricted(c) ==
  \E n \in Here \ DueTree(set[c].target) : node[n].owner \in Related(c)

PurgeTree(c) ==
  LET tree == DueTree(set[c].target)
  IN /\ FirstDue(c)
     /\ ~Restricted(c)
     /\ node' = [n \in Nodes |-> IF n \in tree THEN [state |-> "gone"] ELSE node[n]]
     /\ text' = [f \in Files |-> IF f \in tree THEN "none" ELSE text[f]]
     /\ set' = [d \in Sets |-> IF d \in Related(c) THEN Removed ELSE set[d]]
     /\ UNCHANGED <<upload, elapsed, stats, split>>

-----------------------------------------------------------------------------
Init ==
  /\ node = [n \in Nodes |-> [state |-> "none"]]
  /\ text = [f \in Files |-> "none"]
  /\ set = [c \in Sets |-> Unused]
  /\ upload = NoUpload
  /\ elapsed = 0
  /\ stats = 0
  /\ split = FALSE

Next ==
  \/ \E d \in Parents, x \in Names : CreateFolder(d, x)
  \/ \E f \in Files, d \in Parents, x \in Names : MoveFile(f, d, x)
  \/ \E e \in Folders, d \in Parents, x \in Names : MoveFolder(e, d, x)
  \/ \E f \in Files : DeleteFile(f) \/ RestoreFile(f)
  \/ \E d \in Folders : DeleteFolder(d) \/ RestoreFolder(d)
  \/ \E f \in Files, c \in Sets : RollbackFile(f, c)
  \/ \E d \in Folders, c \in Sets : RollbackFolder(d, c)
  \/ \E path \in UploadPaths : BeginUpload(path)
  \/ \E present \in BOOLEAN : ReplaceContents(present)
  \/ AbortUpload
  \/ RetentionPasses
  \/ \E c \in Sets : PurgeTree(c)

Spec == Init /\ [][Next]_vars

-----------------------------------------------------------------------------
(* Properties *)

(* The folders form a tree whose paths follow its parents, deleted folders
   included.  No two active folders and no two active files have one path, so
   that no request runs into the unique index, unless a folder was restored
   below a deleted one: then a move can, because the paths of the deleted rows
   of the moved tree count as free.  And a deleted row is recorded in the
   operation that holds it, which is what restoring it needs. *)
TreeSound ==
  /\ \A d \in Here \intersect Folders :
       /\ node[d].parent # Root => node[d].parent \in Here
       /\ node[d].path = Join(node[d].parent, node[d].name)
       /\ d \notin Above(d)
  /\ ~split => \A kind \in {Folders, Files} : \A m, n \in kind :
       Active(m) /\ Active(n) /\ node[m].path = node[n].path => m = n
  /\ \A n \in Here : ~Active(n) =>
       LET c == node[n].owner
       IN c \in Kept /\ set[c].op = "delete" /\ n \in DOMAIN set[c].before

Exposed == {f \in Files : Active(f) /\ ChainActive(f)}

(* The materialised count of the project is the count over the exposed files,
   unless a folder has been restored below a deleted one: no sequence of moves,
   deletions, restorations, rollbacks, uploads and purges makes it drift. *)
StatsExact == ~split => stats = Total(Exposed, text)

(* What a change set left behind is history: later requests do not change the
   version that a rollback to it materialises.  Two cases are excepted, and
   both do change it: a purge takes a later change set away, and an upload
   commits a change set with an earlier time. *)
Later(c) == {d \in Kept : d > c}

VersionsStable ==
  [][\A f \in Files, c \in Sets :
       /\ About(c, f) /\ About(c, f)' /\ f \in Here /\ f \in Here'
       /\ Later(c) \subseteq Kept'
       /\ \A d \in Kept' \ Kept : Later(d) \intersect Kept = {}
       => /\ Structure(f, c)' = Structure(f, c)
          /\ Text(f, c)' = Text(f, c)]_vars
=============================================================================
