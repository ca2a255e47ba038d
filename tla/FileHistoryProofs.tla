-------------------------- MODULE FileHistoryProofs --------------------------
(***************************************************************************)
(* Proofs about FileHistory, for any number of folders, files, names and   *)
(* change sets, and any depth: TreeSound, StatsExact and VersionsStable.   *)
(*                                                                         *)
(* The folders are a forest, so what has to be kept inductive is how the   *)
(* rows hang together: a child's path is its parent's and one more name    *)
(* (Placed), an active row hangs from an active one until a folder is      *)
(* restored below a deleted one (Sheltered), what a deletion took is still *)
(* held by its operation (Owned) with everything below it (Nested), and no *)
(* two rows that one operation, or none, owns share a path (Distinct).     *)
(* Paths and ancestors are handled by minimal counterexamples (Least,      *)
(* Shortest), the induction that is left to a first-order prover.          *)
(***************************************************************************)
EXTENDS FileHistory, FiniteSetTheorems, SequenceTheorems, TLAPS

(* A set of numbers has a least one: induction without a schema. *)
LEMMA Least ==
  ASSUME NEW S \in SUBSET Nat, S # {}
  PROVE  Min(S) \in S /\ \A x \in S : Min(S) <= x
<1>1. PICK x \in S : \A y \in S : ~(<<y, x>> \in OpToRel(<, Nat))
    BY NatLessThanWellFounded, WFMin
<1>2. \A y \in S : x <= y
  <2> SUFFICES ASSUME NEW y \in S PROVE x <= y
      OBVIOUS
  <2>1. <<y, x>> \in Nat \X Nat /\ ~(y < x)
      BY <1>1 DEF OpToRel
  <2> QED
      BY <2>1
<1> QED
    BY <1>2 DEF Min

-----------------------------------------------------------------------------
(* Paths *)

LEMMA PathsAreSequences ==
  /\ \A p \in Paths : p \in Seq(Names) /\ Len(p) \in 1..MaxDepth
  /\ \A p \in Seq(Names) : Len(p) \in 1..MaxDepth => p \in Paths
<1>1. ASSUME NEW p \in Paths PROVE p \in Seq(Names) /\ Len(p) \in 1..MaxDepth
  <2>1. PICK k \in 1..MaxDepth : p \in [1..k -> Names]
      BY <1>1 DEF Paths
  <2>2. k \in Nat
      BY <2>1, FileHistoryAssumption
  <2>3. p \in Seq(Names)
      BY <2>1, <2>2, SeqDef
  <2> QED
      BY <2>1, <2>2, <2>3, LenProperties
<1>2. ASSUME NEW p \in Seq(Names), Len(p) \in 1..MaxDepth PROVE p \in Paths
    BY <1>2, LenProperties DEF Paths
<1> QED
    BY <1>1, <1>2

Rest(p, old) == SubSeq(p, Len(old) + 1, Len(p))

LEMMA Single ==
  ASSUME NEW x \in Names
  PROVE  <<x>> \in Seq(Names) /\ <<x>> # <<>> /\ Len(<<x>>) = 1 /\ Append(<<>>, x) = <<x>>
<1>1. <<>> \in Seq(Names)
    BY EmptySeq
<1>2. Append(<<>>, x) = <<x>>
  <2>1. Append(<<>>, x) = <<>> \o <<x>>
      BY <1>1, AppendIsConcat
  <2>2. <<x>> \in Seq(Names)
      OBVIOUS
  <2> QED
      BY <2>1, <2>2, ConcatEmptySeq
<1>3. Append(<<>>, x) \in Seq(Names) /\ Append(<<>>, x) # <<>> /\ Len(Append(<<>>, x)) = 0 + 1
    BY <1>1, AppendProperties, EmptySeq
<1> QED
    BY <1>2, <1>3

LEMMA AppendOnto ==
  ASSUME NEW p \in Seq(Names), NEW q \in Seq(Names), NEW x \in Names, NEW y \in Names,
         Append(p, x) = Append(q, y)
  PROVE  p = q /\ x = y
BY AppendInjective

(* A path below another one is that one and a rest. *)
LEMMA DescendsIsConcat ==
  ASSUME NEW p \in Seq(Names), NEW old \in Seq(Names), Descends(p, old)
  PROVE  /\ Rest(p, old) \in Seq(Names) /\ Rest(p, old) # <<>>
         /\ p = old \o Rest(p, old)
<1>1. Len(p) \in Nat /\ Len(old) \in Nat /\ Len(old) < Len(p)
    BY LenProperties DEF Descends
<1>2. \A i \in (Len(old) + 1)..Len(p) : p[i] \in Names
    BY <1>1, ElementOfSeq
<1>3. /\ Rest(p, old) \in Seq(Names)
      /\ Len(Rest(p, old)) = Len(p) - (Len(old) + 1) + 1
    BY <1>1, <1>2, SubSeqProperties DEF Rest
<1>4. SubSeq(p, 1, Len(old)) \o SubSeq(p, Len(old) + 1, Len(p)) = SubSeq(p, 1, Len(p))
  <2>1. 1 \in 1..Len(p) + 1 /\ Len(old) \in (1 - 1)..Len(p) /\ Len(p) \in Len(old)..Len(p)
      BY <1>1
  <2> QED
      BY <2>1, ConcatAdjacentSubSeq
<1>5. SubSeq(p, 1, Len(p)) = p
    BY SubSeqFull
<1>6. Rest(p, old) # <<>>
  <2>1. Len(Rest(p, old)) # 0
      BY <1>1, <1>3
  <2> QED
      BY <2>1, EmptySeq
<1>7. SubSeq(p, 1, Len(old)) = old
    BY DEF Descends
<1>8. p = old \o SubSeq(p, Len(old) + 1, Len(p))
    BY <1>4, <1>5, <1>7
<1> QED
    BY <1>3, <1>6, <1>8 DEF Rest

LEMMA ConcatDescends ==
  ASSUME NEW old \in Seq(Names), NEW t \in Seq(Names), t # <<>>
  PROVE  /\ old \o t \in Seq(Names) /\ Len(old \o t) = Len(old) + Len(t)
         /\ Descends(old \o t, old) /\ Rest(old \o t, old) = t
<1>1. Len(t) \in Nat \ {0} /\ Len(old) \in Nat
    BY EmptySeq, LenProperties
<1>2. old \o t \in Seq(Names) /\ Len(old \o t) = Len(old) + Len(t)
    BY ConcatProperties
<1>3. SubSeq(old \o t, 1, Len(old)) = old
  <2>1. CASE old = <<>>
      BY <2>1, <1>1, EmptySeq, SubSeqEmpty
  <2>2. CASE old # <<>>
    <3>1. Len(old) \in 1..Len(old) /\ 1 \in 1..Len(old)
        BY <2>2, <1>1, EmptySeq
    <3> QED
        BY <3>1, SubSeqOfConcat1, SubSeqFull
  <2> QED
      BY <2>1, <2>2
<1>4. Rest(old \o t, old) = t
  <2>1. /\ Len(old) + 1 \in Len(old) + 1 .. Len(old) + Len(t)
        /\ Len(old) + Len(t) \in Len(old) + 1 .. Len(old) + Len(t)
        /\ Len(old) + 1 - Len(old) = 1 /\ Len(old) + Len(t) - Len(old) = Len(t)
      BY <1>1
  <2>2. SubSeq(old \o t, Len(old) + 1, Len(old) + Len(t)) = SubSeq(t, 1, Len(t))
      BY <2>1, SubSeqOfConcat2
  <2> QED
      BY <2>2, <1>2, SubSeqFull DEF Rest
<1> QED
    BY <1>1, <1>2, <1>3, <1>4 DEF Descends

LEMMA ReplacedIsConcat ==
  ASSUME NEW p, NEW old, NEW new
  PROVE  Replaced(p, old, new) = new \o Rest(p, old)
BY DEF Replaced, Rest

(* A new prefix loses nothing. *)
LEMMA ReplacedInjective ==
  ASSUME NEW p \in Seq(Names), NEW q \in Seq(Names), NEW old \in Seq(Names),
         NEW new \in Seq(Names), Descends(p, old), Descends(q, old),
         Replaced(p, old, new) = Replaced(q, old, new)
  PROVE  p = q
<1>1. Rest(p, old) = Rest(q, old)
  <2>1. /\ Rest(p, old) \in Seq(Names) /\ Rest(q, old) \in Seq(Names)
        /\ new \o Rest(p, old) = new \o Rest(q, old)
      BY DescendsIsConcat, ReplacedIsConcat
  <2>2. \A a, b, c \in Seq(Names) : a \o b = a \o c => b = c
      BY ONLY ConcatSimplifications
  <2> QED
      BY ONLY <2>1, <2>2, new \in Seq(Names), Zenon
<1>2. p = old \o Rest(p, old) /\ q = old \o Rest(q, old)
    BY DescendsIsConcat
<1> QED
    BY ONLY <1>1, <1>2

(* A path below p, or p itself, goes on below p. *)
LEMMA AppendDescends ==
  ASSUME NEW p \in Seq(Names), NEW old \in Seq(Names), NEW x \in Names,
         p = old \/ Descends(p, old)
  PROVE  Descends(Append(p, x), old)
<1>1. <<x>> \in Seq(Names) /\ <<x>> # <<>>
    BY Single
<1>2. Append(p, x) = p \o <<x>>
    BY AppendIsConcat
<1>3. CASE p = old
  <2>1. Descends(old \o <<x>>, old)
      BY ONLY <1>1, old \in Seq(Names), ConcatDescends
  <2> QED
      BY ONLY <1>2, <1>3, <2>1
<1>4. CASE Descends(p, old)
  <2>1. PICK t \in Seq(Names) : t # <<>> /\ p = old \o t
      BY <1>4, DescendsIsConcat
  <2>2. Append(p, x) = old \o (t \o <<x>>)
      BY <1>1, <1>2, <2>1, ConcatAssociative
  <2>3. t \o <<x>> \in Seq(Names) /\ t \o <<x>> # <<>>
      BY <1>1, <2>1, ConcatProperties, ConcatEqualIffEmpty
  <2> QED
      BY <2>2, <2>3, ConcatDescends
<1> QED
    BY <1>3, <1>4

(* What is below old and ends in one more segment. *)
LEMMA AppendBelow ==
  ASSUME NEW q \in Seq(Names), NEW old \in Seq(Names), NEW x \in Names,
         Descends(Append(q, x), old)
  PROVE  q = old \/ Descends(q, old)
<1>1. Append(q, x) \in Seq(Names)
    BY AppendProperties
<1>2. PICK t \in Seq(Names) : t # <<>> /\ Append(q, x) = old \o t
    BY <1>1, DescendsIsConcat
<1>3. PICK s \in Seq(Names), y \in Names : t = Append(s, y)
    BY <1>2, SequenceEmptyOrAppend
<1>4. Append(q, x) = Append(old \o s, y) /\ old \o s \in Seq(Names)
  <2>1. <<y>> \in Seq(Names) /\ t = s \o <<y>>
      BY <1>3, Single, AppendIsConcat
  <2>2. old \o s \in Seq(Names)
      BY ConcatProperties
  <2>3. old \o t = (old \o s) \o <<y>>
      BY <2>1, ConcatAssociative
  <2> QED
      BY <1>2, <2>2, <2>3, AppendIsConcat
<1>5. q = old \o s
    BY <1>4, AppendOnto
<1>6. CASE s = <<>>
    BY <1>5, <1>6, ConcatEmptySeq
<1>7. CASE s # <<>>
    BY <1>5, <1>7, ConcatDescends
<1> QED
    BY <1>6, <1>7

(* Two beginnings of one path: one is the beginning of the other. *)
LEMMA Comparable ==
  ASSUME NEW p \in Seq(Names), NEW q \in Seq(Names), NEW s \in Seq(Names),
         NEW t \in Seq(Names), p \o s = q \o t
  PROVE  p = q \/ Descends(p, q) \/ Descends(q, p)
<1>1. /\ Len(p) \in Nat /\ Len(q) \in Nat
      /\ SubSeq(p, 1, Len(p)) = p /\ SubSeq(q, 1, Len(q)) = q
    BY LenProperties, SubSeqFull
<1>2. ASSUME NEW a \in Seq(Names), NEW b \in Seq(Names),
             NEW k \in Nat, k <= Len(a)
      PROVE  SubSeq(a \o b, 1, k) = SubSeq(a, 1, k)
  <2>1. Len(a) \in Nat
      BY LenProperties
  <2>2. CASE k = 0
      BY <2>2, SubSeqEmpty
  <2>3. CASE k # 0
    <3>1. 1 \in 1..Len(a) /\ k \in 1..Len(a)
        BY <1>2, <2>1, <2>3
    <3> QED
        BY <3>1, SubSeqOfConcat1
  <2> QED
      BY <2>2, <2>3
<1>3. CASE Len(p) < Len(q)
  <2>1. SubSeq(q, 1, Len(p)) = SubSeq(p, 1, Len(p))
      BY <1>1, <1>2, <1>3
  <2> QED
      BY <1>1, <1>3, <2>1 DEF Descends
<1>4. CASE Len(q) < Len(p)
  <2>1. SubSeq(p, 1, Len(q)) = SubSeq(q, 1, Len(q))
      BY <1>1, <1>2, <1>4
  <2> QED
      BY <1>1, <1>4, <2>1 DEF Descends
<1>5. CASE Len(p) = Len(q)
  <2>1. SubSeq(p, 1, Len(p)) = SubSeq(q, 1, Len(q))
      BY <1>1, <1>2, <1>5
  <2> QED
      BY <1>1, <2>1
<1>6. \A k, l \in Nat : k < l \/ l < k \/ k = l
    OBVIOUS
<1>7. Len(p) < Len(q) \/ Len(q) < Len(p) \/ Len(p) = Len(q)
    BY <1>1, <1>6, Zenon
<1> QED
    BY <1>3, <1>4, <1>5, <1>7

(* The new prefix of a child is that of its parent. *)
LEMMA AppendReplaced ==
  ASSUME NEW p \in Seq(Names), NEW old \in Seq(Names), NEW new \in Seq(Names), NEW x \in Names
  PROVE  /\ p = old => Replaced(Append(p, x), old, new) = Append(new, x)
         /\ Descends(p, old) =>
              Replaced(Append(p, x), old, new) = Append(Replaced(p, old, new), x)
<1>1. <<x>> \in Seq(Names) /\ <<x>> # <<>>
    BY Single
<1>2. Append(p, x) = p \o <<x>>
    BY AppendIsConcat
<1>3. ASSUME p = old PROVE Replaced(Append(p, x), old, new) = Append(new, x)
  <2>1. Rest(Append(p, x), old) = <<x>>
      BY <1>1, <1>2, <1>3, ConcatDescends
  <2>2. Append(new, x) = new \o <<x>>
      BY AppendIsConcat
  <2> QED
      BY <2>1, <2>2, ReplacedIsConcat
<1>4. ASSUME Descends(p, old)
      PROVE  Replaced(Append(p, x), old, new) = Append(Replaced(p, old, new), x)
  <2> DEFINE t == Rest(p, old)
  <2>1. t \in Seq(Names) /\ t # <<>> /\ p = old \o t
      BY <1>4, DescendsIsConcat
  <2> HIDE DEF t
  <2>2. Append(p, x) = old \o (t \o <<x>>)
      BY <1>1, <1>2, <2>1, ConcatAssociative
  <2>3. t \o <<x>> \in Seq(Names) /\ t \o <<x>> # <<>>
      BY <1>1, <2>1, ConcatProperties, ConcatEqualIffEmpty
  <2>4. Replaced(Append(p, x), old, new) = new \o (t \o <<x>>)
      BY <2>2, <2>3, ConcatDescends, ReplacedIsConcat
  <2>5. Replaced(p, old, new) = new \o t /\ new \o t \in Seq(Names)
      BY <2>1, ReplacedIsConcat, ConcatProperties DEF t
  <2> QED
      BY <1>1, <2>1, <2>4, <2>5, ConcatAssociative, AppendIsConcat
<1> QED
    BY <1>3, <1>4

-----------------------------------------------------------------------------
(* The inductive invariant *)

Texts == {"none", "live", "tomb"}

TypeOK ==
  /\ node \in [Nodes -> Row]
  /\ text \in [Files -> Texts]
  /\ set \in [Sets -> ChangeSet]
  /\ upload = NoUpload \/ (upload.path \in Paths /\ upload.slot \in Sets
                           /\ set[upload.slot] = Pending)
  /\ elapsed \in 0..MaxSets
  /\ stats \in Int
  /\ split \in BOOLEAN

(* Every row that exists hangs in the tree; the path of a folder is that of
   its parent and its name. *)
Placed ==
  \A n \in Here :
    /\ node[n].parent # Root => node[n].parent \in Here
    /\ n \in Folders => node[n].path = Join(node[n].parent, node[n].name)

(* No active row below a deleted folder. *)
Sheltered == ~split => \A n \in Nodes : Active(n) => ActiveOr(node[n].parent)

(* A deleted row is recorded in the delete operation that holds it. *)
Owned ==
  \A n \in Here : ~Active(n) =>
    LET c == node[n].owner
    IN c \in Kept /\ set[c].op = "delete" /\ n \in DOMAIN set[c].before

(* What one operation holds is in one piece, below its target. *)
Nested ==
  ~split => \A n \in Here : ~Active(n) =>
    \/ n = set[node[n].owner].target
    \/ /\ node[n].parent # Root
       /\ node[node[n].parent].owner = node[n].owner

(* Neither two active rows of a kind have one path, nor two that the same
   operation holds: restoring them together is possible. *)
Distinct ==
  ~split => \A kind \in {Folders, Files} : \A m, n \in kind \intersect Here :
    node[m].owner = node[n].owner /\ node[m].path = node[n].path => m = n

Visible == {f \in Files : Active(f) /\ text[f] = "live"}

Accounted == ~split => stats = Cardinality(Visible)

Blanks == \A f \in Files : f \notin Here => text[f] = "none"

(* Change sets are taken in the order of their times. *)
Slots == \A c \in Free, d \in Sets : d > c => d \in Free

IInv ==
  /\ TypeOK /\ Placed /\ Sheltered /\ Owned /\ Nested
  /\ Distinct /\ Accounted /\ Blanks /\ Slots

-----------------------------------------------------------------------------
(* Rows and the tree *)

LEMMA RowsOfTheTree ==
  ASSUME node \in [Nodes -> Row], NEW n \in Here
  PROVE  /\ n \in Nodes /\ node[n].parent \in Parents /\ node[n].name \in Names
         /\ node[n].path \in Paths /\ node[n].owner \in 0..MaxSets
         /\ node[n] \in [state: {"here"}, parent: Parents, name: Names, path: Paths,
                         owner: 0..MaxSets]
BY DEF Here, Row

LEMMA Kinds ==
  /\ Root \notin Nodes /\ Folders \subseteq Nodes /\ Files \subseteq Nodes
  /\ Folders \intersect Files = {} /\ Nodes \subseteq Nat
  /\ MaxSets \in Nat /\ MaxDepth \in Nat /\ Sets \subseteq Nat
<1>1. Root \notin Nodes /\ Folders \subseteq Nodes /\ Files \subseteq Nodes
    BY FileHistoryAssumption DEF Nodes
<1>2. Folders \intersect Files = {} /\ Nodes \subseteq Nat
    BY FileHistoryAssumption DEF Nodes
<1>3. MaxSets \in Nat /\ MaxDepth \in Nat
    BY FileHistoryAssumption
<1>4. Sets \subseteq Nat
    BY <1>3 DEF Sets
<1> QED
    BY <1>1, <1>2, <1>3, <1>4

(* The path of a folder is one longer than that of its parent. *)
LEMMA PathOfFolder ==
  ASSUME node \in [Nodes -> Row], Placed, NEW d \in Here \intersect Folders
  PROVE  /\ node[d].parent = Root => node[d].path = <<node[d].name>>
         /\ node[d].parent # Root =>
              /\ node[d].parent \in Here \intersect Folders
              /\ node[d].path = Append(node[node[d].parent].path, node[d].name)
              /\ Len(node[node[d].parent].path) < Len(node[d].path)
<1>1. d \in Here /\ node[d].parent \in Parents /\ node[d].name \in Names
    BY RowsOfTheTree
<1>2. node[d].parent # Root => node[d].parent \in Here
    BY <1>1 DEF Placed
<1>3. node[d].path = Join(node[d].parent, node[d].name)
    BY DEF Placed
<1>4. ASSUME node[d].parent # Root
      PROVE  /\ node[d].parent \in Here \intersect Folders
             /\ node[d].path = Append(node[node[d].parent].path, node[d].name)
             /\ Len(node[node[d].parent].path) < Len(node[d].path)
  <2>1. node[d].parent \in Here \intersect Folders
      BY <1>1, <1>2, <1>4 DEF Parents
  <2>2. node[node[d].parent].path \in Seq(Names)
      BY <2>1, RowsOfTheTree, PathsAreSequences
  <2>3. node[d].path = Append(node[node[d].parent].path, node[d].name)
      BY <1>3, <1>4 DEF Join
  <2>4. Len(node[d].path) = Len(node[node[d].parent].path) + 1
      BY <1>1, <2>2, <2>3, AppendProperties
  <2>5. Len(node[node[d].parent].path) \in Nat
      BY ONLY <2>2, LenProperties
  <2>6. \A k \in Nat : k < k + 1
      BY ONLY TRUE
  <2>7. Len(node[node[d].parent].path) < Len(node[d].path)
      BY ONLY <2>4, <2>5, <2>6, Zenon
  <2> QED
      BY ONLY <2>1, <2>3, <2>7
<1> QED
    BY <1>3, <1>4 DEF Join

LEMMA ParentOfRow ==
  ASSUME node \in [Nodes -> Row], Placed, NEW n \in Here, node[n].parent # Root
  PROVE  node[n].parent \in Here \intersect Folders
BY RowsOfTheTree DEF Placed, Parents

(* What Above means: the parent, and what is above the parent. *)
LEMMA AboveStep ==
  ASSUME node \in [Nodes -> Row], Placed, NEW n \in Here
  PROVE  /\ node[n].parent = Root => Above(n) = {}
         /\ node[n].parent # Root =>
              Above(n) = {node[n].parent} \union Above(node[n].parent)
<1>1. ASSUME node[n].parent = Root PROVE Above(n) = {}
  <2>1. Climbs(n, {})
      BY <1>1 DEF Climbs
  <2> QED
      BY <2>1 DEF Above
<1>2. ASSUME node[n].parent # Root
      PROVE  Above(n) = {node[n].parent} \union Above(node[n].parent)
  <2> DEFINE p == node[n].parent
  <2>1. p \in Here \intersect Folders
      BY <1>2, ParentOfRow
  <2>2. ASSUME NEW S \in SUBSET Folders, Climbs(n, S)
        PROVE  p \in S /\ Climbs(p, S)
      BY <1>2, <2>1, <2>2 DEF Climbs
  <2>3. ASSUME NEW d \in {p} \union Above(p), d \in Here
        PROVE  node[d].parent \in Above(p) \union {Root}
    <3>1. node[d].parent \in Parents
        BY <2>3, RowsOfTheTree
    <3>2. ASSUME NEW S \in SUBSET Folders, Climbs(p, S)
          PROVE  node[d].parent \in S \union {Root}
        BY <2>3, <3>2 DEF Climbs, Above
    <3> QED
        BY <3>1, <3>2 DEF Above, Parents
  <2>4. Climbs(n, {p} \union Above(p))
      BY <2>3 DEF Climbs
  <2>5. {p} \union Above(p) \in SUBSET Folders
      BY <2>1 DEF Above
  <2>6. Above(n) \subseteq {p} \union Above(p)
      BY <2>4, <2>5 DEF Above
  <2>7. {p} \union Above(p) \subseteq Above(n)
      BY <2>1, <2>2 DEF Above
  <2> QED
      BY <2>6, <2>7
<1> QED
    BY <1>1, <1>2

(* A closed set that has the parent has all the folders above. *)
LEMMA AboveLeast ==
  ASSUME NEW n, NEW S \in SUBSET Folders, Climbs(n, S)
  PROVE  Above(n) \subseteq S
BY DEF Above

(* No folder is above itself: what is above has a shorter path. *)
LEMMA Acyclic ==
  ASSUME node \in [Nodes -> Row], Placed, NEW d \in Here \intersect Folders
  PROVE  d \notin Above(d)
<1> DEFINE S == {e \in Here \intersect Folders : Len(node[e].path) < Len(node[d].path)}
<1>1. \A e \in Here \intersect Folders : Len(node[e].path) \in Nat
    BY RowsOfTheTree, PathsAreSequences
<1>2. node[d].parent \in S \union {Root}
    BY PathOfFolder
<1>3. ASSUME NEW e \in S PROVE node[e].parent \in S \union {Root}
  <2>1. e \in Here \intersect Folders /\ Len(node[e].path) < Len(node[d].path)
      BY <1>3
  <2>2. CASE node[e].parent # Root
    <3>1. /\ node[e].parent \in Here \intersect Folders
          /\ Len(node[node[e].parent].path) < Len(node[e].path)
        BY <2>1, <2>2, PathOfFolder
    <3>2. /\ Len(node[node[e].parent].path) \in Nat /\ Len(node[e].path) \in Nat
          /\ Len(node[d].path) \in Nat
        BY <1>1, <2>1, <3>1
    <3>3. Len(node[node[e].parent].path) < Len(node[d].path)
        BY <2>1, <3>1, <3>2
    <3> QED
        BY <3>1, <3>3
  <2> QED
      BY <2>2
<1>4. Climbs(d, S)
    BY <1>2, <1>3 DEF Climbs
<1>5. Above(d) \subseteq S
    BY <1>4, AboveLeast
<1>6. d \notin S
    BY <1>1
<1> QED
    BY <1>5, <1>6

(* The rows below d are d and those whose parent is one of them. *)
LEMMA SubtreeStep ==
  ASSUME node \in [Nodes -> Row], Placed, NEW d \in Here \intersect Folders
  PROVE  /\ Subtree(d) \subseteq Here /\ d \in Subtree(d)
         /\ \A n \in Here : n \in Subtree(d) <=>
              n = d \/ (node[n].parent # Root /\ node[n].parent \in Subtree(d))
<1>1. ASSUME NEW n \in Here
      PROVE  n \in Subtree(d) <=>
              n = d \/ (node[n].parent # Root /\ node[n].parent \in Subtree(d))
  <2>1. CASE node[n].parent = Root
      BY <2>1, AboveStep DEF Subtree
  <2>2. CASE node[n].parent # Root
    <3>1. node[n].parent \in Here
        BY <2>2, ParentOfRow
    <3>2. Above(n) = {node[n].parent} \union Above(node[n].parent)
        BY <2>2, AboveStep
    <3> QED
        BY <2>2, <3>1, <3>2 DEF Subtree
  <2> QED
      BY <2>1, <2>2
<1> QED
    BY <1>1 DEF Subtree

(* A set of folders has one whose path is as short as any: induction along
   the tree. *)
LEMMA Shortest ==
  ASSUME node \in [Nodes -> Row], NEW S \in SUBSET (Here \intersect Folders), S # {}
  PROVE  \E n \in S : \A m \in S : ~(Len(node[m].path) < Len(node[n].path))
<1> DEFINE L == {Len(node[n].path) : n \in S}
<1>1. \A n \in S : Len(node[n].path) \in Nat
    BY RowsOfTheTree, PathsAreSequences
<1>2. L \in SUBSET Nat /\ L # {}
    BY <1>1
<1>3. Min(L) \in L /\ \A k \in L : Min(L) <= k
    BY <1>2, Least
<1>4. PICK n \in S : Min(L) = Len(node[n].path)
    BY <1>3
<1>5. \A m \in S : Min(L) <= Len(node[m].path)
    BY <1>3
<1> HIDE DEF L
<1> QED
    BY <1>1, <1>4, <1>5

(* Nothing above an active row is deleted. *)
LEMMA ChainOfActive ==
  ASSUME node \in [Nodes -> Row], Placed, Sheltered, ~split, NEW n \in Nodes, Active(n)
  PROVE  ChainActive(n)
<1> DEFINE S == {d \in Folders : Active(d)}
<1>1. ASSUME NEW d \in Nodes, Active(d) PROVE node[d].parent \in S \union {Root}
  <2>1. d \in Here /\ ActiveOr(node[d].parent)
      BY <1>1 DEF Sheltered, Active
  <2>2. node[d].parent \in Parents
      BY <2>1, RowsOfTheTree
  <2> QED
      BY <2>1, <2>2 DEF ActiveOr, Parents
<1>2. Climbs(n, S)
    BY <1>1, Kinds DEF Climbs
<1> QED
    BY <1>2, AboveLeast DEF ChainActive

(* Every proper prefix of the path of an active folder is one, too. *)
LEMMA AncestorAt ==
  ASSUME node \in [Nodes -> Row], Placed, Sheltered, ~split,
         NEW d \in Folders, Active(d), NEW p \in Seq(Names), p # <<>>,
         Descends(node[d].path, p)
  PROVE  \E e \in Folders : Active(e) /\ node[e].path = p
<1> SUFFICES ASSUME ~\E e \in Folders : Active(e) /\ node[e].path = p
             PROVE  FALSE
    OBVIOUS
<1> DEFINE S == {e \in Folders : Active(e) /\ Descends(node[e].path, p)}
<1>1. S \in SUBSET (Here \intersect Folders) /\ S # {}
    BY DEF Active
<1>2. PICK e \in S : \A m \in S : ~(Len(node[m].path) < Len(node[e].path))
    BY <1>1, Shortest
<1>3. e \in Here \intersect Folders /\ Active(e) /\ Descends(node[e].path, p)
    BY <1>1, <1>2
<1>4. PICK t \in Seq(Names) : t # <<>> /\ node[e].path = p \o t
    BY <1>3, RowsOfTheTree, PathsAreSequences, DescendsIsConcat
<1>5. PICK s \in Seq(Names), x \in Names : t = Append(s, x)
    BY <1>4, SequenceEmptyOrAppend
<1>6. node[e].path = Append(p \o s, x) /\ p \o s \in Seq(Names)
  <2>1. <<x>> \in Seq(Names) /\ t = s \o <<x>>
      BY <1>5, Single, AppendIsConcat
  <2>2. p \o s \in Seq(Names)
      BY ConcatProperties
  <2>3. node[e].path = (p \o s) \o <<x>>
      BY <1>4, <2>1, ConcatAssociative
  <2> QED
      BY <2>2, <2>3, AppendIsConcat
<1>7. node[e].parent # Root
  <2> SUFFICES ASSUME node[e].parent = Root PROVE FALSE
      OBVIOUS
  <2>1. node[e].name \in Names /\ node[e].path = <<node[e].name>>
      BY <1>3, RowsOfTheTree, PathOfFolder
  <2>2. Len(Append(p \o s, x)) = 1
      BY <1>6, <2>1, Single
  <2>3. Len(Append(p \o s, x)) = Len(p \o s) + 1 /\ Len(p \o s) = Len(p) + Len(s)
      BY <1>6, AppendProperties, ConcatProperties
  <2>4. Len(p) \in Nat \ {0} /\ Len(s) \in Nat
      BY EmptySeq, LenProperties
  <2> QED
      BY ONLY <2>2, <2>3, <2>4
<1> DEFINE q == node[e].parent
<1>8. /\ q \in Here \intersect Folders
      /\ node[e].path = Append(node[q].path, node[e].name)
      /\ Len(node[q].path) < Len(node[e].path)
    BY <1>3, <1>7, PathOfFolder
<1>9. node[q].path = p \o s
  <2>1. node[q].path \in Seq(Names) /\ node[e].name \in Names
      BY <1>3, <1>8, RowsOfTheTree, PathsAreSequences
  <2>2. Append(node[q].path, node[e].name) = Append(p \o s, x)
      BY <1>6, <1>8
  <2>3. p \o s \in Seq(Names)
      BY ConcatProperties
  <2> HIDE DEF q
  <2> QED
      BY ONLY <2>1, <2>2, <2>3, x \in Names, AppendOnto
<1>10. Active(q)
    BY <1>3, <1>7, Kinds DEF Sheltered, ActiveOr
<1>11. CASE s = <<>>
    BY <1>8, <1>9, <1>10, <1>11, ConcatEmptySeq
<1>12. CASE s # <<>>
  <2>1. Descends(node[q].path, p)
      BY <1>9, <1>12, ConcatDescends
  <2> QED
      BY <1>2, <1>8, <1>10, <2>1
<1> QED
    BY <1>11, <1>12

(* The parent of a deleted row, unless the row is the target. *)
LEMMA ParentInOperation ==
  ASSUME node \in [Nodes -> Row], Placed, Nested, ~split,
         NEW n \in Here, ~Active(n), n # set[node[n].owner].target
  PROVE  LET p == node[n].parent
         IN /\ p # Root /\ p \in Here \intersect Folders
            /\ ~Active(p) /\ node[p].owner = node[n].owner
<1>1. node[n].parent # Root /\ node[node[n].parent].owner = node[n].owner
    BY DEF Nested
<1>2. node[n].parent \in Here \intersect Folders
    BY <1>1, ParentOfRow
<1> QED
    BY <1>1, <1>2 DEF Active

(* What one operation holds is all below an active folder, or none of it is. *)
LEMMA OneOperation ==
  ASSUME node \in [Nodes -> Row], Placed, Nested, ~split,
         NEW d \in Folders, Active(d), NEW m \in Here, NEW n \in Here,
         node[m].owner = node[n].owner, node[m].owner # 0
  PROVE  m \in Subtree(d) <=> n \in Subtree(d)
<1> DEFINE op == node[m].owner
           Same(x) == x \in Subtree(d) <=> set[op].target \in Subtree(d)
           S == {e \in Here \intersect Folders : node[e].owner = op /\ ~Same(e)}
<1>1. d \in Here \intersect Folders /\ node[d].owner = 0
    BY DEF Active
<1>2. ASSUME NEW x \in Here, node[x].owner = op, x # set[op].target
      PROVE  LET p == node[x].parent
             IN /\ p \in Here \intersect Folders /\ node[p].owner = op
                /\ x \in Subtree(d) <=> p \in Subtree(d)
                /\ x \in Folders => Len(node[p].path) < Len(node[x].path)
  <2>1. ~Active(x)
      BY <1>2 DEF Active
  <2>2. /\ node[x].parent # Root /\ node[x].parent \in Here \intersect Folders
        /\ node[node[x].parent].owner = op
      BY <1>2, <2>1, ParentInOperation
  <2>3. x # d
      BY <1>1, <1>2
  <2>4. x \in Subtree(d) <=> node[x].parent \in Subtree(d)
      BY <1>1, <2>2, <2>3, SubtreeStep
  <2> QED
      BY <1>2, <2>2, <2>4, PathOfFolder
<1>3. S = {}
  <2> SUFFICES ASSUME S # {} PROVE FALSE
      OBVIOUS
  <2>1. PICK e \in S : \A k \in S : ~(Len(node[k].path) < Len(node[e].path))
      BY Shortest
  <2>2. e # set[op].target
      BY <2>1
  <2> QED
      BY <1>2, <2>1, <2>2
<1>4. ASSUME NEW x \in Here, node[x].owner = op PROVE Same(x)
  <2>1. CASE x = set[op].target
      BY <2>1
  <2>2. CASE x # set[op].target
      BY <1>2, <1>3, <1>4, <2>2
  <2> QED
      BY <2>1, <2>2
<1> QED
    BY <1>4

(* A deleted folder below active ones was the target of its operation, and all
   that the operation holds is below it, by parents and by paths. *)
LEMMA HeldIsWhole ==
  ASSUME node \in [Nodes -> Row], Placed, Nested, ~split,
         NEW d \in Here \intersect Folders, ~Active(d), ChainActive(d)
  PROVE  /\ d = set[node[d].owner].target
         /\ Held(d) = {n \in Here : node[n].owner = node[d].owner}
<1> DEFINE op == node[d].owner
           Below(x) == x \in Subtree(d)
                       /\ (x = d \/ Descends(node[x].path, node[d].path))
           S == {e \in Here \intersect Folders : node[e].owner = op /\ ~Below(e)}
<1>1. d = set[op].target
  <2> SUFFICES ASSUME d # set[op].target PROVE FALSE
      OBVIOUS
  <2>1. node[d].parent # Root /\ ~Active(node[d].parent)
      BY ParentInOperation
  <2> QED
      BY <2>1, AboveStep DEF ChainActive
<1>2. ASSUME NEW x \in Here, node[x].owner = op, x # d
      PROVE  /\ node[x].parent # Root /\ node[x].parent \in Here \intersect Folders
             /\ node[node[x].parent].owner = op
  <2>1. ~Active(x)
      BY <1>2 DEF Active
  <2> QED
      BY <1>1, <1>2, <2>1, ParentInOperation
<1>3. S = {}
  <2> SUFFICES ASSUME S # {} PROVE FALSE
      OBVIOUS
  <2>1. PICK e \in S : \A k \in S : ~(Len(node[k].path) < Len(node[e].path))
      BY Shortest
  <2> DEFINE p == node[e].parent
  <2>2. e # d
      BY <2>1, SubtreeStep
  <2>3. p # Root /\ p \in Here \intersect Folders /\ node[p].owner = op
      BY <1>2, <2>1, <2>2
  <2>4. node[e].path = Append(node[p].path, node[e].name)
        /\ Len(node[p].path) < Len(node[e].path)
      BY <2>1, <2>3, PathOfFolder
  <2>5. p \in Subtree(d) /\ (p = d \/ Descends(node[p].path, node[d].path))
      BY <2>1, <2>3, <2>4
  <2>6. e \in Subtree(d)
      BY <2>1, <2>3, <2>5, SubtreeStep
  <2>7. Descends(node[e].path, node[d].path)
    <3>1. /\ node[p].path \in Seq(Names) /\ node[d].path \in Seq(Names)
          /\ node[e].name \in Names
        BY <2>1, <2>3, RowsOfTheTree, PathsAreSequences
    <3> QED
        BY <2>4, <2>5, <3>1, AppendDescends
  <2> QED
      BY <2>1, <2>6, <2>7
<1>4. \A n \in Held(d) : n \in Here /\ node[n].owner = op
    BY SubtreeStep DEF Held
<1>5. ASSUME NEW n \in Here, node[n].owner = op PROVE n \in Held(d)
  <2>1. CASE n \in Folders
      BY <1>3, <1>5, <2>1 DEF Held
  <2>2. CASE n \in Files
    <3>1. n # d
        BY <2>2, Kinds
    <3>2. node[n].parent \in Subtree(d)
        BY <1>2, <1>3, <1>5, <3>1
    <3>3. n \in Subtree(d)
        BY <1>2, <1>5, <3>1, <3>2, SubtreeStep
    <3> QED
        BY <1>5, <2>2, <3>3 DEF Held
  <2> QED
      BY <1>5, <2>1, <2>2 DEF Here, Nodes
<1> QED
    BY <1>1, <1>4, <1>5

-----------------------------------------------------------------------------
(* Counting *)

LEMMA PartsOfASet ==
  ASSUME NEW A, IsFiniteSet(A), NEW B \in SUBSET A
  PROVE  /\ IsFiniteSet(B) /\ IsFiniteSet(A \ B)
         /\ Cardinality(B) \in Nat /\ Cardinality(A \ B) \in Nat
         /\ Cardinality(A) = Cardinality(A \ B) + Cardinality(B)
<1>1. IsFiniteSet(B) /\ IsFiniteSet(A \ B)
    BY FS_Subset, FS_Difference
<1>2. Cardinality(B) \in Nat /\ Cardinality(A \ B) \in Nat
    BY <1>1, FS_CardinalityType
<1>3. (A \ B) \union B = A /\ (A \ B) \intersect B = {}
    OBVIOUS
<1>4. Cardinality((A \ B) \union B)
        = Cardinality(A \ B) + Cardinality(B) - Cardinality((A \ B) \intersect B)
    BY <1>1, FS_Union
<1>5. Cardinality({}) = 0
    BY FS_EmptySet
<1>6. Cardinality(A) = Cardinality(A \ B) + Cardinality(B) - Cardinality({})
    BY <1>3, <1>4, Zenon
<1> QED
    BY <1>1, <1>2, <1>5, <1>6

(* Two sets of files that differ in f at most. *)
LEMMA OneFile ==
  ASSUME NEW A \in SUBSET Files, NEW B \in SUBSET Files, NEW f \in Files,
         A \ {f} = B \ {f}
  PROVE  /\ Cardinality(A) \in Nat /\ Cardinality(B) \in Nat
         /\ Cardinality(B) = Cardinality(A) + (IF f \in B THEN 1 ELSE 0)
                                            - (IF f \in A THEN 1 ELSE 0)
<1>1. IsFiniteSet(Files)
    BY FileHistoryAssumption
<1>2. ASSUME NEW C \in SUBSET Files
      PROVE  /\ Cardinality(C) \in Nat /\ Cardinality(C \ {f}) \in Nat
             /\ Cardinality(C) = Cardinality(C \ {f}) + (IF f \in C THEN 1 ELSE 0)
  <2>1. IsFiniteSet(C)
      BY <1>1, FS_Subset
  <2>2. CASE f \in C
    <3>1. /\ Cardinality({f}) = 1 /\ Cardinality(C \ {f}) \in Nat
          /\ Cardinality(C) = Cardinality(C \ {f}) + Cardinality({f})
        BY <2>1, <2>2, PartsOfASet, FS_Singleton
    <3> QED
        BY <2>2, <3>1
  <2>3. CASE f \notin C
    <3>1. C \ {f} = C /\ Cardinality(C) \in Nat
        BY <2>1, <2>3, FS_CardinalityType
    <3> QED
        BY <2>3, <3>1
  <2> QED
      BY <2>2, <2>3
<1>3. /\ Cardinality(A) \in Nat /\ Cardinality(A \ {f}) \in Nat
      /\ Cardinality(A) = Cardinality(A \ {f}) + (IF f \in A THEN 1 ELSE 0)
    BY <1>2
<1>4. /\ Cardinality(B) \in Nat
      /\ Cardinality(B) = Cardinality(A \ {f}) + (IF f \in B THEN 1 ELSE 0)
    BY <1>2
<1> QED
    BY <1>3, <1>4

(* A set of files that loses, or gains, some others. *)
LEMMA SomeFiles ==
  ASSUME NEW A \in SUBSET Files, NEW B \in SUBSET A
  PROVE  /\ Cardinality(A) \in Nat /\ Cardinality(B) \in Nat /\ Cardinality(A \ B) \in Nat
         /\ Cardinality(A) = Cardinality(A \ B) + Cardinality(B)
<1>1. IsFiniteSet(A)
    BY FileHistoryAssumption, FS_Subset
<1> QED
    BY <1>1, PartsOfASet, FS_CardinalityType

-----------------------------------------------------------------------------
(* What applying a plan does to the change sets *)

LEMMA Marks ==
  /\ Unused # Pending /\ Unused # Removed /\ Pending # Removed
  /\ Unused \in ChangeSet /\ Pending \in ChangeSet /\ Removed \in ChangeSet
<1>1. Unused.op = "unused" /\ Pending.op = "pending" /\ Removed.op = "removed"
    BY DEF Unused, Pending, Removed
<1>2. Unused # Pending /\ Unused # Removed /\ Pending # Removed
    BY <1>1
<1> QED
    BY <1>2 DEF ChangeSet

Operations == {"move", "delete", "restore", "rollback"}

LEMMA ApplyToSets ==
  ASSUME TypeOK, Slots, split' \in BOOLEAN, NEW p, Apply(p),
         p.op \in Operations, p.target \in Nodes, p.items \in SUBSET Here,
         p.rows \in [Nodes -> Row], p.texts \in [Files -> Texts], p.delta \in Int
  PROVE  /\ NextSet \in Free /\ NextSet \in Sets /\ NextSet # 0
         /\ \A c \in Kept : c # NextSet /\ c < NextSet
         /\ node' = p.rows /\ text' = p.texts /\ stats' = stats + p.delta
         /\ Kept' = Kept \union {NextSet}
         /\ \A c \in Kept : set'[c] = set[c]
         /\ set'[NextSet] = Recorded(p)
         /\ TypeOK' /\ Slots'
<1>1. NextSet \in Free /\ \A c \in Free : NextSet <= c
  <2>1. Free \in SUBSET Nat /\ Free # {}
      BY Kinds DEF Free, Apply
  <2> QED
      BY <2>1, Least DEF NextSet
<1>2. NextSet \in Sets /\ NextSet \in Nat \ {0} /\ set[NextSet] = Unused
    BY <1>1, Kinds DEF Free, Sets
<1>3. Recorded(p) \in ChangeSet /\ Recorded(p) \notin {Unused, Pending, Removed}
  <2>1. [n \in p.items |-> SnapshotOf(node[n])] \in [p.items -> Snapshot]
    <3>1. ASSUME NEW n \in p.items PROVE SnapshotOf(node[n]) \in Snapshot
      <4>1. n \in Here
          OBVIOUS
      <4>2. /\ node[n].parent \in Parents /\ node[n].name \in Names
            /\ node[n].path \in Paths
          BY <4>1, RowsOfTheTree DEF TypeOK
      <4> QED
          BY <4>2 DEF SnapshotOf, Snapshot
    <3> QED
        BY <3>1
  <2>2. p.items \in SUBSET Nodes
      BY DEF Here
  <2> DEFINE changed == {g \in Files : p.texts[g] # text[g]}
  <2>3. [f \in changed |-> text[f]] \in [changed -> Texts] /\ changed \in SUBSET Files
      BY DEF TypeOK
  <2> HIDE DEF changed
  <2>4. Recorded(p) = [op |-> p.op, target |-> p.target,
                       before |-> [n \in p.items |-> SnapshotOf(node[n])],
                       textBefore |-> [f \in changed |-> text[f]]]
      BY DEF Recorded, changed
  <2>5. Recorded(p) \in ChangeSet
      BY <2>1, <2>2, <2>3, <2>4 DEF ChangeSet, Operations, Texts
  <2>6. Recorded(p).op \in Operations
      BY <2>4
  <2> QED
      BY <2>5, <2>6 DEF Operations, Unused, Pending, Removed
<1>4. set' = [set EXCEPT ![NextSet] = Recorded(p)] /\ set \in [Sets -> ChangeSet]
    BY DEF Apply, TypeOK
<1>5. /\ set' \in [Sets -> ChangeSet] /\ set'[NextSet] = Recorded(p)
      /\ \A c \in Sets : c # NextSet => set'[c] = set[c]
    BY <1>2, <1>3, <1>4
<1>6. \A c \in Kept : c \in Sets /\ c # NextSet /\ c < NextSet
  <2>1. ASSUME NEW c \in Kept PROVE c \in Sets /\ c # NextSet /\ c < NextSet
    <3>1. c \in Sets /\ c \notin Free /\ c \in Nat
        BY Kinds DEF Kept, Free
    <3>2. ~(c > NextSet)
        BY <1>1, <3>1 DEF Slots
    <3> QED
        BY <1>1, <1>2, <3>1, <3>2
  <2> QED
      BY <2>1
<1>7. Kept' = Kept \union {NextSet}
    BY <1>2, <1>3, <1>5 DEF Kept
<1>8. Free' = Free \ {NextSet}
    BY <1>2, <1>3, <1>5 DEF Free
<1>9. Slots'
  <2> SUFFICES ASSUME NEW c \in Free', NEW d \in Sets, d > c PROVE d \in Free'
      BY DEF Slots
  <2>1. c \in Free /\ c \in Nat /\ d \in Nat /\ NextSet <= c
      BY <1>1, <1>8, Kinds DEF Free
  <2>2. d \in Free
      BY <2>1 DEF Slots
  <2> QED
      BY <1>2, <1>8, <2>1, <2>2
<1>10. TypeOK'
  <2>1. /\ node' \in [Nodes -> Row] /\ text' \in [Files -> Texts]
        /\ stats' \in Int /\ upload' = upload /\ elapsed' = elapsed
      BY DEF Apply, Counted, TypeOK
  <2>2. ASSUME upload # NoUpload PROVE set'[upload.slot] = Pending
    <3>1. upload.slot \in Sets /\ set[upload.slot] = Pending
        BY <2>2 DEF TypeOK
    <3>2. upload.slot # NextSet
        BY <1>2, <3>1, Marks
    <3> QED
        BY <1>5, <3>1, <3>2
  <2> QED
      BY <1>5, <2>1, <2>2 DEF TypeOK
<1> QED
    BY <1>1, <1>2, <1>5, <1>6, <1>7, <1>9, <1>10 DEF Apply, Counted

-----------------------------------------------------------------------------
(* Conjuncts that most operations do not disturb *)

LEMMA PlacedStays ==
  ASSUME node \in [Nodes -> Row], Placed, Here' = Here,
         \A n \in Here : /\ node'[n].parent = node[n].parent
                         /\ node'[n].name = node[n].name
                         /\ node'[n].path = node[n].path
  PROVE  Placed'
<1>1. ASSUME NEW n \in Here PROVE node'[n].parent # Root => node'[n].parent \in Here'
    BY DEF Placed
<1>2. ASSUME NEW n \in Here, n \in Folders
      PROVE  node'[n].path = Join(node[n].parent, node[n].name)'
  <2>1. node[n].path = Join(node[n].parent, node[n].name)
      BY <1>2 DEF Placed
  <2>2. CASE node[n].parent = Root
      BY <2>1, <2>2 DEF Join
  <2>3. CASE node[n].parent # Root
    <3>1. node[n].parent \in Here
        BY <2>3 DEF Placed
    <3> QED
        BY <2>1, <2>3, <3>1 DEF Join
  <2> QED
      BY <2>2, <2>3
<1> QED
    BY <1>1, <1>2 DEF Placed

(* No row is newly deleted, and the operations that hold rows stay. *)
StillHeld ==
  /\ \A c \in Kept : c \in Kept' /\ set'[c] = set[c]
  /\ \A n \in Here' : ~Active(n)' =>
       /\ n \in Here /\ ~Active(n)
       /\ node'[n].owner = node[n].owner

LEMMA OwnedStays ==
  ASSUME Owned, StillHeld
  PROVE  Owned'
BY DEF Owned, StillHeld

LEMMA NestedStays ==
  ASSUME node \in [Nodes -> Row], Placed, Nested, Owned, StillHeld, ~split' => ~split,
         ~split' => \A n \in Here' : ~Active(n)' =>
           /\ node'[n].parent = node[n].parent
           /\ \A m \in Here \intersect Folders :
                node[m].owner = node[n].owner => node'[m].owner = node[m].owner
  PROVE  Nested'
<1> SUFFICES ASSUME ~split', NEW n \in Here', ~Active(n)'
             PROVE  \/ n = set'[node'[n].owner].target
                    \/ /\ node'[n].parent # Root
                       /\ node'[node'[n].parent].owner = node'[n].owner
    BY DEF Nested
<1>1. n \in Here /\ ~Active(n) /\ node'[n].owner = node[n].owner
    BY DEF StillHeld
<1>2. node[n].owner \in Kept /\ set'[node[n].owner] = set[node[n].owner]
    BY <1>1 DEF Owned, StillHeld
<1>3. CASE n = set[node[n].owner].target
    BY <1>1, <1>2, <1>3
<1>4. CASE n # set[node[n].owner].target
  <2>1. /\ node[n].parent # Root /\ node[n].parent \in Here \intersect Folders
        /\ node[node[n].parent].owner = node[n].owner
      BY <1>1, <1>4, ParentInOperation
  <2> QED
      BY <1>1, <2>1
<1> QED
    BY <1>3, <1>4

-----------------------------------------------------------------------------
(* Files: move, rename and rollback *)

(* f with its new parent, name and path. *)
Rewritten(f, dest, name, path) ==
  [node EXCEPT ![f].parent = dest, ![f].name = name, ![f].path = path]

LEMMA RewrittenRows ==
  ASSUME node \in [Nodes -> Row], NEW f \in Here, NEW dest \in Parents,
         NEW name \in Names, NEW path \in Paths
  PROVE  LET rows == Rewritten(f, dest, name, path)
         IN /\ rows \in [Nodes -> Row]
            /\ \A n \in Nodes : n # f => rows[n] = node[n]
            /\ rows[f].state = "here" /\ rows[f].owner = node[f].owner
            /\ rows[f].parent = dest /\ rows[f].name = name /\ rows[f].path = path
<1> DEFINE row == [node[f] EXCEPT !.parent = dest, !.name = name, !.path = path]
<1>1. /\ f \in Nodes
      /\ node[f] \in [state: {"here"}, parent: Parents, name: Names, path: Paths,
                      owner: 0..MaxSets]
    BY RowsOfTheTree
<1>2. /\ row \in [state: {"here"}, parent: Parents, name: Names, path: Paths,
                  owner: 0..MaxSets]
      /\ row.state = "here" /\ row.owner = node[f].owner
      /\ row.parent = dest /\ row.name = name /\ row.path = path
    BY <1>1
<1>3. row \in Row
    BY <1>2 DEF Row
<1>4. Rewritten(f, dest, name, path) = [node EXCEPT ![f] = row]
    BY <1>1 DEF Rewritten
<1> HIDE DEF row
<1> QED
    BY <1>1, <1>2, <1>3, <1>4

LEMMA FileRewritten ==
  ASSUME IInv, NEW f \in Files, Active(f),
         NEW dest \in Parents, ActiveOr(dest), NEW name \in Names, NEW path \in Paths,
         path \in ActivePaths(Files) => path = node[f].path,
         NEW p, Apply(p), split' = split,
         p.op \in Operations, p.target = f, p.items \in SUBSET {f},
         p.rows = Rewritten(f, dest, name, path),
         p.texts \in [Files -> Texts], \A g \in Files : g # f => p.texts[g] = text[g],
         p.delta = Weight(p.texts[f]) - Weight(text[f])
  PROVE  IInv'
<1>1. f \in Here /\ f \in Nodes /\ node[f].owner = 0 /\ node \in [Nodes -> Row]
    BY Kinds DEF Active, IInv, TypeOK
<1>2. /\ p.rows \in [Nodes -> Row]
      /\ \A n \in Nodes : n # f => p.rows[n] = node[n]
      /\ p.rows[f].state = "here" /\ p.rows[f].owner = 0
      /\ p.rows[f].parent = dest /\ p.rows[f].name = name /\ p.rows[f].path = path
    BY <1>1, RewrittenRows
<1>3. p.delta \in Int /\ p.items \in SUBSET Here /\ split' \in BOOLEAN
    BY <1>1 DEF Weight, IInv, TypeOK
<1>4. /\ node' = p.rows /\ text' = p.texts /\ stats' = stats + p.delta
      /\ Kept' = Kept \union {NextSet} /\ \A c \in Kept : set'[c] = set[c]
      /\ TypeOK' /\ Slots'
    BY <1>1, <1>2, <1>3, ApplyToSets DEF IInv
<1>5. /\ \A n \in Nodes : n # f => node'[n] = node[n]
      /\ node'[f].state = "here" /\ node'[f].owner = 0
      /\ node'[f].parent = dest /\ node'[f].name = name /\ node'[f].path = path
    BY <1>2, <1>4
<1>6. Here' = Here /\ \A n \in Nodes : Active(n)' <=> Active(n)
    BY <1>1, <1>5 DEF Here, Active
<1>7. \A d \in Parents : ActiveOr(d)' <=> ActiveOr(d)
    BY <1>6 DEF ActiveOr, Parents, Nodes
<1>8. Placed'
  <2>1. ASSUME NEW n \in Here PROVE node'[n].parent # Root => node'[n].parent \in Here
    <3>1. CASE n = f
        BY <1>5, <3>1 DEF ActiveOr, Active
    <3>2. CASE n # f
        BY <1>5, <3>2 DEF IInv, Placed, Here
    <3> QED
        BY <3>1, <3>2
  <2>2. ASSUME NEW n \in Here, n \in Folders
        PROVE  node'[n].path = Join(node[n].parent, node[n].name)' /\ n # f
    <3>1. n # f /\ n \in Nodes /\ node[n].path = Join(node[n].parent, node[n].name)
        BY <2>2, Kinds DEF IInv, Placed
    <3>2. node'[n] = node[n]
        BY <1>5, <3>1
    <3>3. CASE node[n].parent = Root
        BY <3>1, <3>2, <3>3 DEF Join
    <3>4. CASE node[n].parent # Root
      <4>1. node[n].parent \in Folders /\ node[n].parent \in Nodes
          BY <1>1, <3>4, ParentOfRow, Kinds DEF IInv
      <4>2. node'[node[n].parent] = node[node[n].parent]
          BY <1>5, <4>1, Kinds
      <4> QED
          BY <3>1, <3>2, <3>4, <4>2 DEF Join
    <3> QED
        BY <3>1, <3>3, <3>4
  <2> QED
      BY <1>6, <2>1, <2>2 DEF Placed
<1>9. Sheltered'
  <2> SUFFICES ASSUME ~split, NEW n \in Nodes, Active(n)
               PROVE  ActiveOr(node[n].parent)'
      BY <1>6 DEF Sheltered
  <2>1. CASE n = f
      BY <1>5, <1>7, <2>1
  <2>2. CASE n # f
    <3>1. ActiveOr(node[n].parent) /\ n \in Here
        BY DEF IInv, Sheltered, Active
    <3>2. node[n].parent \in Parents
        BY <1>1, <3>1, RowsOfTheTree
    <3>3. node'[n].parent = node[n].parent
        BY <1>5, <2>2
    <3>4. \/ node[n].parent = Root
          \/ node[n].parent \in Here' /\ node'[node[n].parent].owner = 0
        BY <1>7, <3>1, <3>2 DEF ActiveOr, Active
    <3> QED
        BY <3>3, <3>4 DEF ActiveOr, Active
  <2> QED
      BY <2>1, <2>2
<1>10. StillHeld
  <2>1. ASSUME NEW n \in Here', ~Active(n)'
        PROVE  n \in Here /\ ~Active(n) /\ node'[n].owner = node[n].owner
      BY <1>1, <1>5, <1>6, <2>1 DEF Here
  <2> QED
      BY <1>4, <2>1 DEF StillHeld
<1>11. Owned'
    BY <1>10, OwnedStays DEF IInv
<1>12. Nested'
  <2>1. ASSUME NEW n \in Here', ~Active(n)' PROVE node'[n].parent = node[n].parent
    <3>1. n # f /\ n \in Nodes
        BY <1>1, <1>5, <1>6, <2>1 DEF Here, Active
    <3> QED
        BY <1>5, <3>1
  <2>2. \A m \in Here \intersect Folders : node'[m].owner = node[m].owner
      BY <1>5, Kinds DEF Here
  <2> QED
      BY <1>1, <1>10, <2>1, <2>2, NestedStays DEF IInv
<1>13. Distinct'
  <2> SUFFICES ASSUME ~split, NEW kind \in {Folders, Files},
                      NEW m \in kind \intersect Here, NEW n \in kind \intersect Here,
                      node'[m].owner = node'[n].owner, node'[m].path = node'[n].path
               PROVE  m = n
      BY <1>6 DEF Distinct
  <2>1. m \in Nodes /\ n \in Nodes
      BY DEF Here
  <2>2. CASE m # f /\ n # f
      BY <1>5, <2>1, <2>2 DEF IInv, Distinct
  <2>3. ASSUME NEW x \in Files, x \in Here, x # f, node'[x].owner = 0, node'[x].path = path
        PROVE  FALSE
    <3>1. Active(x) /\ node[x].path = path
        BY <1>5, <2>3, Kinds DEF Active
    <3>2. path \in ActivePaths(Files)
        BY <2>3, <3>1 DEF ActivePaths
    <3>3. node[x].path = node[f].path /\ node[x].owner = node[f].owner
        BY <1>1, <3>1, <3>2 DEF Active
    <3> QED
        BY <1>1, <2>3, <3>3 DEF IInv, Distinct
  <2>4. CASE m = f
      BY <1>5, <2>3, <2>4, Kinds
  <2>5. CASE n = f
      BY <1>5, <2>3, <2>5, Kinds
  <2> QED
      BY <2>2, <2>4, <2>5
<1>14. Accounted'
  <2>1. Visible \ {f} = Visible' \ {f}
      BY <1>4, <1>6, Kinds DEF Visible
  <2>2. (f \in Visible <=> text[f] = "live") /\ (f \in Visible' <=> text'[f] = "live")
      BY <1>6, Kinds DEF Visible
  <2>3. /\ Cardinality(Visible) \in Nat /\ Cardinality(Visible') \in Nat
        /\ Cardinality(Visible') = Cardinality(Visible)
             + (IF f \in Visible' THEN 1 ELSE 0) - (IF f \in Visible THEN 1 ELSE 0)
      BY <2>1, OneFile DEF Visible
  <2>4. stats' = stats + (IF f \in Visible' THEN 1 ELSE 0) - (IF f \in Visible THEN 1 ELSE 0)
    <3>1. stats' = stats + (Weight(text'[f]) - Weight(text[f])) /\ stats \in Int
        BY <1>4 DEF IInv, TypeOK
    <3> QED
        BY <2>2, <3>1 DEF Weight
  <2> QED
      BY <2>3, <2>4 DEF IInv, Accounted
<1>15. Blanks'
    BY <1>1, <1>4, <1>6 DEF IInv, Blanks
<1> QED
    BY <1>4, <1>8, <1>9, <1>11, <1>12, <1>13, <1>14, <1>15 DEF IInv

LEMMA MoveFileStep ==
  ASSUME IInv, NEW f \in Files, NEW dest \in Parents, NEW name \in Names,
         MoveFile(f, dest, name)
  PROVE  IInv'
<1> DEFINE p == FileMove(f, dest, name)
<1>1. /\ p.op = "move" /\ p.target = f /\ p.items = {f} /\ p.texts = text /\ p.delta = 0
      /\ p.rows = Rewritten(f, dest, name, Join(dest, name))
    BY DEF FileMove, Plan, Rewritten
<1>2. /\ Active(f) /\ ActiveOr(dest) /\ Join(dest, name) \in Paths
      /\ Join(dest, name) \in ActivePaths(Files) => Join(dest, name) = node[f].path
      /\ Apply(p) /\ split' = split
    BY DEF MoveFile, FileMoveAllowed
<1> HIDE DEF p
<1>3. /\ p.texts \in [Files -> Texts] /\ \A g \in Files : g # f => p.texts[g] = text[g]
      /\ p.delta = Weight(p.texts[f]) - Weight(text[f])
    BY <1>1 DEF IInv, TypeOK, Weight
<1>4. p.op \in Operations /\ p.items \in SUBSET {f}
    BY <1>1 DEF Operations
<1> QED
    BY <1>1, <1>2, <1>3, <1>4, FileRewritten

(* What a kept change set says of rows and entries is a snapshot. *)
LEMMA KeptTyped ==
  ASSUME set \in [Sets -> ChangeSet], NEW c \in Kept
  PROVE  /\ c \in Sets /\ set[c].target \in Nodes
         /\ \A n \in DOMAIN set[c].before : set[c].before[n] \in Snapshot
         /\ \A f \in DOMAIN set[c].textBefore : set[c].textBefore[f] \in Texts
BY DEF Kept, ChangeSet, Texts

LEMMA LeastSet ==
  ASSUME NEW S \in SUBSET Kept, S # {}
  PROVE  Min(S) \in S /\ \A c \in S : Min(S) <= c
BY Kinds, Least DEF Kept

LEMMA StructureTyped ==
  ASSUME TypeOK, NEW n \in Here, NEW c \in Sets
  PROVE  Structure(n, c) \in Snapshot
<1>1. CASE LaterItems(n, c) = {}
  <2>1. /\ node[n].parent \in Parents /\ node[n].name \in Names /\ node[n].path \in Paths
      BY RowsOfTheTree DEF TypeOK
  <2> QED
      BY <1>1, <2>1 DEF Structure, SnapshotOf, Snapshot
<1>2. CASE LaterItems(n, c) # {}
  <2>1. LaterItems(n, c) \in SUBSET Kept
      BY DEF LaterItems
  <2>2. Min(LaterItems(n, c)) \in LaterItems(n, c)
      BY <1>2, <2>1, LeastSet
  <2>3. /\ Min(LaterItems(n, c)) \in Kept
        /\ n \in DOMAIN set[Min(LaterItems(n, c))].before
      BY <2>2 DEF LaterItems
  <2> QED
      BY <1>2, <2>3, KeptTyped DEF Structure, TypeOK
<1> QED
    BY <1>1, <1>2

LEMMA TextTyped ==
  ASSUME TypeOK, NEW f \in Files, NEW c \in Sets
  PROVE  Text(f, c) \in Texts /\ Reverted(f, c) \in Texts
<1> DEFINE later == {d \in Kept : d > c /\ f \in DOMAIN set[d].textBefore}
<1>1. CASE later = {}
    BY <1>1 DEF Text, Reverted, TypeOK, Texts
<1>2. CASE later # {}
  <2>1. Min(later) \in later
      BY <1>2, LeastSet
  <2>2. set[Min(later)].textBefore[f] \in Texts
      BY <2>1, KeptTyped DEF TypeOK
  <2> QED
      BY <1>2, <2>2 DEF Text, Reverted, Texts
<1> QED
    BY <1>1, <1>2

LEMMA RollbackFileStep ==
  ASSUME IInv, NEW f \in Files, NEW c \in Sets, RollbackFile(f, c)
  PROVE  IInv'
<1> DEFINE target == Structure(f, c)
           p == FileReversion(f, c)
<1>1. /\ Active(f) /\ f \in Here /\ ActiveOr(target.parent) /\ Apply(p) /\ split' = split
      /\ target.path \in ActivePaths(Files) => target.path = node[f].path
    BY DEF RollbackFile, Active
<1>2. target.parent \in Parents /\ target.name \in Names /\ target.path \in Paths
    BY <1>1, StructureTyped DEF Snapshot, IInv
<1>3. /\ p.op = "rollback" /\ p.target = f /\ p.items \in SUBSET {f}
      /\ p.rows = Rewritten(f, target.parent, target.name, target.path)
      /\ p.texts = [text EXCEPT ![f] = Reverted(f, c)]
      /\ p.delta = Weight(p.texts[f]) - Weight(text[f])
    BY DEF FileReversion, Plan, Rewritten
<1>4. Reverted(f, c) \in Texts
    BY TextTyped DEF IInv
<1>5. p.texts \in [Files -> Texts] /\ \A g \in Files : g # f => p.texts[g] = text[g]
    BY <1>3, <1>4 DEF IInv, TypeOK
<1> HIDE DEF p, target
<1>6. p.op \in Operations
    BY <1>3 DEF Operations
<1>7. PICK dest \in Parents, name \in Names, path \in Paths :
        /\ ActiveOr(dest)
        /\ path \in ActivePaths(Files) => path = node[f].path
        /\ p.rows = Rewritten(f, dest, name, path)
    BY <1>1, <1>2, <1>3
<1>8. /\ p.target = f /\ p.items \in SUBSET {f} /\ Active(f) /\ Apply(p) /\ split' = split
      /\ p.delta = Weight(p.texts[f]) - Weight(text[f])
    BY <1>1, <1>3
<1> QED
    BY <1>5, <1>6, <1>7, <1>8, FileRewritten

-----------------------------------------------------------------------------
(* Folders: move, rename and rollback *)

(* What a move changes: the row of d, and the paths of the rows below d. *)
LEMMA MovedRows ==
  ASSUME IInv, NEW d \in Folders, Active(d), NEW dest \in Parents, NEW name \in Names,
         FolderMoveAllowed(d, dest, name)
  PROVE  LET rows == MovedTree(d, dest, name)
             old == node[d].path
             new == Join(dest, name)
         IN /\ rows \in [Nodes -> Row]
            /\ \A n \in Nodes : n \notin Subtree(d) => rows[n] = node[n]
            /\ \A n \in Subtree(d) : /\ n \in Here
                                     /\ rows[n].state = "here"
                                     /\ rows[n].owner = node[n].owner
                                     /\ rows[n].path \in Paths
            /\ rows[d].parent = dest /\ rows[d].name = name /\ rows[d].path = new
            /\ \A n \in Subtree(d) : n # d =>
                 /\ rows[n].parent = node[n].parent /\ rows[n].name = node[n].name
                 /\ rows[n].path = Replaced(node[n].path, old, new)
                 /\ Descends(node[n].path, old)
            /\ old \in Seq(Names) /\ new \in Seq(Names)
            /\ \A n \in Here : node[n].path \in Seq(Names)
<1> DEFINE rows == MovedTree(d, dest, name)
           old == node[d].path
           new == Join(dest, name)
           rowD == [node[d] EXCEPT !.parent = dest, !.name = name, !.path = new]
           rowOf(n) == [node[n] EXCEPT !.path = Replaced(@, old, new)]
           AnyRow == [state: {"here"}, parent: Parents, name: Names, path: Paths,
                      owner: 0..MaxSets]
<1>1. node \in [Nodes -> Row] /\ Placed /\ d \in Here \intersect Folders
    BY DEF IInv, TypeOK, Active
<1>2. /\ Subtree(d) \subseteq Here /\ d \in Subtree(d)
      /\ \A n \in Subtree(d) : n \in Nodes /\ node[n] \in AnyRow
    BY <1>1, SubtreeStep, RowsOfTheTree
<1>3. /\ WellFormed(d)
      /\ \A n \in Subtree(d) : rows[n].path \in Paths
    BY DEF FolderMoveAllowed
<1>4. /\ rows[d] = rowD
      /\ \A n \in Subtree(d) : n # d => rows[n] = rowOf(n)
      /\ \A n \in Nodes : n \notin Subtree(d) => rows[n] = node[n]
    BY <1>2 DEF MovedTree
<1>5. /\ rowD.state = "here" /\ rowD.owner = node[d].owner /\ rowD.parent = dest
      /\ rowD.name = name /\ rowD.path = new
    BY <1>2
<1>6. rowD \in AnyRow
  <2>1. new \in Paths
    <3>1. rows[d].path \in Paths
        BY <1>2, <1>3
    <3> QED
        BY ONLY <1>4, <1>5, <3>1
  <2> QED
      BY <1>2, <2>1
<1>7. ASSUME NEW n \in Subtree(d), n # d
      PROVE  /\ rows[n].state = "here" /\ rows[n].owner = node[n].owner
             /\ rows[n].parent = node[n].parent /\ rows[n].name = node[n].name
             /\ rows[n].path = Replaced(node[n].path, old, new)
             /\ rows[n] \in AnyRow
  <2>1. node[n] \in AnyRow /\ rows[n] = rowOf(n)
      BY <1>2, <1>4, <1>7
  <2>2. /\ rowOf(n).state = "here" /\ rowOf(n).owner = node[n].owner
        /\ rowOf(n).parent = node[n].parent /\ rowOf(n).name = node[n].name
        /\ rowOf(n).path = Replaced(node[n].path, old, new)
      BY <2>1
  <2>3. Replaced(node[n].path, old, new) \in Paths
      BY <1>3, <2>1, <2>2
  <2>4. rowOf(n) \in AnyRow
      BY <2>1, <2>3
  <2> QED
      BY <2>1, <2>2, <2>4
<1>8. \A n \in Here : node[n].path \in Seq(Names)
    BY <1>1, RowsOfTheTree, PathsAreSequences
<1>9. new \in Seq(Names) /\ old \in Seq(Names)
    BY <1>1, <1>2, <1>3, <1>4, <1>5, <1>8, PathsAreSequences
<1>10. rows \in [Nodes -> Row]
  <2>1. \A n \in Nodes : rows[n] \in Row
    <3> SUFFICES ASSUME NEW n \in Nodes PROVE rows[n] \in Row
        OBVIOUS
    <3>1. CASE n = d
        BY <1>4, <1>6, <3>1 DEF Row
    <3>2. CASE n \in Subtree(d) /\ n # d
        BY <1>7, <3>2 DEF Row
    <3>3. CASE n \notin Subtree(d)
        BY <1>1, <1>4, <3>3
    <3> QED
        BY <3>1, <3>2, <3>3
  <2> HIDE DEF rows
  <2>2. rows = [n \in Nodes |-> rows[n]]
      BY DEF rows, MovedTree
  <2> QED
      BY <2>1, <2>2
<1>11. \A n \in Subtree(d) : n # d => Descends(node[n].path, old)
    BY <1>3 DEF WellFormed
<1>12. /\ rows[d].state = "here" /\ rows[d].owner = node[d].owner /\ rows[d].parent = dest
       /\ rows[d].name = name /\ rows[d].path = new
    BY <1>4, <1>5
<1> HIDE DEF rows, old, new
<1>13. \A n \in Subtree(d) : /\ n \in Here
                             /\ rows[n].state = "here"
                             /\ rows[n].owner = node[n].owner
                             /\ rows[n].path \in Paths
    BY <1>2, <1>3, <1>7, <1>12
<1>14. \A n \in Nodes : n \notin Subtree(d) => rows[n] = node[n]
    BY <1>4
<1> QED
    BY <1>7, <1>8, <1>9, <1>10, <1>11, <1>12, <1>13, <1>14 DEF rows, old, new

(* The new paths are the paths of no other row that is active, or that the
   same operation holds. *)
LEMMA MovedApart ==
  ASSUME IInv, ~split, NEW d \in Folders, Active(d),
         NEW dest \in Parents, ActiveOr(dest), NEW name \in Names,
         FolderMoveAllowed(d, dest, name),
         NEW kind \in {Folders, Files}, NEW m \in kind, NEW n \in kind,
         m \in Subtree(d), n \in Here, n \notin Subtree(d),
         node[m].owner = node[n].owner
  PROVE  MovedTree(d, dest, name)[m].path # node[n].path
<1> DEFINE rows == MovedTree(d, dest, name)
           old == node[d].path
           new == Join(dest, name)
<1> SUFFICES ASSUME rows[m].path = node[n].path PROVE FALSE
    OBVIOUS
<1>1. /\ node \in [Nodes -> Row] /\ Placed /\ Sheltered /\ Nested /\ Distinct
      /\ d \in Here \intersect Folders
    BY DEF IInv, TypeOK, Active
<1>2. /\ \A x \in Subtree(d) : x \in Here
      /\ \A x \in Subtree(d) : x # d => /\ rows[x].path = Replaced(node[x].path, old, new)
                                        /\ Descends(node[x].path, old)
      /\ rows[d].path = new
      /\ old \in Seq(Names) /\ new \in Seq(Names)
      /\ \A x \in Here : node[x].path \in Seq(Names)
    BY MovedRows
<1>3. /\ dest # Root => node[dest].path # old /\ ~Descends(node[dest].path, old)
      /\ \A k \in {Folders, Files} : \A x \in Subtree(d) \intersect k :
           rows[x].path \notin ActivePaths(k) \ {node[y].path : y \in Subtree(d) \intersect k}
    BY DEF FolderMoveAllowed
<1>4. m \in Here /\ d \in Subtree(d)
    BY <1>1, <1>2, SubtreeStep
<1> HIDE DEF rows, old
<1>5. node[m].owner = 0
  <2>1. m \in Subtree(d)
      OBVIOUS
  <2> QED
      BY <1>1, <1>4, <2>1, OneOperation
<1>6. PICK y \in Subtree(d) \intersect kind : node[y].path = rows[m].path
  <2>1. rows[m].path \in ActivePaths(kind)
      BY <1>5 DEF ActivePaths, Active
  <2> QED
      BY <1>3, <2>1
<1>7. PICK t \in Seq(Names) : node[y].path = old \o t
  <2>1. CASE y = d
    <3>1. node[y].path = old \o <<>> /\ <<>> \in Seq(Names)
        BY <1>2, <2>1, ConcatEmptySeq, EmptySeq DEF old
    <3> QED
        BY <3>1
  <2>2. CASE y # d
    <3>1. y \in Here /\ node[y].path \in Seq(Names) /\ Descends(node[y].path, old)
        BY <1>2, <2>2
    <3>2. old \in Seq(Names)
        BY <1>2
    <3>3. Rest(node[y].path, old) \in Seq(Names)
          /\ node[y].path = old \o Rest(node[y].path, old)
        BY ONLY <3>1, <3>2, DescendsIsConcat
    <3> QED
        BY ONLY <3>3
  <2> QED
      BY <2>1, <2>2
<1>8. PICK u \in Seq(Names) : rows[m].path = new \o u
  <2>1. CASE m = d
      BY <1>2, <2>1, ConcatEmptySeq, EmptySeq
  <2>2. CASE m # d
    <3>1. rows[m].path = new \o Rest(node[m].path, old)
        BY <1>2, <2>2, ReplacedIsConcat
    <3>2. Rest(node[m].path, old) \in Seq(Names)
        BY <1>2, <1>4, <2>2, DescendsIsConcat
    <3> QED
        BY <3>1, <3>2
  <2> QED
      BY <2>1, <2>2
<1>9. old \o t = new \o u
    BY <1>6, <1>7, <1>8
<1>10. CASE old = new
  <2>1. rows[m].path = node[m].path
    <3>1. CASE m = d
        BY <1>2, <1>10, <3>1 DEF old
    <3>2. CASE m # d
      <4>1. rows[m].path = new \o Rest(node[m].path, old)
          BY <1>2, <3>2, ReplacedIsConcat
      <4>2. node[m].path = old \o Rest(node[m].path, old)
          BY <1>2, <1>4, <3>2, DescendsIsConcat
      <4> QED
          BY <1>10, <4>1, <4>2
    <3> QED
        BY <3>1, <3>2
  <2> QED
      BY <1>1, <1>4, <2>1 DEF Distinct
<1>11. CASE Descends(new, old)
  <2>1. ASSUME dest = Root PROVE FALSE
    <3>1. Len(new) = 1
        BY <2>1, Single DEF Join
    <3>2. Len(old) \in Nat \ {0}
        BY <1>1, RowsOfTheTree, PathsAreSequences DEF old
    <3>3. Len(new) > Len(old)
        BY <1>11 DEF Descends
    <3> QED
        BY <3>1, <3>2, <3>3
  <2>2. dest \in Here /\ new = Append(node[dest].path, name)
      BY <2>1 DEF Join, ActiveOr, Active
  <2>3. node[dest].path = old \/ Descends(node[dest].path, old)
      BY <1>2, <1>11, <2>2, AppendBelow
  <2> QED
      BY <1>3, <2>1, <2>3
<1>12. CASE Descends(old, new)
  <2>1. new # <<>>
    <3>1. CASE dest = Root
        BY <3>1, Single DEF Join
    <3>2. CASE dest # Root
      <4>1. dest \in Here /\ new = Append(node[dest].path, name)
          BY <3>2 DEF Join, ActiveOr, Active
      <4> QED
          BY <1>2, <4>1, AppendProperties
    <3> QED
        BY <3>1, <3>2
  <2>2. \E e \in Folders : Active(e) /\ node[e].path = new
      BY <1>1, <1>2, <1>12, <2>1, AncestorAt DEF old
  <2>3. rows[d].path \in ActivePaths(Folders)
      BY <1>2, <2>2 DEF ActivePaths
  <2>4. PICK z \in Subtree(d) \intersect Folders : node[z].path = new
    <3>1. d \in Subtree(d) \intersect Folders
        BY <1>4
    <3>2. rows[d].path \in {node[x].path : x \in Subtree(d) \intersect Folders}
        BY <1>3, <2>3, <3>1
    <3> QED
        BY <1>2, <3>2
  <2>5. Len(node[z].path) >= Len(old)
    <3>1. Len(old) \in Nat /\ Len(node[z].path) \in Nat
        BY <1>2, LenProperties
    <3>2. CASE z = d
        BY <3>1, <3>2 DEF old
    <3>3. CASE z # d
        BY <1>2, <3>1, <3>3 DEF Descends
    <3> QED
        BY <3>2, <3>3
  <2>6. Len(old) > Len(new) /\ Len(old) \in Nat /\ Len(new) \in Nat
      BY <1>2, <1>12, LenProperties DEF Descends
  <2> QED
      BY <2>4, <2>5, <2>6
<1> HIDE DEF new
<1> QED
    BY <1>2, <1>7, <1>8, <1>9, <1>10, <1>11, <1>12, Comparable

LEMMA TreeMoved ==
  ASSUME IInv, NEW d \in Folders, Active(d),
         NEW dest \in Parents, ActiveOr(dest), NEW name \in Names,
         FolderMoveAllowed(d, dest, name), NEW op \in Operations, split' = split,
         Apply(Plan(op, d, Subtree(d), MovedTree(d, dest, name), text, 0))
  PROVE  IInv'
<1> DEFINE rows == MovedTree(d, dest, name)
           old == node[d].path
           new == Join(dest, name)
           p == Plan(op, d, Subtree(d), rows, text, 0)
<1>1. /\ node \in [Nodes -> Row] /\ Placed /\ d \in Here \intersect Folders
      /\ d \in Nodes /\ node[d].owner = 0
    BY DEF IInv, TypeOK, Active, Here
<1>2. /\ rows \in [Nodes -> Row]
      /\ \A n \in Nodes : n \notin Subtree(d) => rows[n] = node[n]
      /\ \A n \in Subtree(d) : /\ n \in Here
                               /\ rows[n].state = "here"
                               /\ rows[n].owner = node[n].owner
      /\ rows[d].parent = dest /\ rows[d].name = name /\ rows[d].path = new
      /\ \A n \in Subtree(d) : n # d =>
           /\ rows[n].parent = node[n].parent /\ rows[n].name = node[n].name
           /\ rows[n].path = Replaced(node[n].path, old, new)
           /\ Descends(node[n].path, old)
      /\ old \in Seq(Names) /\ new \in Seq(Names)
      /\ \A n \in Here : node[n].path \in Seq(Names)
    BY MovedRows
<1>3. /\ p.op = op /\ p.target = d /\ p.items = Subtree(d) /\ p.rows = rows
      /\ p.texts = text /\ p.delta = 0
    BY DEF Plan
<1> HIDE DEF p, rows
<1>4. /\ node' = rows /\ text' = text /\ stats' = stats
      /\ Kept' = Kept \union {NextSet} /\ \A c \in Kept : set'[c] = set[c]
      /\ TypeOK' /\ Slots'
  <2>1. p.items \in SUBSET Here
      BY <1>2, <1>3
  <2>2. /\ TypeOK /\ Slots /\ split' \in BOOLEAN /\ stats \in Int
        /\ text \in [Files -> Texts]
      BY DEF IInv, TypeOK
  <2>3. Apply(p) /\ p.delta \in Int
      BY <1>3 DEF p, rows
  <2>4. /\ node' = p.rows /\ text' = p.texts /\ stats' = stats + p.delta
        /\ Kept' = Kept \union {NextSet} /\ \A c \in Kept : set'[c] = set[c]
        /\ TypeOK' /\ Slots'
      BY <1>1, <1>2, <1>3, <2>1, <2>2, <2>3, ApplyToSets
  <2> QED
      BY <1>3, <2>2, <2>4
<1>5. \A n \in Here : /\ node'[n].state = "here" /\ node'[n].owner = node[n].owner
                      /\ n # d => /\ node'[n].parent = node[n].parent
                                  /\ node'[n].name = node[n].name
    BY <1>2, <1>4 DEF Here
<1>6. Here' = Here /\ \A n \in Nodes : Active(n)' <=> Active(n)
  <2>1. \A n \in Nodes : n \notin Here => node'[n] = node[n]
      BY <1>2, <1>4
  <2> QED
      BY <1>5, <2>1 DEF Here, Active
<1>7. \A x \in Parents : ActiveOr(x)' <=> ActiveOr(x)
    BY <1>6 DEF ActiveOr, Parents, Nodes
<1>8. /\ d \in Subtree(d)
      /\ \A n \in Here : n \in Subtree(d) <=>
           n = d \/ (node[n].parent # Root /\ node[n].parent \in Subtree(d))
    BY <1>1, SubtreeStep
<1>9. dest # Root => dest \in Here /\ dest \notin Subtree(d)
  <2> SUFFICES ASSUME dest # Root, dest \in Subtree(d) PROVE FALSE
      BY DEF ActiveOr, Active
  <2>1. node[dest].path # old /\ ~Descends(node[dest].path, old)
      BY DEF FolderMoveAllowed
  <2>2. dest = d \/ Descends(node[dest].path, old)
      BY <1>2
  <2> QED
      BY <2>1, <2>2
<1>10. Placed'
  <2>1. ASSUME NEW n \in Here PROVE node'[n].parent # Root => node'[n].parent \in Here
    <3>1. CASE n = d
        BY <1>2, <1>4, <1>9, <3>1
    <3>2. CASE n # d
        BY <1>1, <1>5, <3>2 DEF Placed
    <3> QED
        BY <3>1, <3>2
  <2>2. ASSUME NEW n \in Here, n \in Folders
        PROVE  node'[n].path = IF node'[n].parent = Root THEN <<node'[n].name>>
                               ELSE Append(node'[node'[n].parent].path, node'[n].name)
    <3>1. n \in Nodes /\ node[n].path = Join(node[n].parent, node[n].name)
        BY <1>1, <2>2 DEF Placed, Here
    <3>2. CASE n = d
      <4>1. node'[n].path = new /\ node'[n].parent = dest /\ node'[n].name = name
          BY <1>2, <1>4, <3>2
      <4>2. dest # Root => node'[dest] = node[dest]
          BY <1>2, <1>4, <1>9 DEF Here
      <4> QED
          BY <4>1, <4>2 DEF Join
    <3>3. CASE n # d /\ node[n].parent = Root
      <4>1. n \notin Subtree(d) /\ node'[n] = node[n]
          BY <1>2, <1>4, <1>8, <3>1, <3>3
      <4> QED
          BY <3>1, <3>3, <4>1 DEF Join
    <3>4. CASE n # d /\ node[n].parent # Root
      <4> DEFINE q == node[n].parent
      <4>1. /\ q \in Here \intersect Folders /\ q \in Nodes
            /\ node[n].path = Append(node[q].path, node[n].name)
          BY <1>1, <2>2, <3>4, PathOfFolder DEF Here
      <4>2. node'[n].parent = q /\ node'[n].name = node[n].name /\ node[n].name \in Names
          BY <1>1, <1>5, <3>4, RowsOfTheTree
      <4>3. CASE n \notin Subtree(d)
        <5>1. q \notin Subtree(d)
            BY <1>8, <3>4, <4>3
        <5>2. node'[q] = node[q] /\ node'[n] = node[n]
            BY <1>2, <1>4, <3>1, <4>1, <4>3, <5>1
        <5> QED
            BY <3>4, <4>1, <4>2, <5>2
      <4>4. CASE n \in Subtree(d)
        <5>1. q \in Subtree(d)
            BY <1>8, <3>4, <4>4
        <5>2. node'[n].path = Replaced(Append(node[q].path, node[n].name), old, new)
            BY <1>2, <1>4, <3>4, <4>1, <4>4
        <5>3. node[q].path \in Seq(Names) /\ old \in Seq(Names) /\ new \in Seq(Names)
            BY <1>2, <4>1
        <5>4. CASE q = d
          <6>1. node'[n].path = Append(new, node[n].name)
              BY <4>2, <5>2, <5>3, <5>4, AppendReplaced
          <6>2. node'[q].path = new
              BY <1>2, <1>4, <5>4
          <6> QED
              BY <3>4, <4>2, <6>1, <6>2
        <5>5. CASE q # d
          <6>1. /\ Descends(node[q].path, old)
                /\ node'[q].path = Replaced(node[q].path, old, new)
              BY <1>2, <1>4, <5>1, <5>5
          <6>2. Replaced(Append(node[q].path, node[n].name), old, new)
                  = Append(Replaced(node[q].path, old, new), node[n].name)
              BY ONLY <4>2, <5>3, <6>1, AppendReplaced
          <6>3. node'[n].path = Append(Replaced(node[q].path, old, new), node[n].name)
              BY ONLY <5>2, <6>2
          <6> QED
              BY <3>4, <4>2, <6>1, <6>3
        <5> QED
            BY <5>4, <5>5
      <4> QED
          BY <4>3, <4>4
    <3> QED
        BY <3>2, <3>3, <3>4
  <2> QED
      BY <1>6, <2>1, <2>2 DEF Placed, Join
<1>11. Sheltered'
  <2> SUFFICES ASSUME ~split, NEW n \in Nodes, Active(n)
               PROVE  ActiveOr(node[n].parent)'
      BY <1>6 DEF Sheltered
  <2>1. n \in Here /\ ActiveOr(node[n].parent) /\ node[n].parent \in Parents
      BY <1>1, RowsOfTheTree DEF Active, IInv, Sheltered
  <2>2. \E x \in Parents : x = node'[n].parent /\ ActiveOr(x)'
    <3>1. CASE n = d
        BY <1>2, <1>4, <1>7, <3>1
    <3>2. CASE n # d
        BY <1>5, <1>7, <2>1, <3>2
    <3> QED
        BY <3>1, <3>2
  <2> QED
      BY <2>2 DEF ActiveOr, Active
<1>12. StillHeld
    BY <1>4, <1>5, <1>6 DEF StillHeld, Here
<1>13. Owned'
    BY <1>12, OwnedStays DEF IInv
<1>14. Nested'
  <2>1. ASSUME NEW n \in Here', ~Active(n)' PROVE node'[n].parent = node[n].parent
      BY <1>1, <1>5, <1>6, <2>1 DEF Here, Active
  <2>2. \A m \in Here : node'[m].owner = node[m].owner
      BY <1>5
  <2> QED
      BY <1>1, <1>12, <2>1, <2>2, NestedStays DEF IInv
<1>15. Distinct'
  <2> SUFFICES ASSUME ~split, NEW kind \in {Folders, Files},
                      NEW m \in kind \intersect Here, NEW n \in kind \intersect Here,
                      node'[m].owner = node'[n].owner, node'[m].path = node'[n].path
               PROVE  m = n
      BY <1>6 DEF Distinct
  <2>1. node[m].owner = node[n].owner /\ m \in Nodes /\ n \in Nodes
      BY <1>5 DEF Here
  <2>2. Distinct /\ ActiveOr(dest)
      BY DEF IInv
  <2>3. CASE m \notin Subtree(d) /\ n \notin Subtree(d)
      BY <1>2, <1>4, <2>1, <2>2, <2>3 DEF Distinct
  <2>4. CASE m \in Subtree(d) /\ n \notin Subtree(d)
    <3>1. rows[m].path # node[n].path
        BY <2>1, <2>4, MovedApart DEF rows
    <3> QED
        BY <1>2, <1>4, <2>1, <2>4, <3>1
  <2>5. CASE m \notin Subtree(d) /\ n \in Subtree(d)
    <3>1. rows[n].path # node[m].path
        BY <2>1, <2>5, MovedApart DEF rows
    <3> QED
        BY <1>2, <1>4, <2>1, <2>5, <3>1
  <2>6. CASE m \in Subtree(d) /\ n \in Subtree(d)
    <3>1. ASSUME NEW x \in Subtree(d), x # d PROVE rows[x].path # new
      <4>1. rows[x].path = Replaced(node[x].path, old, new) /\ node[x].path \in Seq(Names)
            /\ Descends(node[x].path, old)
          BY <1>2, <3>1
      <4>2. /\ Rest(node[x].path, old) \in Seq(Names) /\ Rest(node[x].path, old) # <<>>
            /\ rows[x].path = new \o Rest(node[x].path, old)
          BY <1>2, <4>1, DescendsIsConcat, ReplacedIsConcat
      <4> QED
          BY <1>2, <4>2, ConcatEqualIffEmpty
    <3>2. CASE m = d
        BY <1>2, <1>4, <2>6, <3>1, <3>2
    <3>3. CASE n = d
        BY <1>2, <1>4, <2>6, <3>1, <3>3
    <3>4. CASE m # d /\ n # d
      <4>1. /\ Descends(node[m].path, old) /\ Descends(node[n].path, old)
            /\ Replaced(node[m].path, old, new) = Replaced(node[n].path, old, new)
          BY <1>2, <1>4, <2>6, <3>4
      <4>2. node[m].path = node[n].path
          BY <1>2, <4>1, ReplacedInjective
      <4> QED
          BY <2>1, <2>2, <4>2 DEF Distinct
    <3> QED
        BY <3>2, <3>3, <3>4
  <2> QED
      BY <2>3, <2>4, <2>5, <2>6
<1>16. Accounted'
  <2>1. Visible' = Visible
      BY <1>4, <1>6, Kinds DEF Visible
  <2> QED
      BY <1>4, <2>1 DEF IInv, Accounted
<1>17. Blanks'
    BY <1>4, <1>6 DEF IInv, Blanks
<1> QED
    BY <1>4, <1>10, <1>11, <1>13, <1>14, <1>15, <1>16, <1>17 DEF IInv

LEMMA MoveFolderStep ==
  ASSUME IInv, NEW d \in Folders, NEW dest \in Parents, NEW name \in Names,
         MoveFolder(d, dest, name)
  PROVE  IInv'
BY TreeMoved DEF MoveFolder, Operations

LEMMA RollbackFolderStep ==
  ASSUME IInv, NEW d \in Folders, NEW c \in Sets, RollbackFolder(d, c)
  PROVE  IInv'
<1> DEFINE target == Structure(d, c)
<1>1. /\ Active(d) /\ d \in Here /\ ActiveOr(target.parent) /\ split' = split
      /\ FolderMoveAllowed(d, target.parent, target.name)
      /\ Apply(Plan("rollback", d, Subtree(d), MovedTree(d, target.parent, target.name),
                    text, 0))
    BY DEF RollbackFolder, FolderReversion, Active
<1>2. target.parent \in Parents /\ target.name \in Names
    BY <1>1, StructureTyped DEF Snapshot, IInv
<1> HIDE DEF target
<1>3. "rollback" \in Operations
    BY DEF Operations
<1> QED
    BY <1>1, <1>2, <1>3, TreeMoved

-----------------------------------------------------------------------------
(* Deletion *)

LEMMA MarkedRows ==
  ASSUME node \in [Nodes -> Row], NEW N \in SUBSET Here, NEW op \in 0..MaxSets
  PROVE  LET rows == Marked(N, op)
         IN /\ rows \in [Nodes -> Row]
            /\ \A n \in Nodes : n \notin N => rows[n] = node[n]
            /\ \A n \in N : /\ rows[n].state = "here" /\ rows[n].owner = op
                            /\ rows[n].parent = node[n].parent
                            /\ rows[n].name = node[n].name
                            /\ rows[n].path = node[n].path
<1> DEFINE row(n) == [node[n] EXCEPT !.owner = op]
           AnyRow == [state: {"here"}, parent: Parents, name: Names, path: Paths,
                      owner: 0..MaxSets]
<1>1. ASSUME NEW n \in N
      PROVE  /\ row(n) \in Row
             /\ row(n).state = "here" /\ row(n).owner = op
             /\ row(n).parent = node[n].parent /\ row(n).name = node[n].name
             /\ row(n).path = node[n].path
  <2>1. node[n] \in AnyRow
      BY RowsOfTheTree
  <2>2. row(n) \in AnyRow
      BY <2>1
  <2> QED
      BY <2>1, <2>2 DEF Row
<1>2. /\ \A n \in N : n \in Nodes /\ Marked(N, op)[n] = row(n)
      /\ \A n \in Nodes : n \notin N => Marked(N, op)[n] = node[n]
    BY DEF Marked, Here
<1> HIDE DEF row
<1>3. \A n \in Nodes : Marked(N, op)[n] \in Row
    BY <1>1, <1>2
<1>4. Marked(N, op) = [n \in Nodes |-> Marked(N, op)[n]]
    BY DEF Marked
<1>5. Marked(N, op) \in [Nodes -> Row]
    BY <1>3, <1>4
<1> QED
    BY <1>1, <1>2, <1>5

(* Only the owners of some rows change. *)
LEMMA OwnersOnly ==
  ASSUME node \in [Nodes -> Row], Placed, NEW N \in SUBSET Here, NEW op \in 0..MaxSets,
         node' = Marked(N, op)
  PROVE  /\ Here' = Here /\ Placed'
         /\ \A n \in Here : /\ node'[n].state = "here"
                            /\ node'[n].parent = node[n].parent
                            /\ node'[n].name = node[n].name
                            /\ node'[n].path = node[n].path
                            /\ node'[n].owner = IF n \in N THEN op ELSE node[n].owner
         /\ \A n \in Nodes : Active(n)' <=> n \in Here /\ node'[n].owner = 0
<1>1. /\ \A n \in Nodes : n \notin N => node'[n] = node[n]
      /\ \A n \in N : /\ node'[n].state = "here" /\ node'[n].owner = op
                      /\ node'[n].parent = node[n].parent
                      /\ node'[n].name = node[n].name
                      /\ node'[n].path = node[n].path
  <2>1. /\ \A n \in Nodes : n \notin N => Marked(N, op)[n] = node[n]
        /\ \A n \in N : /\ Marked(N, op)[n].state = "here" /\ Marked(N, op)[n].owner = op
                        /\ Marked(N, op)[n].parent = node[n].parent
                        /\ Marked(N, op)[n].name = node[n].name
                        /\ Marked(N, op)[n].path = node[n].path
      BY MarkedRows
  <2>2. node' = Marked(N, op)
      OBVIOUS
  <2> QED
      BY ONLY <2>1, <2>2
<1>2. Here' = Here
    BY <1>1 DEF Here
<1>3. \A n \in Here : /\ node'[n].state = "here"
                      /\ node'[n].parent = node[n].parent
                      /\ node'[n].name = node[n].name
                      /\ node'[n].path = node[n].path
                      /\ node'[n].owner = IF n \in N THEN op ELSE node[n].owner
    BY <1>1 DEF Here
<1>4. Placed'
    BY <1>2, <1>3, PlacedStays
<1>5. \A n \in Nodes : Active(n)' <=> n \in Here /\ node'[n].owner = 0
    BY <1>2 DEF Active
<1> QED
    BY <1>2, <1>3, <1>4, <1>5

LEMMA Deletion ==
  ASSUME IInv, NEW N \in SUBSET Nodes, NEW d \in N, \A n \in N : Active(n),
         ~split => \A n \in Here : Active(n) /\ node[n].parent \in N => n \in N,
         ~split => \A n \in N : n # d => node[n].parent \in N,
         NEW p, Apply(p), split' = split,
         p.op = "delete", p.target = d, p.items = N, p.texts = text,
         p.rows = Marked(N, NextSet),
         p.delta = -Cardinality({f \in N \intersect Files : text[f] = "live"})
  PROVE  IInv'
<1> DEFINE e == NextSet
           Gone == {f \in N \intersect Files : text[f] = "live"}
<1>1. /\ node \in [Nodes -> Row] /\ Placed /\ N \subseteq Here /\ d \in Nodes
      /\ \A n \in N : node[n].owner = 0
    BY DEF IInv, TypeOK, Active
<1>2. e \in Free /\ e \in Sets /\ e \in 0..MaxSets
  <2>1. Free \in SUBSET Nat /\ Free # {}
      BY Kinds DEF Free, Apply
  <2>2. e \in Free
      BY <2>1, Least DEF NextSet
  <2> QED
      BY <2>2, Kinds DEF Free, Sets
<1>3. Gone \subseteq Visible /\ Visible \subseteq Files
    BY DEF Visible
<1>4. /\ Cardinality(Visible) \in Nat /\ Cardinality(Gone) \in Nat
      /\ Cardinality(Visible \ Gone) \in Nat
      /\ Cardinality(Visible) = Cardinality(Visible \ Gone) + Cardinality(Gone)
    BY <1>3, SomeFiles
<1>5. p.delta = -Cardinality(Gone) /\ p.delta \in Int
    BY <1>4
<1> HIDE DEF Gone
<1>6. /\ e # 0 /\ node' = p.rows /\ text' = p.texts /\ stats' = stats + p.delta
      /\ \A c \in Kept : c # e
      /\ Kept' = Kept \union {e} /\ \A c \in Kept : set'[c] = set[c]
      /\ set'[e] = Recorded(p) /\ TypeOK' /\ Slots'
  <2>1. /\ p.items \in SUBSET Here /\ p.rows \in [Nodes -> Row]
        /\ p.op \in Operations /\ p.target \in Nodes
    <3>1. N \in SUBSET Here
        BY <1>1
    <3>2. Marked(N, e) \in [Nodes -> Row]
        BY <1>1, <1>2, <3>1, MarkedRows
    <3> QED
        BY <1>1, <3>1, <3>2 DEF Operations
  <2>2. TypeOK /\ Slots /\ split' \in BOOLEAN /\ p.texts \in [Files -> Texts]
      BY DEF IInv, TypeOK
  <2> QED
      BY <1>5, <2>1, <2>2, ApplyToSets
<1> HIDE DEF e
<1>7. /\ Here' = Here /\ Placed'
      /\ \A n \in Here : /\ node'[n].state = "here"
                         /\ node'[n].parent = node[n].parent
                         /\ node'[n].path = node[n].path
                         /\ node'[n].owner = IF n \in N THEN e ELSE node[n].owner
      /\ \A n \in Nodes : Active(n)' <=> n \in Here /\ node'[n].owner = 0
  <2>1. node' = Marked(N, e)
      BY <1>6 DEF e
  <2> QED
      BY <1>1, <1>2, <2>1, OwnersOnly
<1>8. \A n \in Nodes : Active(n)' <=> Active(n) /\ n \notin N
    BY <1>6, <1>7 DEF Active
<1>9. /\ set'[e].op = "delete" /\ set'[e].target = d /\ DOMAIN set'[e].before = N
    BY <1>6 DEF Recorded
<1>10. Sheltered'
  <2> SUFFICES ASSUME ~split, NEW n \in Nodes, Active(n), n \notin N
               PROVE  ActiveOr(node[n].parent)'
      BY <1>8 DEF Sheltered
  <2>1. n \in Here /\ ActiveOr(node[n].parent) /\ node[n].parent \notin N
      BY DEF Active, IInv, Sheltered
  <2>2. node[n].parent \in Parents /\ node'[n].parent = node[n].parent
      BY <1>1, <1>7, <2>1, RowsOfTheTree
  <2>3. node[n].parent = Root \/ (node[n].parent \in Nodes /\ Active(node[n].parent))
      BY <2>1, <2>2 DEF ActiveOr, Parents, Nodes
  <2>4. \E x \in Parents : x = node'[n].parent /\ (x = Root \/ Active(x)')
      BY <1>8, <2>1, <2>2, <2>3
  <2> QED
      BY <2>4 DEF ActiveOr, Active
<1>11. Owned'
  <2> SUFFICES ASSUME NEW n \in Here, ~Active(n)'
               PROVE  /\ node'[n].owner \in Kept'
                      /\ set'[node'[n].owner].op = "delete"
                      /\ n \in DOMAIN set'[node'[n].owner].before
      BY <1>7 DEF Owned
  <2>1. CASE n \in N
      BY <1>6, <1>7, <1>9, <2>1
  <2>2. CASE n \notin N
    <3>1. ~Active(n) /\ node'[n].owner = node[n].owner
        BY <1>7, <1>8, <2>2 DEF Here
    <3>2. /\ node[n].owner \in Kept /\ set[node[n].owner].op = "delete"
          /\ n \in DOMAIN set[node[n].owner].before
        BY <3>1 DEF IInv, Owned
    <3> QED
        BY <1>6, <3>1, <3>2
  <2> QED
      BY <2>1, <2>2
<1>12. Nested'
  <2> SUFFICES ASSUME ~split, NEW n \in Here, ~Active(n)'
               PROVE  \/ n = set'[node'[n].owner].target
                      \/ /\ node'[n].parent # Root
                         /\ node'[node'[n].parent].owner = node'[n].owner
      BY <1>7 DEF Nested
  <2>1. CASE n \in N
    <3>1. CASE n = d
        BY <1>7, <1>9, <2>1, <3>1
    <3>2. CASE n # d
      <4>1. node[n].parent \in N /\ node[n].parent \in Here /\ node[n].parent # Root
          BY <1>1, <2>1, <3>2, Kinds
      <4> QED
          BY <1>7, <2>1, <4>1
    <3> QED
        BY <3>1, <3>2
  <2>2. CASE n \notin N
    <3>1. ~Active(n) /\ node'[n].owner = node[n].owner /\ node'[n].parent = node[n].parent
        BY <1>7, <1>8, <2>2 DEF Here
    <3>2. node[n].owner \in Kept /\ set'[node[n].owner] = set[node[n].owner]
        BY <1>6, <3>1 DEF IInv, Owned
    <3>3. CASE n = set[node[n].owner].target
        BY <3>1, <3>2, <3>3
    <3>4. CASE n # set[node[n].owner].target
      <4>1. /\ node[n].parent # Root /\ node[n].parent \in Here /\ ~Active(node[n].parent)
            /\ node[node[n].parent].owner = node[n].owner
          BY <1>1, <3>1, <3>4, ParentInOperation DEF IInv
      <4>2. node[n].parent \notin N
          BY <4>1
      <4> QED
          BY <1>7, <3>1, <4>1, <4>2
    <3> QED
        BY <3>3, <3>4
  <2> QED
      BY <2>1, <2>2
<1>13. Distinct'
  <2> SUFFICES ASSUME ~split, NEW kind \in {Folders, Files},
                      NEW m \in kind \intersect Here, NEW n \in kind \intersect Here,
                      node'[m].owner = node'[n].owner, node'[m].path = node'[n].path
               PROVE  m = n
      BY <1>7 DEF Distinct
  <2>1. \A x \in Here : node[x].owner # e
    <3>1. ASSUME NEW x \in Here PROVE node[x].owner # e
      <4>1. CASE Active(x)
          BY <1>6, <4>1 DEF Active
      <4>2. CASE ~Active(x)
          BY <1>6, <3>1, <4>2 DEF IInv, Owned
      <4> QED
          BY <4>1, <4>2
    <3> QED
        BY <3>1
  <2>2. node[m].owner = node[n].owner /\ node[m].path = node[n].path
      BY <1>1, <1>7, <2>1
  <2> QED
      BY <2>2 DEF IInv, Distinct
<1>14. Accounted'
  <2>1. Visible' = Visible \ Gone
      BY <1>6, <1>8, Kinds DEF Visible, Gone
  <2>2. stats' = stats - Cardinality(Gone) /\ stats \in Int
      BY <1>4, <1>5, <1>6 DEF IInv, TypeOK
  <2> QED
      BY <1>4, <2>1, <2>2 DEF IInv, Accounted
<1>15. Blanks'
    BY <1>6, <1>7 DEF IInv, Blanks
<1> QED
    BY <1>6, <1>7, <1>10, <1>11, <1>12, <1>13, <1>14, <1>15 DEF IInv

LEMMA DeleteFileStep ==
  ASSUME IInv, NEW f \in Files, DeleteFile(f)
  PROVE  IInv'
<1> DEFINE p == FileDeletion(f)
<1>1. /\ Active(f) /\ f \in Nodes /\ Apply(p) /\ split' = split
    BY Kinds DEF DeleteFile
<1>2. /\ p.op = "delete" /\ p.target = f /\ p.items = {f} /\ p.texts = text
      /\ p.rows = Marked({f}, NextSet) /\ p.delta = -Weight(text[f])
    BY DEF FileDeletion, Plan
<1> HIDE DEF p
<1>3. p.delta = -Cardinality({g \in {f} \intersect Files : text[g] = "live"})
  <2>1. CASE text[f] = "live"
    <3>1. {g \in {f} \intersect Files : text[g] = "live"} = {f}
        BY <2>1
    <3>2. Cardinality({f}) = 1
        BY FS_Singleton
    <3> QED
        BY <1>2, <2>1, <3>1, <3>2 DEF Weight
  <2>2. CASE text[f] # "live"
    <3>1. {g \in {f} \intersect Files : text[g] = "live"} = {}
        BY <2>2
    <3>2. Cardinality({}) = 0
        BY FS_EmptySet
    <3> QED
        BY <1>2, <2>2, <3>1, <3>2 DEF Weight
  <2> QED
      BY <2>1, <2>2
<1>4. \A n \in Here : node[n].parent # f
    BY RowsOfTheTree, Kinds DEF IInv, TypeOK, Parents
<1>5. /\ {f} \in SUBSET Nodes /\ f \in {f} /\ \A n \in {f} : Active(n)
      /\ ~split => \A n \in Here : Active(n) /\ node[n].parent \in {f} => n \in {f}
      /\ ~split => \A n \in {f} : n # f => node[n].parent \in {f}
    BY <1>1, <1>4
<1> QED
    BY <1>1, <1>2, <1>3, <1>5, Deletion

LEMMA DeleteFolderStep ==
  ASSUME IInv, NEW d \in Folders, DeleteFolder(d)
  PROVE  IInv'
<1> DEFINE p == FolderDeletion(d)
           N == Doomed(d)
<1>1. /\ Active(d) /\ d \in Here /\ Apply(p) /\ split' = split
    BY DEF DeleteFolder, Active
<1>2. /\ p.op = "delete" /\ p.target = d /\ p.items = N /\ p.texts = text
      /\ p.rows = Marked(N, NextSet)
      /\ p.delta = -Cardinality({f \in N \intersect Files : text[f] = "live"})
    BY DEF FolderDeletion, Plan, Total
<1> HIDE DEF p
<1>3. node \in [Nodes -> Row] /\ Placed
    BY DEF IInv, TypeOK
<1>4. /\ d \in Subtree(d) /\ Subtree(d) \subseteq Here
      /\ \A n \in Here : n \in Subtree(d) <=>
              n = d \/ (node[n].parent # Root /\ node[n].parent \in Subtree(d))
    BY <1>1, <1>3, SubtreeStep
<1>5. N \in SUBSET Nodes /\ d \in N /\ \A n \in N : Active(n)
    BY <1>1, <1>4 DEF Doomed, Here
<1>6. ASSUME NEW n \in Here, Active(n), node[n].parent \in N PROVE n \in N
  <2>1. node[n].parent # Root
      BY <1>5, <1>6, Kinds
  <2> QED
      BY <1>4, <1>6, <2>1 DEF Doomed
<1>7. ASSUME ~split, NEW n \in N, n # d PROVE node[n].parent \in N
  <2>1. n \in Here /\ Active(n) /\ node[n].parent # Root /\ node[n].parent \in Subtree(d)
      BY <1>4, <1>7 DEF Doomed
  <2>2. Active(node[n].parent)
      BY <1>7, <2>1 DEF IInv, Sheltered, ActiveOr, Here
  <2> QED
      BY <2>1, <2>2 DEF Doomed
<1> HIDE DEF N
<1> QED
    BY <1>1, <1>2, <1>5, <1>6, <1>7, Deletion

-----------------------------------------------------------------------------
(* Restoration *)

LEMMA Restoration ==
  ASSUME IInv, NEW N \in SUBSET Here, \A n \in N : ~Active(n),
         \A m, n \in N : node[m].owner = node[n].owner,
         split' \in BOOLEAN, ~split' => ~split,
         ~split' => \A n \in N : ActiveOr(node[n].parent) \/ node[n].parent \in N,
         ~split' => \A n \in Here : ~Active(n) /\ n \notin N =>
           \A m \in N \intersect Folders : node[m].owner # node[n].owner,
         \A kind \in {Folders, Files} : \A n \in N \intersect kind :
           node[n].path \notin ActivePaths(kind),
         NEW p, Apply(p), p.op = "restore", p.target \in Nodes, p.items = N,
         p.texts = text, p.rows = Marked(N, 0), p.delta \in Int,
         ~split' => p.delta = Cardinality({f \in N \intersect Files : text[f] = "live"})
  PROVE  IInv'
<1> DEFINE Back == {f \in N \intersect Files : text[f] = "live"}
<1>1. node \in [Nodes -> Row] /\ Placed /\ 0 \in 0..MaxSets
    BY Kinds DEF IInv, TypeOK
<1>2. /\ node' = Marked(N, 0) /\ text' = text /\ stats' = stats + p.delta
      /\ Kept' = Kept \union {NextSet} /\ \A c \in Kept : set'[c] = set[c]
      /\ TypeOK' /\ Slots'
  <2>1. p.rows \in [Nodes -> Row]
    <3>1. Marked(N, 0) \in [Nodes -> Row]
        BY <1>1, MarkedRows
    <3> QED
        BY <3>1
  <2>2. TypeOK /\ Slots /\ p.texts \in [Files -> Texts] /\ p.op \in Operations
      BY DEF IInv, TypeOK, Operations
  <2>3. /\ node' = p.rows /\ text' = p.texts /\ stats' = stats + p.delta
        /\ Kept' = Kept \union {NextSet} /\ \A c \in Kept : set'[c] = set[c]
        /\ TypeOK' /\ Slots'
      BY <2>1, <2>2, ApplyToSets
  <2> QED
      BY <2>3
<1>3. /\ Here' = Here /\ Placed'
      /\ \A n \in Here : /\ node'[n].parent = node[n].parent
                         /\ node'[n].path = node[n].path
                         /\ node'[n].owner = IF n \in N THEN 0 ELSE node[n].owner
      /\ \A n \in Nodes : Active(n)' <=> n \in Here /\ node'[n].owner = 0
  <2>1. node \in [Nodes -> Row] /\ Placed /\ N \in SUBSET Here /\ 0 \in 0..MaxSets
        /\ node' = Marked(N, 0)
      BY <1>1, <1>2
  <2>2. /\ Here' = Here /\ Placed'
        /\ \A n \in Here : /\ node'[n].state = "here"
                           /\ node'[n].parent = node[n].parent
                           /\ node'[n].name = node[n].name
                           /\ node'[n].path = node[n].path
                           /\ node'[n].owner = IF n \in N THEN 0 ELSE node[n].owner
        /\ \A n \in Nodes : Active(n)' <=> n \in Here /\ node'[n].owner = 0
      BY ONLY <2>1, OwnersOnly
  <2> QED
      BY ONLY <2>2
<1>4. \A n \in Nodes : Active(n)' <=> Active(n) \/ n \in N
    BY <1>3 DEF Active
<1>5. Sheltered'
  <2> SUFFICES ASSUME ~split', NEW n \in Nodes, Active(n)'
               PROVE  ActiveOr(node[n].parent)'
      BY DEF Sheltered
  <2>1. n \in Here /\ (ActiveOr(node[n].parent) \/ node[n].parent \in N)
    <3>1. CASE n \in N
        BY <3>1
    <3>2. CASE n \notin N
        BY <1>4, <3>2 DEF Active, IInv, Sheltered
    <3> QED
        BY <3>1, <3>2
  <2>2. node[n].parent \in Parents /\ node'[n].parent = node[n].parent
      BY <1>1, <1>3, <2>1, RowsOfTheTree
  <2>3. \/ node[n].parent = Root
        \/ node[n].parent \in Nodes /\ (Active(node[n].parent) \/ node[n].parent \in N)
      BY <2>1, <2>2 DEF ActiveOr, Parents, Nodes, Here
  <2>4. \E x \in Parents : x = node'[n].parent /\ (x = Root \/ Active(x)')
      BY <1>4, <2>2, <2>3
  <2> QED
      BY <2>4 DEF ActiveOr, Active
<1>6. StillHeld
  <2>1. ASSUME NEW n \in Here', ~Active(n)'
        PROVE  n \in Here /\ ~Active(n) /\ n \notin N /\ node'[n].owner = node[n].owner
      BY <1>3, <1>4, <2>1 DEF Here
  <2> QED
      BY <1>2, <2>1 DEF StillHeld
<1>7. Owned'
    BY <1>6, OwnedStays DEF IInv
<1>8. Nested'
  <2>1. ASSUME ~split', NEW n \in Here', ~Active(n)'
        PROVE  /\ node'[n].parent = node[n].parent
               /\ \A m \in Here \intersect Folders :
                    node[m].owner = node[n].owner => node'[m].owner = node[m].owner
    <3>1. n \in Here /\ ~Active(n) /\ n \notin N
        BY <1>3, <1>4, <2>1 DEF Here
    <3>2. \A m \in N \intersect Folders : node[m].owner # node[n].owner
        BY <2>1, <3>1
    <3> QED
        BY <1>3, <3>1, <3>2
  <2>2. Nested /\ Owned
      BY DEF IInv
  <2> QED
      BY <1>1, <1>6, <2>1, <2>2, NestedStays
<1>9. Distinct'
  <2> SUFFICES ASSUME ~split, NEW kind \in {Folders, Files},
                      NEW m \in kind \intersect Here, NEW n \in kind \intersect Here,
                      node'[m].owner = node'[n].owner, node[m].path = node[n].path
               PROVE  m = n
      BY <1>3 DEF Distinct
  <2>1. Distinct
      BY DEF IInv
  <2>2. CASE m \in N <=> n \in N
    <3>1. node[m].owner = node[n].owner
        BY <1>3, <2>2
    <3> QED
        BY <2>1, <3>1 DEF Distinct
  <2>3. ASSUME NEW x \in kind \intersect N, NEW y \in kind \intersect Here, y \notin N,
               node[y].owner = 0
        PROVE  node[x].path # node[y].path
    <3>1. node[y].path \in ActivePaths(kind)
        BY <2>3 DEF ActivePaths, Active
    <3> QED
        BY <3>1
  <2>4. CASE m \in N /\ n \notin N
      BY <1>3, <2>3, <2>4
  <2>5. CASE m \notin N /\ n \in N
      BY <1>3, <2>3, <2>5
  <2> QED
      BY <2>2, <2>4, <2>5
<1>10. Accounted'
  <2> SUFFICES ASSUME ~split' PROVE stats' = Cardinality(Visible')
      BY DEF Accounted
  <2>1. Visible' = Visible \union Back /\ Visible = Visible' \ Back
    <3>1. \A f \in Files : Active(f)' <=> Active(f) \/ f \in N
        BY ONLY <1>4 DEF Nodes
    <3>2. \A f \in N : ~Active(f)
        OBVIOUS
    <3> QED
        BY ONLY <1>2, <3>1, <3>2 DEF Visible
  <2>2. Back \subseteq Visible' /\ Visible' \subseteq Files
      BY <2>1 DEF Visible
  <2>3. /\ Cardinality(Visible') \in Nat /\ Cardinality(Back) \in Nat
        /\ Cardinality(Visible' \ Back) \in Nat
        /\ Cardinality(Visible') = Cardinality(Visible' \ Back) + Cardinality(Back)
      BY ONLY <2>2, SomeFiles
  <2>4. stats = Cardinality(Visible) /\ stats' = stats + Cardinality(Back)
      BY <1>2 DEF IInv, Accounted
  <2>5. Cardinality(Visible) = Cardinality(Visible' \ Back)
      BY <2>1
  <2> QED
      BY <2>3, <2>4, <2>5
<1>11. Blanks'
    BY <1>2, <1>3 DEF IInv, Blanks
<1> QED
    BY <1>2, <1>3, <1>5, <1>7, <1>8, <1>9, <1>10, <1>11 DEF IInv

LEMMA RestoreFileStep ==
  ASSUME IInv, NEW f \in Files, RestoreFile(f)
  PROVE  IInv'
<1> DEFINE p == Plan("restore", f, {f}, Marked({f}, 0), text, Weight(text[f]))
<1>1. /\ f \in Here /\ ~Active(f) /\ Apply(p) /\ split' = split
      /\ node[f].path \notin ActivePaths(Files) /\ ChainActive(f)
    BY DEF RestoreFile, FileRestorable
<1>2. /\ p.op = "restore" /\ p.target = f /\ p.items = {f} /\ p.texts = text
      /\ p.rows = Marked({f}, 0) /\ p.delta = Weight(text[f])
    BY DEF Plan
<1> HIDE DEF p
<1>3. p.delta \in Int /\ split' \in BOOLEAN /\ f \in Nodes /\ f \notin Folders
    BY <1>1, <1>2, Kinds DEF Weight, IInv, TypeOK
<1>4. p.delta = Cardinality({g \in {f} \intersect Files : text[g] = "live"})
  <2>1. CASE text[f] = "live"
    <3>1. {g \in {f} \intersect Files : text[g] = "live"} = {f}
        BY <2>1
    <3>2. Cardinality({f}) = 1
        BY FS_Singleton
    <3> QED
        BY <1>2, <2>1, <3>1, <3>2 DEF Weight
  <2>2. CASE text[f] # "live"
    <3>1. {g \in {f} \intersect Files : text[g] = "live"} = {}
        BY <2>2
    <3>2. Cardinality({}) = 0
        BY FS_EmptySet
    <3> QED
        BY <1>2, <2>2, <3>1, <3>2 DEF Weight
  <2> QED
      BY <2>1, <2>2
<1>5. ActiveOr(node[f].parent)
    BY <1>1, AboveStep DEF ChainActive, ActiveOr, IInv, TypeOK
<1>6. /\ {f} \in SUBSET Here /\ \A n \in {f} : ~Active(n)
      /\ \A m, n \in {f} : node[m].owner = node[n].owner
      /\ \A n \in {f} : ActiveOr(node[n].parent) \/ node[n].parent \in {f}
      /\ {f} \intersect Folders = {}
      /\ \A kind \in {Folders, Files} : \A n \in {f} \intersect kind :
           node[n].path \notin ActivePaths(kind)
    BY <1>1, <1>3, <1>5
<1>7. \A n \in Here : ~Active(n) /\ n \notin {f} =>
           \A m \in {f} \intersect Folders : node[m].owner # node[n].owner
    BY <1>6
<1> QED
    BY <1>1, <1>2, <1>3, <1>4, <1>6, <1>7, Restoration

LEMMA RestoreFolderStep ==
  ASSUME IInv, NEW d \in Folders, RestoreFolder(d)
  PROVE  IInv'
<1> DEFINE p == FolderRestoration(d)
           N == Held(d)
           op == node[d].owner
<1>1. /\ d \in Here \intersect Folders /\ ~Active(d) /\ Apply(p)
      /\ split' = (split \/ ~ChainActive(d)) /\ FolderRestorable(d)
    BY DEF RestoreFolder
<1>2. /\ p.op = "restore" /\ p.target = d /\ p.items = N /\ p.texts = text
      /\ p.rows = Marked(N, 0)
      /\ p.delta = Cardinality({f \in Regained(d) : text[f] = "live"})
    BY DEF FolderRestoration, Plan, Total
<1> HIDE DEF p
<1>3. node \in [Nodes -> Row] /\ Placed /\ d \in Nodes /\ op # 0
    BY <1>1 DEF IInv, TypeOK, Active, Here
<1>4. \A n \in N : n \in Here /\ node[n].owner = op /\ ~Active(n)
    BY <1>1, <1>3, SubtreeStep DEF Held, Active
<1>5. split' \in BOOLEAN /\ (~split' => ~split /\ ChainActive(d))
    BY <1>1 DEF IInv, TypeOK
<1>6. \A kind \in {Folders, Files} : \A n \in N \intersect kind :
           node[n].path \notin ActivePaths(kind)
    BY <1>1 DEF FolderRestorable
<1>7. p.delta \in Int
  <2>1. {f \in Regained(d) : text[f] = "live"} \in SUBSET Files
      BY DEF Regained
  <2>2. IsFiniteSet({f \in Regained(d) : text[f] = "live"})
      BY <2>1, FileHistoryAssumption, FS_Subset
  <2> QED
      BY <1>2, <2>2, FS_CardinalityType
<1>8. ASSUME ~split'
      PROVE  d = set[op].target /\ N = {n \in Here : node[n].owner = op}
    BY <1>1, <1>3, <1>5, <1>8, HeldIsWhole DEF IInv
<1>9. ASSUME ~split', NEW n \in N
      PROVE  ActiveOr(node[n].parent) \/ node[n].parent \in N
  <2>1. CASE n = d
    <3>1. node[d].parent = Root \/ node[d].parent \in Above(d)
        BY <1>1, <1>3, AboveStep
    <3> QED
        BY <1>5, <1>9, <2>1, <3>1 DEF ChainActive, ActiveOr
  <2>2. CASE n # d
    <3>1. node[n].parent \in Here /\ node[node[n].parent].owner = op
        BY <1>3, <1>4, <1>5, <1>8, <1>9, <2>2, ParentInOperation DEF IInv
    <3> QED
        BY <1>8, <1>9, <3>1
  <2> QED
      BY <2>1, <2>2
<1>10. ASSUME ~split', NEW n \in Here, ~Active(n), n \notin N,
              NEW m \in N \intersect Folders
       PROVE  node[m].owner # node[n].owner
    BY <1>4, <1>8, <1>10
<1>11. ASSUME ~split'
       PROVE  p.delta = Cardinality({f \in N \intersect Files : text[f] = "live"})
  <2> DEFINE S == {e \in Here \intersect Folders : node[e].owner \in {0, op}}
  <2>1. ASSUME NEW x \in Here, node[x].owner \in {0, op}
        PROVE  node[x].parent \in S \union {Root}
    <3>1. node[x].parent \in Parents
        BY <1>3, RowsOfTheTree
    <3>2. CASE node[x].owner = 0
      <4>1. ActiveOr(node[x].parent)
          BY <1>5, <1>11, <2>1, <3>2 DEF IInv, Sheltered, Active, Here
      <4> QED
          BY <3>1, <4>1 DEF ActiveOr, Active, Parents
    <3>3. CASE node[x].owner = op
      <4>1. x \in N
          BY <1>8, <1>11, <2>1, <3>3
      <4>2. ActiveOr(node[x].parent) \/ node[x].parent \in N
          BY <1>9, <1>11, <4>1
      <4> QED
          BY <1>3, <1>4, <3>1, <4>2, Kinds DEF ActiveOr, Active, Parents
    <3> QED
        BY <2>1, <3>2, <3>3
  <2>2. ASSUME NEW f \in N \intersect Files PROVE ChainActiveAfter(f, op)
    <3>1. Climbs(f, S)
        BY <1>4, <2>1 DEF Climbs
    <3>2. Above(f) \subseteq S
        BY <3>1, AboveLeast
    <3> QED
        BY <3>2 DEF ChainActiveAfter
  <2>3. Regained(d) = N \intersect Files
      BY <2>2 DEF Regained
  <2> QED
      BY <1>2, <2>3
<1> HIDE DEF N, op
<1>12. N \in SUBSET Here /\ \A n \in N : ~Active(n)
    BY <1>4
<1>13. \A m, n \in N : node[m].owner = node[n].owner
    BY <1>4
<1> QED
    BY <1>1, <1>2, <1>3, <1>5, <1>6, <1>7, <1>9, <1>10, <1>11, <1>12, <1>13, Restoration

-----------------------------------------------------------------------------
(* New rows: folders that are created, and what an upload adds *)

LEMMA RowsAppear ==
  ASSUME IInv, NEW K \in SUBSET Nodes, K \intersect Here = {},
         split' = split, \A c \in Kept : c \in Kept' /\ set'[c] = set[c],
         \A n \in Nodes : n \notin K => node'[n] = node[n],
         \A n \in K : /\ node'[n].state = "here" /\ node'[n].owner = 0
                      /\ \/ node'[n].parent = Root
                         \/ node'[n].parent \in K
                         \/ Active(node'[n].parent),
         \A n \in K \intersect Folders :
           node'[n].path = IF node'[n].parent = Root THEN <<node'[n].name>>
                           ELSE Append(node'[node'[n].parent].path, node'[n].name),
         \A kind \in {Folders, Files} : \A n \in K \intersect kind :
           node'[n].path \notin ActivePaths(kind),
         \A kind \in {Folders, Files} : \A m, n \in K \intersect kind :
           node'[m].path = node'[n].path => m = n
  PROVE  /\ Here' = Here \union K
         /\ \A n \in Nodes : Active(n)' <=> Active(n) \/ n \in K
         /\ Placed' /\ Sheltered' /\ Owned' /\ Nested' /\ Distinct'
<1>1. node \in [Nodes -> Row] /\ Placed /\ Here \subseteq Nodes
    BY DEF IInv, TypeOK, Here
<1>2. Here' = Here \union K /\ \A n \in Here : node'[n] = node[n]
    BY DEF Here
<1>3. \A n \in Nodes : Active(n)' <=> Active(n) \/ n \in K
    BY <1>2 DEF Active
<1>4. Placed'
  <2>1. ASSUME NEW n \in Here PROVE node'[n].parent # Root => node'[n].parent \in Here'
      BY <1>1, <1>2 DEF Placed
  <2>2. ASSUME NEW n \in K PROVE node'[n].parent # Root => node'[n].parent \in Here'
      BY <1>2 DEF Active
  <2>3. ASSUME NEW n \in Here, n \in Folders
        PROVE  node'[n].path = IF node'[n].parent = Root THEN <<node'[n].name>>
                               ELSE Append(node'[node'[n].parent].path, node'[n].name)
    <3>1. node[n].path = Join(node[n].parent, node[n].name) /\ node'[n] = node[n]
        BY <1>1, <1>2, <2>3 DEF Placed
    <3>2. node[n].parent # Root => node'[node[n].parent] = node[node[n].parent]
        BY <1>1, <1>2 DEF Placed
    <3> QED
        BY <3>1, <3>2 DEF Join
  <2> QED
      BY <1>2, <2>1, <2>2, <2>3 DEF Placed, Join
<1>5. Sheltered'
  <2> SUFFICES ASSUME ~split, NEW n \in Nodes, Active(n) \/ n \in K
               PROVE  ActiveOr(node[n].parent)'
      BY <1>3 DEF Sheltered
  <2>1. \E x \in Nodes \union {Root} :
          x = node'[n].parent /\ (x = Root \/ Active(x) \/ x \in K)
    <3>1. CASE n \in K
        BY <1>1, <3>1 DEF Active
    <3>2. CASE n \notin K
      <4>1. ActiveOr(node[n].parent) /\ node'[n] = node[n]
          BY <3>2 DEF IInv, Sheltered
      <4> QED
          BY <1>1, <4>1 DEF ActiveOr, Active
    <3> QED
        BY <3>1, <3>2
  <2>2. \E x \in Nodes \union {Root} : x = node'[n].parent /\ (x = Root \/ Active(x)')
      BY <1>3, <2>1
  <2> QED
      BY <2>2 DEF ActiveOr, Active
<1>6. StillHeld
    BY <1>2, <1>3 DEF StillHeld, Active
<1>7. Owned'
    BY <1>6, OwnedStays DEF IInv
<1>8. Nested'
  <2>1. ASSUME NEW n \in Here', ~Active(n)' PROVE node'[n].parent = node[n].parent
      BY <1>2, <1>3, <2>1 DEF Here
  <2>2. Nested /\ Owned
      BY DEF IInv
  <2> QED
      BY <1>1, <1>2, <1>6, <2>1, <2>2, NestedStays
<1>9. Distinct'
  <2> SUFFICES ASSUME ~split, NEW kind \in {Folders, Files},
                      NEW m \in kind \intersect (Here \union K),
                      NEW n \in kind \intersect (Here \union K),
                      node'[m].owner = node'[n].owner, node'[m].path = node'[n].path
               PROVE  m = n
      BY <1>2 DEF Distinct
  <2>1. CASE m \in Here /\ n \in Here
      BY <1>2, <2>1 DEF IInv, Distinct
  <2>2. ASSUME NEW x \in kind \intersect K, NEW y \in kind \intersect Here, node'[y].owner = 0
        PROVE  node'[x].path # node'[y].path
    <3>1. node'[y].path \in ActivePaths(kind)
        BY <1>2, <2>2 DEF ActivePaths, Active
    <3> QED
        BY <3>1
  <2>3. CASE m \in K /\ n \in Here
      BY <2>2, <2>3
  <2>4. CASE m \in Here /\ n \in K
      BY <2>2, <2>4
  <2>5. CASE m \in K /\ n \in K
      BY <2>5
  <2> QED
      BY <2>1, <2>3, <2>4, <2>5
<1> QED
    BY <1>2, <1>3, <1>4, <1>5, <1>7, <1>8, <1>9

LEMMA FirstFresh ==
  ASSUME NEW kind \in {Folders, Files}, Fresh(kind) # {}
  PROVE  Min(Fresh(kind)) \in Fresh(kind) /\ Min(Fresh(kind)) \notin Here
<1>1. Fresh(kind) \in SUBSET Nat
    BY FileHistoryAssumption DEF Fresh
<1> QED
    BY <1>1, Least DEF Fresh, Here

LEMMA NewRowTyped ==
  ASSUME NEW parent \in Parents, NEW name \in Names, NEW path \in Paths
  PROVE  LET row == NewRow(parent, name, path)
         IN /\ row \in Row /\ row.state = "here" /\ row.owner = 0
            /\ row.parent = parent /\ row.name = name /\ row.path = path
BY Kinds DEF NewRow, Row

LEMMA CreateFolderStep ==
  ASSUME IInv, NEW parent \in Parents, NEW name \in Names, CreateFolder(parent, name)
  PROVE  IInv'
<1> DEFINE k == Min(Fresh(Folders))
           path == Join(parent, name)
           row == NewRow(parent, name, path)
<1>1. /\ ActiveOr(parent) /\ path \in Paths /\ path \notin ActivePaths(Folders)
      /\ Fresh(Folders) # {} /\ node' = [node EXCEPT ![k] = row]
      /\ UNCHANGED <<text, set, upload, elapsed, stats, split>>
    BY DEF CreateFolder
<1>2. k \in Folders /\ k \in Nodes /\ k \notin Here /\ k \notin Files
    BY <1>1, FirstFresh, Kinds DEF Fresh
<1>3. /\ row \in Row /\ row.state = "here" /\ row.owner = 0
      /\ row.parent = parent /\ row.name = name /\ row.path = path
    BY <1>1, NewRowTyped
<1>4. node \in [Nodes -> Row]
    BY DEF IInv, TypeOK
<1> HIDE DEF k, row
<1>5. /\ node' \in [Nodes -> Row] /\ node'[k] = row
      /\ \A n \in Nodes : n # k => node'[n] = node[n]
    BY <1>1, <1>2, <1>3, <1>4
<1>6. /\ {k} \in SUBSET Nodes /\ {k} \intersect Here = {}
      /\ \A n \in Nodes : n \notin {k} => node'[n] = node[n]
      /\ \A n \in {k} : /\ node'[n].state = "here" /\ node'[n].owner = 0
                        /\ \/ node'[n].parent = Root
                           \/ node'[n].parent \in {k}
                           \/ Active(node'[n].parent)
    BY <1>1, <1>2, <1>3, <1>5 DEF ActiveOr
<1>7. \A n \in {k} \intersect Folders :
        node'[n].path = IF node'[n].parent = Root THEN <<node'[n].name>>
                        ELSE Append(node'[node'[n].parent].path, node'[n].name)
  <2>1. parent # Root => parent \in Nodes /\ parent # k
      BY <1>1, <1>2 DEF ActiveOr, Active, Here
  <2>2. parent # Root => node'[parent] = node[parent]
      BY <1>5, <2>1
  <2> QED
      BY <1>3, <1>5, <2>2 DEF Join
<1>8. /\ \A kind \in {Folders, Files} : \A n \in {k} \intersect kind :
           node'[n].path \notin ActivePaths(kind)
      /\ \A kind \in {Folders, Files} : \A m, n \in {k} \intersect kind :
           node'[m].path = node'[n].path => m = n
    BY <1>1, <1>2, <1>3, <1>5
<1>9. /\ split' = split /\ \A c \in Kept : c \in Kept' /\ set'[c] = set[c]
    BY <1>1 DEF Kept
<1>10. /\ Here' = Here \union {k} /\ \A n \in Nodes : Active(n)' <=> Active(n) \/ n \in {k}
       /\ Placed' /\ Sheltered' /\ Owned' /\ Nested' /\ Distinct'
    BY <1>6, <1>7, <1>8, <1>9, RowsAppear
<1>11. TypeOK' /\ Slots'
    BY <1>1, <1>5 DEF IInv, TypeOK, Slots, Free
<1>12. Accounted'
  <2>1. Visible' = Visible
      BY <1>1, <1>2, <1>10, Kinds DEF Visible
  <2> QED
      BY <1>1, <2>1 DEF IInv, Accounted
<1>13. Blanks'
    BY <1>1, <1>2, <1>10 DEF IInv, Blanks
<1> QED
    BY <1>10, <1>11, <1>12, <1>13 DEF IInv

(* Where the segments of the uploaded path are found, or will be. *)
LEMMA FoldersOfPath ==
  ASSUME node \in [Nodes -> Row], NEW path \in Paths, Places(path) # {},
         NEW k \in 0..Len(path) - 1
  PROVE  /\ k \in Missing(path) => FolderAt(path, k) \in Fresh(Folders)
         /\ \A j \in Missing(path) : k \in Missing(path) =>
              (FolderAt(path, j) = FolderAt(path, k) => j = k)
         /\ k = 0 => FolderAt(path, k) = Root
         /\ k # 0 /\ k \notin Missing(path) =>
              /\ FolderAt(path, k) \in Folders /\ Active(FolderAt(path, k))
              /\ node[FolderAt(path, k)].path = SubSeq(path, 1, k)
<1>1. Len(path) \in Nat /\ k \in Nat
    BY PathsAreSequences
<1>2. \A j \in Missing(path) : j # 0
    BY DEF Missing
<1> DEFINE place == CHOOSE place \in Places(path) : TRUE
<1>3. place \in Places(path)
    OBVIOUS
<1> HIDE DEF place
<1>4. place \in [Missing(path) -> Fresh(Folders)] /\ IsInjective(place)
    BY <1>3 DEF Places, Injection
<1>5. \A j \in Missing(path) : FolderAt(path, j) = place[j]
    BY <1>2 DEF FolderAt, place
<1>6. ASSUME k # 0, k \notin Missing(path)
      PROVE  /\ FolderAt(path, k) \in Folders /\ Active(FolderAt(path, k))
             /\ node[FolderAt(path, k)].path = SubSeq(path, 1, k)
  <2>1. Found(SubSeq(path, 1, k), Folders) # {}
      BY <1>1, <1>6 DEF Missing
  <2>2. FolderAt(path, k) \in Found(SubSeq(path, 1, k), Folders)
      BY <1>6, <2>1 DEF FolderAt
  <2> QED
      BY <2>2 DEF Found
<1>7. k = 0 => FolderAt(path, k) = Root
    BY DEF FolderAt
<1>8. k \in Missing(path) => FolderAt(path, k) \in Fresh(Folders)
    BY <1>4, <1>5
<1>9. \A j \in Missing(path) : k \in Missing(path) =>
        (FolderAt(path, j) = FolderAt(path, k) => j = k)
    BY <1>4, <1>5 DEF IsInjective
<1> QED
    BY <1>6, <1>7, <1>8, <1>9

(* The rows an upload creates: the missing folders and, unless an active file
   has the path, the file. *)
Created(path) == ({FileAt(path)} \union {FolderAt(path, k) : k \in Missing(path)}) \ Here

LEMMA PrefixPaths ==
  ASSUME NEW path \in Paths, NEW k \in 1..Len(path)
  PROVE  /\ SubSeq(path, 1, k) \in Paths /\ Len(SubSeq(path, 1, k)) = k
         /\ path[k] \in Names
         /\ SubSeq(path, 1, k) = IF k = 1 THEN <<path[k]>>
                                 ELSE Append(SubSeq(path, 1, k - 1), path[k])
<1>1. path \in Seq(Names) /\ Len(path) \in 1..MaxDepth /\ MaxDepth \in Nat
    BY PathsAreSequences, Kinds
<1>2. k \in Nat /\ 1 <= k /\ k <= Len(path) /\ Len(path) \in Nat
    BY <1>1
<1>3. path[k] \in Names /\ \A i \in 1..k : path[i] \in Names
    BY <1>1, <1>2, ElementOfSeq
<1>4. SubSeq(path, 1, k) \in Seq(Names) /\ Len(SubSeq(path, 1, k)) = k
    BY <1>2, <1>3, SubSeqProperties
<1>5. SubSeq(path, 1, k) \in Paths
  <2>1. k \in 1..MaxDepth
      BY <1>1, <1>2
  <2> QED
      BY <1>4, <2>1, PathsAreSequences
<1>6. SubSeq(path, 1, k) = SubSeq(path, 1, k - 1) \o <<path[k]>>
  <2>1. 1 \in 1..Len(path) /\ k \in 1..Len(path)
      BY <1>1, <1>2
  <2> QED
      BY <1>1, <2>1, SubSeqRecursiveSecond
<1>7. <<path[k]>> \in Seq(Names)
    BY <1>3, Single
<1>8. CASE k = 1
  <2>1. SubSeq(path, 1, k - 1) = <<>>
      BY <1>8, SubSeqEmpty
  <2>2. <<>> \o <<path[k]>> = <<path[k]>>
      BY <1>7, ConcatEmptySeq
  <2> QED
      BY <1>3, <1>4, <1>5, <1>6, <1>8, <2>1, <2>2
<1>9. CASE k # 1
  <2>1. \A i \in 1..k - 1 : path[i] \in Names
      BY <1>2, <1>3
  <2>2. SubSeq(path, 1, k - 1) \in Seq(Names)
      BY <1>2, <2>1, SubSeqProperties
  <2>3. Append(SubSeq(path, 1, k - 1), path[k]) = SubSeq(path, 1, k - 1) \o <<path[k]>>
      BY <1>3, <2>2, AppendIsConcat
  <2> QED
      BY <1>3, <1>4, <1>5, <1>6, <1>9, <2>3
<1> QED
    BY <1>8, <1>9

LEMMA EnsuredRows ==
  ASSUME node \in [Nodes -> Row], NEW path \in Paths, Creatable(path)
  PROVE  LET rows == Ensured(path)
             K == Created(path)
             f == FileAt(path)
         IN /\ K \in SUBSET Nodes /\ K \intersect Here = {}
            /\ f \in Files /\ (f \in K \/ Active(f)) /\ K \intersect Files \subseteq {f}
            /\ rows \in [Nodes -> Row]
            /\ \A n \in Nodes : n \notin K => rows[n] = node[n]
            /\ \A n \in K : /\ rows[n].state = "here" /\ rows[n].owner = 0
                            /\ \/ rows[n].parent = Root
                               \/ rows[n].parent \in K
                               \/ Active(rows[n].parent)
            /\ \A n \in K \intersect Folders :
                 rows[n].path = IF rows[n].parent = Root THEN <<rows[n].name>>
                                ELSE Append(rows[rows[n].parent].path, rows[n].name)
            /\ \A kind \in {Folders, Files} : \A n \in K \intersect kind :
                 rows[n].path \notin ActivePaths(kind)
            /\ \A kind \in {Folders, Files} : \A m, n \in K \intersect kind :
                 rows[m].path = rows[n].path => m = n
<1> DEFINE rows == Ensured(path)
           K == Created(path)
           f == FileAt(path)
           L == Len(path)
           M == Missing(path)
           At(k) == FolderAt(path, k)
           Up(k) == SubSeq(path, 1, k)
<1>1. path \in Seq(Names) /\ L \in Nat /\ 1 <= L /\ L - 1 \in 0..L - 1
    BY PathsAreSequences, Kinds
<1>2. M \subseteq 1..L - 1 /\ \A k \in M : k \in 1..L /\ k \in 0..L - 1 /\ k - 1 \in 0..L - 1
    BY <1>1 DEF Missing
<1>3. Places(path) # {} /\ (Found(path, Files) = {} => Fresh(Files) # {})
    BY DEF Creatable
<1>4. /\ \A k \in M : At(k) \in Fresh(Folders)
      /\ \A j, k \in M : At(j) = At(k) => j = k
      /\ At(0) = Root
      /\ \A k \in 0..L - 1 : k # 0 /\ k \notin M =>
           At(k) \in Folders /\ Active(At(k)) /\ node[At(k)].path = Up(k)
  <2>1. \A k \in M : At(k) \in Fresh(Folders)
      BY <1>2, <1>3, FoldersOfPath
  <2>2. \A j, k \in M : At(j) = At(k) => j = k
      BY <1>2, <1>3, FoldersOfPath
  <2>3. At(0) = Root
      BY <1>1, <1>3, FoldersOfPath
  <2>4. \A k \in 0..L - 1 : k # 0 /\ k \notin M =>
           At(k) \in Folders /\ Active(At(k)) /\ node[At(k)].path = Up(k)
      BY <1>3, FoldersOfPath
  <2> QED
      BY <2>1, <2>2, <2>3, <2>4
<1>5. \A k \in M : At(k) \in Folders /\ At(k) \in Nodes /\ At(k) \notin Here /\ At(k) \notin Files
    BY <1>4, Kinds DEF Fresh, Here
<1>6. /\ f \in Files /\ f \in Nodes
      /\ IF Found(path, Files) = {} THEN f \notin Here
                                    ELSE Active(f) /\ f \in Here
  <2>1. CASE Found(path, Files) = {}
    <3>1. f = Min(Fresh(Files)) /\ Fresh(Files) # {}
        BY <1>3, <2>1 DEF FileAt
    <3>2. f \in Fresh(Files) /\ f \notin Here
        BY <3>1, FirstFresh
    <3> QED
        BY <2>1, <3>2, Kinds DEF Fresh
  <2>2. CASE Found(path, Files) # {}
    <3>1. f \in Found(path, Files)
        BY <2>2 DEF FileAt
    <3> QED
        BY <2>2, <3>1, Kinds DEF Found, Active
  <2> QED
      BY <2>1, <2>2
<1>7. /\ K = {n \in {f} : n \notin Here} \union {At(k) : k \in M}
      /\ K \in SUBSET Nodes /\ K \intersect Here = {}
      /\ K \intersect Files = {n \in {f} : n \notin Here}
      /\ K \intersect Folders = {At(k) : k \in M}
  <2>1. K = {n \in {f} : n \notin Here} \union {At(k) : k \in M}
      BY <1>5 DEF Created
  <2> QED
      BY <1>5, <1>6, <2>1, Kinds
<1>8. ASSUME NEW k \in 0..L - 1
      PROVE  At(k) \in Parents /\ (At(k) = Root \/ At(k) \in K \/ Active(At(k)))
  <2>1. CASE k = 0
      BY <1>4, <2>1 DEF Parents
  <2>2. CASE k \in M
      BY <1>5, <1>7, <2>2 DEF Parents
  <2>3. CASE k # 0 /\ k \notin M
      BY <1>4, <2>3 DEF Parents
  <2> QED
      BY <2>1, <2>2, <2>3
<1>9. /\ \A n \in Nodes : n \notin K => rows[n] = node[n]
      /\ \A n \in K : n \in Files => rows[n] = NewRow(At(L - 1), path[L], path)
      /\ \A k \in M : rows[At(k)] = NewRow(At(k - 1), path[k], Up(k))
      /\ rows = [n \in Nodes |-> rows[n]]
  <2>1. \A n \in K : n \in Files => rows[n] = NewRow(At(L - 1), path[L], path)
      BY <1>7 DEF Ensured, Created
  <2>2. ASSUME NEW k \in M PROVE rows[At(k)] = NewRow(At(k - 1), path[k], Up(k))
    <3>1. (CHOOSE j \in M : At(j) = At(k)) = k
        BY <1>4
    <3>2. At(k) \in K /\ At(k) \in Nodes /\ At(k) \notin Files
        BY <1>5, <1>7
    <3> QED
        BY <3>1, <3>2 DEF Ensured, Created
  <2>3. \A n \in Nodes : n \notin K => rows[n] = node[n]
      BY DEF Ensured, Created
  <2>4. rows = [n \in Nodes |-> rows[n]]
      BY DEF Ensured
  <2> QED
      BY <2>1, <2>2, <2>3, <2>4
<1> HIDE DEF rows, K, f, L, M, At, Up
<1>10. ASSUME NEW k \in M
       PROVE  /\ rows[At(k)] \in Row
              /\ rows[At(k)].state = "here" /\ rows[At(k)].owner = 0
              /\ rows[At(k)].parent = At(k - 1) /\ rows[At(k)].name = path[k]
              /\ rows[At(k)].path = Up(k)
  <2>1. At(k - 1) \in Parents /\ path[k] \in Names /\ Up(k) \in Paths
      BY <1>2, <1>8, PrefixPaths DEF L, Up
  <2> QED
      BY <1>9, <2>1, NewRowTyped
<1>11. ASSUME NEW n \in K, n \in Files
       PROVE  /\ rows[n] \in Row /\ rows[n].state = "here" /\ rows[n].owner = 0
              /\ rows[n].parent = At(L - 1) /\ rows[n].path = path
  <2>1. At(L - 1) \in Parents /\ path[L] \in Names
      BY <1>1, <1>8, PrefixPaths DEF L
  <2> QED
      BY <1>9, <1>11, <2>1, NewRowTyped
<1>12. rows \in [Nodes -> Row]
  <2>1. \A n \in Nodes : rows[n] \in Row
      BY <1>7, <1>9, <1>10, <1>11
  <2> QED
      BY <1>9, <2>1
<1>13. \A n \in K : /\ rows[n].state = "here" /\ rows[n].owner = 0
                    /\ \/ rows[n].parent = Root
                       \/ rows[n].parent \in K
                       \/ Active(rows[n].parent)
  <2>1. ASSUME NEW n \in K, n \in Files
        PROVE  \E k \in 0..L - 1 : rows[n].state = "here" /\ rows[n].owner = 0
                                   /\ rows[n].parent = At(k)
      BY <1>1, <1>11, <2>1 DEF L
  <2>2. ASSUME NEW n \in K, n \notin Files
        PROVE  \E k \in 0..L - 1 : rows[n].state = "here" /\ rows[n].owner = 0
                                   /\ rows[n].parent = At(k)
    <3>1. PICK k \in M : n = At(k)
        BY <1>6, <1>7, <2>2
    <3> QED
        BY <1>2, <1>10, <3>1 DEF L, M
  <2> QED
      BY <1>8, <2>1, <2>2
<1>14. \A n \in K \intersect Folders :
         rows[n].path = IF rows[n].parent = Root THEN <<rows[n].name>>
                        ELSE Append(rows[rows[n].parent].path, rows[n].name)
  <2>1. ASSUME NEW k \in M
        PROVE  Up(k) = IF At(k - 1) = Root THEN <<path[k]>>
                       ELSE Append(rows[At(k - 1)].path, path[k])
    <3>1. Up(k) = IF k = 1 THEN <<path[k]>> ELSE Append(Up(k - 1), path[k])
        BY <1>2, PrefixPaths DEF Up, L
    <3>2. CASE k = 1
        BY <1>4, <3>1, <3>2
    <3>3. CASE k # 1
      <4>1. k - 1 \in 0..L - 1 /\ k - 1 # 0
          BY <1>2, <3>3
      <4>2. At(k - 1) # Root /\ rows[At(k - 1)].path = Up(k - 1)
        <5>1. CASE k - 1 \in M
            BY <1>5, <1>10, <5>1, Kinds
        <5>2. CASE k - 1 \notin M
          <6>1. At(k - 1) \in Folders /\ Active(At(k - 1)) /\ node[At(k - 1)].path = Up(k - 1)
              BY <1>4, <4>1, <5>2
          <6>2. At(k - 1) \notin K /\ At(k - 1) \in Nodes
              BY <1>7, <6>1 DEF Active, Here
          <6> QED
              BY <1>9, <6>1, <6>2, Kinds
        <5> QED
            BY <5>1, <5>2
      <4> QED
          BY <3>1, <3>3, <4>2
    <3> QED
        BY <3>2, <3>3
  <2>2. ASSUME NEW n \in K \intersect Folders
        PROVE  rows[n].path = IF rows[n].parent = Root THEN <<rows[n].name>>
                              ELSE Append(rows[rows[n].parent].path, rows[n].name)
    <3>1. PICK k \in M : n = At(k)
        BY <1>7
    <3>2. rows[n].parent = At(k - 1) /\ rows[n].name = path[k] /\ rows[n].path = Up(k)
        BY <1>10, <3>1
    <3> QED
        BY <2>1, <3>2
  <2> QED
      BY <2>2
<1>15. ASSUME NEW kind \in {Folders, Files}, NEW n \in K \intersect kind
       PROVE  rows[n].path \notin ActivePaths(kind)
  <2>1. CASE kind = Folders
    <3>1. PICK k \in M : n = At(k)
        BY <1>7, <2>1
    <3>2. Found(Up(k), Folders) = {}
        BY DEF M, Up, Missing
    <3> QED
        BY <1>10, <2>1, <3>1, <3>2 DEF Found, ActivePaths
  <2>2. CASE kind = Files
    <3>1. n = f /\ f \notin Here /\ rows[n].path = path
        BY <1>7, <1>11, <2>2
    <3>2. Found(path, Files) = {}
        BY <1>6, <3>1
    <3> QED
        BY <2>2, <3>1, <3>2 DEF Found, ActivePaths
  <2> QED
      BY <2>1, <2>2
<1>16. ASSUME NEW kind \in {Folders, Files}, NEW m \in K \intersect kind,
              NEW n \in K \intersect kind, rows[m].path = rows[n].path
       PROVE  m = n
  <2>1. CASE kind = Folders
    <3>1. PICK j \in M, k \in M : m = At(j) /\ n = At(k)
        BY <1>7, <2>1
    <3>2. Up(j) = Up(k)
        BY <1>10, <1>16, <3>1
    <3>3. Len(Up(j)) = j /\ Len(Up(k)) = k
        BY <1>2, PrefixPaths DEF Up, L
    <3> QED
        BY <3>1, <3>2, <3>3
  <2>2. CASE kind = Files
      BY <1>7, <2>2
  <2> QED
      BY <2>1, <2>2
<1>17. (f \in K \/ Active(f)) /\ K \intersect Files \subseteq {f}
    BY <1>6, <1>7
<1> QED
    BY <1>6, <1>7, <1>9, <1>12, <1>13, <1>14, <1>15, <1>16, <1>17 DEF rows, K, f

LEMMA Weights ==
  ASSUME NEW t
  PROVE  Weight(t) \in Int
BY DEF Weight

LEMMA NoItems == <<>> \in [{} -> Snapshot]
<1>1. <<>> \in Seq(Snapshot) /\ Len(<<>>) = 0
    BY EmptySeq
<1>2. <<>> \in [1..Len(<<>>) -> Snapshot]
    BY <1>1, LenProperties
<1>3. 1..0 = {}
    OBVIOUS
<1> QED
    BY <1>1, <1>2, <1>3

LEMMA ReplaceContentsStep ==
  ASSUME IInv, NEW present \in BOOLEAN, ReplaceContents(present)
  PROVE  IInv'
<1> DEFINE path == upload.path
           slot == upload.slot
           K == Created(path)
           f == FileAt(path)
           after == Replacement(text[f], present)
           items == {h \in {f} : after # text[f]}
           record == [op |-> "upload", target |-> f, before |-> <<>>,
                      textBefore |-> [g \in items |-> text[g]]]
<1>1. /\ upload # NoUpload /\ Creatable(path)
      /\ node' = Ensured(path) /\ text' = [text EXCEPT ![f] = after]
      /\ stats' = stats + Weight(after) - Weight(text[f])
      /\ set' = [set EXCEPT ![slot] = record]
      /\ upload' = NoUpload /\ elapsed' = elapsed /\ split' = split
    BY DEF ReplaceContents
<1>2. /\ node \in [Nodes -> Row] /\ text \in [Files -> Texts] /\ set \in [Sets -> ChangeSet]
      /\ path \in Paths /\ slot \in Sets /\ set[slot] = Pending
      /\ split \in BOOLEAN /\ elapsed \in 0..MaxSets /\ stats \in Int
    BY <1>1 DEF IInv, TypeOK
<1>3. /\ K \in SUBSET Nodes /\ K \intersect Here = {}
      /\ f \in Files /\ (f \in K \/ Active(f)) /\ K \intersect Files \subseteq {f}
      /\ node' \in [Nodes -> Row]
      /\ \A n \in Nodes : n \notin K => node'[n] = node[n]
      /\ \A n \in K : /\ node'[n].state = "here" /\ node'[n].owner = 0
                      /\ \/ node'[n].parent = Root
                         \/ node'[n].parent \in K
                         \/ Active(node'[n].parent)
      /\ \A n \in K \intersect Folders :
           node'[n].path = IF node'[n].parent = Root THEN <<node'[n].name>>
                           ELSE Append(node'[node'[n].parent].path, node'[n].name)
      /\ \A kind \in {Folders, Files} : \A n \in K \intersect kind :
           node'[n].path \notin ActivePaths(kind)
      /\ \A kind \in {Folders, Files} : \A m, n \in K \intersect kind :
           node'[m].path = node'[n].path => m = n
    BY <1>1, <1>2, EnsuredRows
<1> HIDE DEF path, slot, K, f, after
<1>4. /\ after \in Texts
      /\ text' \in [Files -> Texts] /\ text'[f] = after
      /\ \A g \in Files : g # f => text'[g] = text[g]
  <2>1. after \in Texts
      BY <1>2, <1>3 DEF after, Replacement, Texts
  <2> QED
      BY <1>1, <1>2, <1>3, <2>1
<1>5. record \in ChangeSet /\ record.op = "upload"
  <2>1. items \in SUBSET Files
      BY <1>3
  <2> HIDE DEF items
  <2>2. [g \in items |-> text[g]] \in [items -> {"none", "live", "tomb"}]
      BY <1>2, <2>1 DEF Texts
  <2>3. f \in Nodes
      BY <1>3, Kinds
  <2> QED
      BY <2>1, <2>2, <2>3, NoItems DEF ChangeSet
<1> HIDE DEF record
<1>6. /\ set' \in [Sets -> ChangeSet] /\ set'[slot] = record
      /\ \A c \in Sets : c # slot => set'[c] = set[c]
    BY <1>1, <1>2, <1>5
<1>7. slot \notin Kept /\ slot \notin Free
    BY <1>2, Marks DEF Kept, Free
<1>8. \A c \in Kept : c \in Kept' /\ set'[c] = set[c]
    BY <1>6, <1>7 DEF Kept
<1>9. Slots'
  <2>1. record # Unused
      BY <1>5 DEF Unused
  <2>2. Free' = Free
      BY <1>6, <1>7, <2>1 DEF Free
  <2> QED
      BY <2>2 DEF IInv, Slots
<1>10. TypeOK'
    BY <1>1, <1>2, <1>3, <1>4, <1>6, Weights DEF TypeOK
<1>11. /\ Here' = Here \union K
       /\ \A n \in Nodes : Active(n)' <=> Active(n) \/ n \in K
       /\ Placed' /\ Sheltered' /\ Owned' /\ Nested' /\ Distinct'
    BY <1>1, <1>3, <1>8, RowsAppear
<1>12. Accounted'
  <2>1. Visible \ {f} = Visible' \ {f}
      BY <1>3, <1>4, <1>11, Kinds DEF Visible
  <2>2. f \in Visible' <=> after = "live"
      BY <1>3, <1>4, <1>11, Kinds DEF Visible
  <2>3. f \in Visible <=> text[f] = "live"
    <3>1. CASE Active(f)
        BY <1>3, <3>1 DEF Visible
    <3>2. CASE ~Active(f)
        BY <1>3, <3>2 DEF Visible, IInv, Blanks
    <3> QED
        BY <3>1, <3>2
  <2>4. /\ Cardinality(Visible) \in Nat /\ Cardinality(Visible') \in Nat
        /\ Cardinality(Visible') = Cardinality(Visible)
             + (IF f \in Visible' THEN 1 ELSE 0) - (IF f \in Visible THEN 1 ELSE 0)
      BY <1>3, <2>1, OneFile DEF Visible
  <2>5. stats' = stats + (IF f \in Visible' THEN 1 ELSE 0) - (IF f \in Visible THEN 1 ELSE 0)
      BY <1>1, <1>2, <2>2, <2>3 DEF Weight
  <2> QED
      BY <1>1, <2>4, <2>5 DEF IInv, Accounted
<1>13. Blanks'
    BY <1>3, <1>4, <1>11 DEF IInv, Blanks, Active
<1> QED
    BY <1>9, <1>10, <1>11, <1>12, <1>13 DEF IInv

-----------------------------------------------------------------------------
(* Purge, and the steps that touch no row *)

LEMMA PurgeTreeStep ==
  ASSUME IInv, NEW c \in Sets, PurgeTree(c)
  PROVE  IInv'
<1> DEFINE tree == DueTree(set[c].target)
           gone == [state |-> "gone"]
<1>1. /\ Purgeable(c) /\ ~Restricted(c)
      /\ node' = [n \in Nodes |-> IF n \in tree THEN gone ELSE node[n]]
      /\ text' = [f \in Files |-> IF f \in tree THEN "none" ELSE text[f]]
      /\ set' = [d \in Sets |-> IF d \in Related(c) THEN Removed ELSE set[d]]
      /\ UNCHANGED <<upload, elapsed, stats, split>>
    BY DEF PurgeTree, FirstDue
<1>2. /\ set[c].target \in Here /\ \A n \in tree : node[n].owner \in 1..elapsed
      /\ node \in [Nodes -> Row] /\ Placed
    BY <1>1 DEF Purgeable, Listed, IInv, TypeOK
<1>3. /\ tree \subseteq Here
      /\ \A n \in Here : node[n].parent \in tree => n \in tree \/ node[n].parent = Root
  <2>1. CASE set[c].target \in Folders
    <3>1. tree = Subtree(set[c].target)
        BY <2>1 DEF DueTree
    <3> QED
        BY <1>2, <2>1, <3>1, SubtreeStep
  <2>2. CASE set[c].target \notin Folders
    <3>1. tree = {set[c].target}
        BY <2>2 DEF DueTree
    <3>2. \A n \in Here : node[n].parent \in Folders \union {Root}
        BY <1>2, RowsOfTheTree DEF Parents
    <3> QED
        BY <1>2, <2>2, <3>1, <3>2
  <2> QED
      BY <2>1, <2>2
<1>4. \A n \in tree : ~Active(n) /\ n \in Nodes
    BY <1>2, <1>3 DEF Active, Here
<1> HIDE DEF tree
<1>5. /\ Here' = Here \ tree
      /\ \A n \in Here' : node'[n] = node[n]
      /\ \A n \in Nodes : Active(n)' <=> Active(n)
    BY <1>1, <1>3, <1>4 DEF Here, Active
<1>6. \A n \in Here' : ~Active(n)' =>
        /\ n \in Here /\ ~Active(n) /\ node[n].owner \in Kept
        /\ node[n].owner \notin Related(c)
  <2> SUFFICES ASSUME NEW n \in Here', ~Active(n)'
               PROVE  /\ n \in Here /\ ~Active(n) /\ node[n].owner \in Kept
                      /\ node[n].owner \notin Related(c)
      OBVIOUS
  <2>1. n \in Here /\ n \notin tree /\ ~Active(n)
      BY <1>5 DEF Here
  <2>2. node[n].owner \in Kept
      BY <2>1 DEF IInv, Owned
  <2>3. node[n].owner \notin Related(c)
      BY <1>1, <2>1 DEF Restricted, tree
  <2> QED
      BY <2>1, <2>2, <2>3
<1>7. \A d \in Kept : d \notin Related(c) => d \in Kept' /\ set'[d] = set[d]
    BY <1>1 DEF Kept
<1>8. TypeOK'
  <2>1. node' \in [Nodes -> Row]
      BY <1>1, <1>2 DEF Row
  <2>2. text' \in [Files -> Texts]
      BY <1>1 DEF IInv, TypeOK, Texts
  <2>3. set' \in [Sets -> ChangeSet]
      BY <1>1, Marks DEF IInv, TypeOK
  <2>4. upload # NoUpload => set'[upload.slot] = Pending
    <3>1. upload # NoUpload => set[upload.slot] = Pending /\ upload.slot \in Sets
        BY DEF IInv, TypeOK
    <3>2. upload # NoUpload => upload.slot \notin Related(c)
        BY <3>1 DEF Related, Kept
    <3> QED
        BY <1>1, <3>1, <3>2
  <2> QED
      BY <1>1, <2>1, <2>2, <2>3, <2>4 DEF IInv, TypeOK
<1>9. Slots'
  <2>1. Free' = Free
    <3>1. \A d \in Related(c) : d \in Kept
        BY DEF Related
    <3> QED
        BY <1>1, <3>1, Marks DEF Free, Kept
  <2> QED
      BY <2>1 DEF IInv, Slots
<1>10. Placed'
  <2> SUFFICES ASSUME NEW n \in Here'
               PROVE  /\ node'[n].parent # Root => node'[n].parent \in Here'
                      /\ n \in Folders =>
                           node'[n].path = IF node'[n].parent = Root THEN <<node'[n].name>>
                             ELSE Append(node'[node'[n].parent].path, node'[n].name)
      BY DEF Placed, Join
  <2>1. n \in Here /\ n \notin tree /\ node'[n] = node[n]
      BY <1>5
  <2>2. node[n].parent # Root => node[n].parent \in Here'
      BY <1>2, <1>3, <1>5, <2>1 DEF Placed
  <2>3. n \in Folders => node[n].path = Join(node[n].parent, node[n].name)
      BY <1>2, <2>1 DEF Placed
  <2>4. node[n].parent # Root => node'[node[n].parent] = node[node[n].parent]
      BY <1>5, <2>2
  <2> QED
      BY <2>1, <2>2, <2>3, <2>4 DEF Join
<1>11. Sheltered'
  <2> SUFFICES ASSUME ~split, NEW n \in Nodes, Active(n)
               PROVE  ActiveOr(node[n].parent)'
      BY <1>1, <1>5 DEF Sheltered
  <2>1. n \in Here /\ n \notin tree /\ ActiveOr(node[n].parent)
      BY <1>4 DEF IInv, Sheltered, Active
  <2>2. \E x \in Nodes \union {Root} : x = node'[n].parent /\ (x = Root \/ Active(x)')
      BY <1>5, <2>1 DEF ActiveOr, Active, Here
  <2> QED
      BY <2>2 DEF ActiveOr, Active
<1>12. Owned'
    BY <1>5, <1>6, <1>7 DEF IInv, Owned
<1>13. Nested'
  <2> SUFFICES ASSUME ~split, NEW n \in Here', ~Active(n)'
               PROVE  \/ n = set'[node'[n].owner].target
                      \/ /\ node'[n].parent # Root
                         /\ node'[node'[n].parent].owner = node'[n].owner
      BY <1>1 DEF Nested
  <2>1. /\ n \in Here /\ n \notin tree /\ ~Active(n) /\ node'[n] = node[n]
        /\ set'[node[n].owner] = set[node[n].owner]
      BY <1>5, <1>6, <1>7
  <2>2. CASE n = set[node[n].owner].target
      BY <2>1, <2>2
  <2>3. CASE n # set[node[n].owner].target
    <3>1. /\ node[n].parent # Root /\ node[n].parent \in Here
          /\ node[node[n].parent].owner = node[n].owner
        BY <1>2, <2>1, <2>3, ParentInOperation DEF IInv
    <3>2. node[n].parent \in Here'
        BY <1>3, <1>5, <2>1, <3>1
    <3> QED
        BY <1>5, <2>1, <3>1, <3>2
  <2> QED
      BY <2>2, <2>3
<1>14. Distinct'
    BY <1>1, <1>5 DEF IInv, Distinct
<1>15. Accounted'
  <2>1. Visible' = Visible
      BY <1>1, <1>4, <1>5, Kinds DEF Visible
  <2> QED
      BY <1>1, <2>1 DEF IInv, Accounted
<1>16. Blanks'
    BY <1>1, <1>5 DEF IInv, Blanks
<1> QED
    BY <1>8, <1>9, <1>10, <1>11, <1>12, <1>13, <1>14, <1>15, <1>16 DEF IInv

(* Steps that change no row, no entry and no kept change set. *)
LEMMA RowsUntouched ==
  ASSUME IInv, UNCHANGED <<node, text, stats, split>>, TypeOK', Slots',
         \A c \in Kept : c \in Kept' /\ set'[c] = set[c]
  PROVE  IInv'
<1>1. Here' = Here /\ \A n \in Nodes : Active(n)' <=> Active(n)
    BY DEF Here, Active
<1>2. Placed' /\ Sheltered'
    BY <1>1 DEF IInv, Placed, Sheltered, Join, ActiveOr, Active
<1>3. StillHeld
    BY <1>1 DEF StillHeld, Here
<1>4. Owned' /\ Nested'
    BY <1>3, OwnedStays, NestedStays DEF IInv, TypeOK
<1>5. Distinct' /\ Blanks'
    BY <1>1 DEF IInv, Distinct, Blanks
<1>6. Accounted'
  <2>1. Visible' = Visible
      BY <1>1, Kinds DEF Visible
  <2> QED
      BY <2>1 DEF IInv, Accounted
<1> QED
    BY <1>2, <1>4, <1>5, <1>6 DEF IInv

LEMMA BeginUploadStep ==
  ASSUME IInv, NEW path \in UploadPaths, BeginUpload(path)
  PROVE  IInv'
<1>1. NextSet \in Free /\ \A c \in Free : NextSet <= c
  <2>1. Free \in SUBSET Nat /\ Free # {}
      BY Kinds DEF Free, BeginUpload
  <2> QED
      BY <2>1, Least DEF NextSet
<1>2. /\ set \in [Sets -> ChangeSet] /\ NextSet \in Sets /\ set[NextSet] = Unused
      /\ set' = [set EXCEPT ![NextSet] = Pending]
    BY <1>1 DEF BeginUpload, IInv, TypeOK, Free
<1>3. /\ set' \in [Sets -> ChangeSet] /\ set'[NextSet] = Pending
      /\ \A c \in Sets : c # NextSet => set'[c] = set[c]
    BY <1>2, Marks
<1>4. \A c \in Kept : c \in Kept' /\ set'[c] = set[c]
    BY <1>2, <1>3 DEF Kept
<1>5. Free' = Free \ {NextSet}
    BY <1>1, <1>3, Marks DEF Free
<1>6. Slots'
  <2> SUFFICES ASSUME NEW c \in Free', NEW d \in Sets, d > c PROVE d \in Free'
      BY DEF Slots
  <2>1. c \in Free /\ c \in Nat /\ d \in Nat /\ NextSet \in Nat /\ NextSet <= c
      BY <1>1, <1>2, <1>5, Kinds DEF Free
  <2>2. d \in Free
      BY <2>1 DEF IInv, Slots
  <2> QED
      BY <1>5, <2>1, <2>2
<1>7. TypeOK'
  <2>1. path \in Paths
      BY FileHistoryAssumption DEF Paths
  <2>2. upload' = [path |-> path, slot |-> NextSet]
      BY DEF BeginUpload
  <2>3. upload'.path \in Paths /\ upload'.slot \in Sets /\ set'[upload'.slot] = Pending
      BY <1>2, <1>3, <2>1, <2>2
  <2> QED
      BY <1>3, <2>3 DEF IInv, TypeOK, BeginUpload
<1> QED
    BY <1>4, <1>6, <1>7, RowsUntouched DEF BeginUpload

LEMMA AbortUploadStep ==
  ASSUME IInv, AbortUpload
  PROVE  IInv'
<1>1. /\ set \in [Sets -> ChangeSet] /\ upload.slot \in Sets /\ set[upload.slot] = Pending
      /\ set' = [set EXCEPT ![upload.slot] = Removed]
    BY DEF AbortUpload, IInv, TypeOK
<1>2. /\ set' \in [Sets -> ChangeSet] /\ set'[upload.slot] = Removed
      /\ \A c \in Sets : c # upload.slot => set'[c] = set[c]
    BY <1>1, Marks
<1>3. \A c \in Kept : c \in Kept' /\ set'[c] = set[c]
    BY <1>1, <1>2 DEF Kept
<1>4. Free' = Free
    BY <1>1, <1>2, Marks DEF Free
<1>5. Slots'
    BY <1>4 DEF IInv, Slots
<1>6. TypeOK'
    BY <1>2 DEF IInv, TypeOK, AbortUpload
<1> QED
    BY <1>3, <1>5, <1>6, RowsUntouched DEF AbortUpload

LEMMA RetentionPassesStep ==
  ASSUME IInv, RetentionPasses
  PROVE  IInv'
<1>1. /\ Kept' = Kept /\ Free' = Free /\ set' = set
      /\ UNCHANGED <<node, text, stats, split>>
    BY DEF RetentionPasses, Kept, Free
<1>2. TypeOK'
    BY Kinds DEF IInv, TypeOK, RetentionPasses
<1> QED
    BY <1>1, <1>2, RowsUntouched DEF IInv, Slots

-----------------------------------------------------------------------------
(* The invariant is inductive *)

LEMMA InitialInv == Init => IInv
<1> SUFFICES ASSUME Init PROVE IInv
    OBVIOUS
<1>1. Here = {} /\ \A n \in Nodes : ~Active(n)
  <2>1. \A n \in Nodes : node[n].state = "none"
      BY DEF Init
  <2> QED
      BY <2>1 DEF Here, Active
<1>2. TypeOK
  <2>1. [state |-> "none"] \in Row
      BY DEF Row
  <2>2. node \in [Nodes -> Row] /\ text \in [Files -> Texts] /\ set \in [Sets -> ChangeSet]
    <3>1. node \in [Nodes -> Row]
        BY <2>1 DEF Init
    <3>2. text \in [Files -> Texts]
        BY DEF Init, Texts
    <3>3. set \in [Sets -> ChangeSet]
        BY Marks DEF Init
    <3> QED
        BY <3>1, <3>2, <3>3
  <2>3. elapsed \in 0..MaxSets /\ stats \in Int /\ split \in BOOLEAN /\ upload = NoUpload
    <3>1. elapsed = 0 /\ stats = 0 /\ split = FALSE /\ upload = NoUpload
        BY DEF Init
    <3>2. elapsed \in 0..MaxSets /\ stats \in Int
        BY <3>1, Kinds
    <3>3. split \in BOOLEAN
        BY <3>1, Zenon
    <3> QED
        BY <3>1, <3>2, <3>3
  <2> QED
      BY <2>2, <2>3 DEF TypeOK
<1>3. Placed /\ Sheltered /\ Owned /\ Nested /\ Distinct
    BY <1>1 DEF Placed, Sheltered, Owned, Nested, Distinct
<1>4. Accounted
  <2>1. Visible = {}
      BY <1>1, Kinds DEF Visible
  <2>2. Cardinality({}) = 0
      BY FS_EmptySet
  <2> QED
      BY <2>1, <2>2 DEF Accounted, Init
<1>5. Blanks
    BY DEF Init, Blanks
<1>6. Slots
  <2>1. Free = Sets
      BY DEF Init, Free
  <2> QED
      BY <2>1 DEF Slots
<1> QED
    BY <1>2, <1>3, <1>4, <1>5, <1>6 DEF IInv

LEMMA Inductive == IInv /\ [Next]_vars => IInv'
<1> SUFFICES ASSUME IInv, [Next]_vars PROVE IInv'
    OBVIOUS
<1>1. CASE \E d \in Parents, x \in Names : CreateFolder(d, x)
    BY <1>1, CreateFolderStep
<1>2. CASE \E f \in Files, d \in Parents, x \in Names : MoveFile(f, d, x)
    BY <1>2, MoveFileStep
<1>3. CASE \E e \in Folders, d \in Parents, x \in Names : MoveFolder(e, d, x)
    BY <1>3, MoveFolderStep
<1>4. CASE \E f \in Files : DeleteFile(f) \/ RestoreFile(f)
    BY <1>4, DeleteFileStep, RestoreFileStep
<1>5. CASE \E d \in Folders : DeleteFolder(d) \/ RestoreFolder(d)
    BY <1>5, DeleteFolderStep, RestoreFolderStep
<1>6. CASE \E f \in Files, c \in Sets : RollbackFile(f, c)
    BY <1>6, RollbackFileStep
<1>7. CASE \E d \in Folders, c \in Sets : RollbackFolder(d, c)
    BY <1>7, RollbackFolderStep
<1>8. CASE \E path \in UploadPaths : BeginUpload(path)
    BY <1>8, BeginUploadStep
<1>9. CASE \E present \in BOOLEAN : ReplaceContents(present)
    BY <1>9, ReplaceContentsStep
<1>10. CASE AbortUpload
    BY <1>10, AbortUploadStep
<1>11. CASE RetentionPasses
    BY <1>11, RetentionPassesStep
<1>12. CASE \E c \in Sets : PurgeTree(c)
    BY <1>12, PurgeTreeStep
<1>13. CASE UNCHANGED vars
  <2>1. /\ UNCHANGED <<node, text, stats, split>> /\ set' = set /\ upload' = upload
        /\ elapsed' = elapsed
      BY <1>13 DEF vars
  <2>2. TypeOK' /\ Slots' /\ Kept' = Kept
      BY <2>1 DEF IInv, TypeOK, Slots, Free, Kept
  <2> QED
      BY <2>1, <2>2, RowsUntouched
<1> QED
    BY <1>1, <1>2, <1>3, <1>4, <1>5, <1>6, <1>7, <1>8, <1>9, <1>10, <1>11, <1>12, <1>13
    DEF Next

(* The rows of a project stay a forest whose deletions can be undone, whatever
   moves, deletions, restorations, rollbacks, uploads and purges follow. *)
THEOREM Invariance == Spec => []IInv
BY InitialInv, Inductive, PTL DEF Spec

-----------------------------------------------------------------------------
(* The folders form a tree that their paths follow, as long as no folder came
   back below a deleted one no two active rows of a kind share a path, and each
   deleted row is recorded in the operation that holds it: for every number of
   folders, files, names and change sets, and every depth. *)
THEOREM TreeStaysSound == Spec => []TreeSound
<1>1. IInv => TreeSound
  <2> SUFFICES ASSUME IInv PROVE TreeSound
      OBVIOUS
  <2>1. node \in [Nodes -> Row] /\ Placed /\ Distinct /\ Owned
      BY DEF IInv, TypeOK
  <2>2. \A d \in Here \intersect Folders :
          /\ node[d].parent # Root => node[d].parent \in Here
          /\ node[d].path = Join(node[d].parent, node[d].name)
          /\ d \notin Above(d)
      BY <2>1, Acyclic DEF Placed
  <2>3. ~split => \A kind \in {Folders, Files} : \A m, n \in kind :
          Active(m) /\ Active(n) /\ node[m].path = node[n].path => m = n
      BY <2>1 DEF Distinct, Active
  <2>4. \A n \in Here : ~Active(n) =>
          LET c == node[n].owner
          IN c \in Kept /\ set[c].op = "delete" /\ n \in DOMAIN set[c].before
      BY <2>1 DEF Owned
  <2> QED
      BY <2>2, <2>3, <2>4 DEF TreeSound
<1> QED
    BY <1>1, Invariance, PTL

(* The materialised count of the project is the count over the exposed files,
   however many moves, deletions, restorations, rollbacks, uploads and purges
   came before, unless a folder was restored below a deleted one. *)
THEOREM StatsStayExact == Spec => []StatsExact
<1>1. IInv => StatsExact
  <2> SUFFICES ASSUME IInv, ~split PROVE stats = Total(Exposed, text)
      BY DEF StatsExact
  <2>1. node \in [Nodes -> Row] /\ Placed /\ Sheltered
      BY DEF IInv, TypeOK
  <2>2. \A f \in Files : Active(f) => ChainActive(f)
      BY <2>1, ChainOfActive, Kinds
  <2>3. {f \in Exposed : text[f] = "live"} = Visible
      BY <2>2 DEF Exposed, Visible
  <2> QED
      BY <2>3 DEF Total, IInv, Accounted
<1> QED
    BY <1>1, Invariance, PTL

-----------------------------------------------------------------------------
(* History *)

LEMMA LeastStays ==
  ASSUME NEW S \in SUBSET Nat, S # {}, NEW e \in Nat, \A d \in S : d < e
  PROVE  Min(S \union {e}) = Min(S) /\ Min(S) \in S
<1>1. Min(S) \in S /\ \A x \in S : Min(S) <= x
    BY Least
<1>2. S \union {e} \in SUBSET Nat /\ S \union {e} # {}
    OBVIOUS
<1>3. Min(S \union {e}) \in S \union {e} /\ \A x \in S \union {e} : Min(S \union {e}) <= x
    BY <1>2, Least
<1>4. Min(S) \in Nat /\ Min(S) < e /\ Min(S \union {e}) \in Nat
    BY <1>1, <1>3
<1>5. Min(S \union {e}) <= Min(S)
    BY <1>1, <1>3
<1>6. Min(S \union {e}) # e
    BY <1>4, <1>5
<1>7. Min(S) <= Min(S \union {e})
    BY <1>1, <1>3, <1>6
<1> QED
    BY <1>1, <1>4, <1>5, <1>7

LaterTexts(f, c) == {d \in Kept : d > c /\ f \in DOMAIN set[d].textBefore}

SameHistory(f, c) == Structure(f, c)' = Structure(f, c) /\ Text(f, c)' = Text(f, c)

(* A change set after all others that keeps what it changes. *)
LEMMA HistoryGoesOn ==
  ASSUME NEW f \in Files, NEW c \in Kept, NEW e \in Nat, Kept' = Kept \union {e},
         \A d \in Kept : d < e /\ set'[d] = set[d],
         IF f \in DOMAIN set'[e].before
         THEN set'[e].before[f] = SnapshotOf(node[f]) ELSE node'[f] = node[f],
         IF f \in DOMAIN set'[e].textBefore
         THEN set'[e].textBefore[f] = text[f] ELSE text'[f] = text[f]
  PROVE  SameHistory(f, c)
<1>1. Kept \in SUBSET Nat /\ c < e
    BY Kinds DEF Kept
<1> DEFINE S == LaterItems(f, c)
           T == LaterTexts(f, c)
<1>2. /\ S \in SUBSET Nat /\ \A d \in S : d < e /\ set'[d] = set[d]
      /\ T \in SUBSET Nat /\ \A d \in T : d < e /\ set'[d] = set[d]
    BY <1>1 DEF LaterItems, LaterTexts
<1>3. /\ LaterItems(f, c)' = IF f \in DOMAIN set'[e].before THEN S \union {e} ELSE S
      /\ LaterTexts(f, c)' = IF f \in DOMAIN set'[e].textBefore THEN T \union {e} ELSE T
    BY <1>1 DEF LaterItems, LaterTexts
<1>4. Min({e}) = e
  <2>1. {e} \in SUBSET Nat /\ {e} # {}
      OBVIOUS
  <2> QED
      BY <2>1, Least
<1>5. /\ Structure(f, c) = IF S = {} THEN SnapshotOf(node[f]) ELSE set[Min(S)].before[f]
      /\ Structure(f, c)' = IF LaterItems(f, c)' = {} THEN SnapshotOf(node'[f])
                            ELSE set'[Min(LaterItems(f, c)')].before[f]
    BY DEF Structure, SnapshotOf
<1>6. /\ Text(f, c) = IF T = {} THEN text[f] ELSE set[Min(T)].textBefore[f]
      /\ Text(f, c)' = IF LaterTexts(f, c)' = {} THEN text'[f]
                       ELSE set'[Min(LaterTexts(f, c)')].textBefore[f]
    BY DEF Text, LaterTexts
<1>7. S # {} => Min(S \union {e}) = Min(S) /\ Min(S) \in S
    BY <1>2, LeastStays
<1>8. T # {} => Min(T \union {e}) = Min(T) /\ Min(T) \in T
    BY <1>2, LeastStays
<1>9. (S # {} => Min(S) \in S) /\ (T # {} => Min(T) \in T)
    BY <1>7, <1>8
<1> HIDE DEF S, T
<1>10. Structure(f, c)' = Structure(f, c)
  <2>1. CASE S = {}
    <3>1. CASE f \in DOMAIN set'[e].before
      <4>1. LaterItems(f, c)' = {e}
          BY <1>3, <2>1, <3>1
      <4> QED
          BY <1>4, <1>5, <2>1, <3>1, <4>1
    <3>2. CASE f \notin DOMAIN set'[e].before
      <4>1. LaterItems(f, c)' = {}
          BY <1>3, <2>1, <3>2
      <4> QED
          BY <1>5, <2>1, <3>2, <4>1
    <3> QED
        BY <3>1, <3>2
  <2>2. CASE S # {}
    <3>1. LaterItems(f, c)' # {} /\ Min(LaterItems(f, c)') = Min(S)
        BY <1>3, <1>7, <2>2
    <3>2. set'[Min(S)] = set[Min(S)]
        BY <1>2, <1>7, <2>2
    <3> QED
        BY <1>5, <2>2, <3>1, <3>2
  <2> QED
      BY <2>1, <2>2
<1>11. Text(f, c)' = Text(f, c)
  <2>1. CASE T = {}
    <3>1. CASE f \in DOMAIN set'[e].textBefore
      <4>1. LaterTexts(f, c)' = {e}
          BY <1>3, <2>1, <3>1
      <4> QED
          BY <1>4, <1>6, <2>1, <3>1, <4>1
    <3>2. CASE f \notin DOMAIN set'[e].textBefore
      <4>1. LaterTexts(f, c)' = {}
          BY <1>3, <2>1, <3>2
      <4> QED
          BY <1>6, <2>1, <3>2, <4>1
    <3> QED
        BY <3>1, <3>2
  <2>2. CASE T # {}
    <3>1. LaterTexts(f, c)' # {} /\ Min(LaterTexts(f, c)') = Min(T)
        BY <1>3, <1>8, <2>2
    <3>2. set'[Min(T)] = set[Min(T)]
        BY <1>2, <1>8, <2>2
    <3> QED
        BY <1>6, <2>2, <3>1, <3>2
  <2> QED
      BY <2>1, <2>2
<1> QED
    BY <1>10, <1>11 DEF SameHistory

(* No later change set comes or goes. *)
LEMMA HistoryRests ==
  ASSUME NEW f \in Files, NEW c \in Kept, Later(c)' = Later(c),
         \A d \in Later(c) : set'[d] = set[d], node'[f] = node[f], text'[f] = text[f]
  PROVE  SameHistory(f, c)
<1>1. /\ LaterItems(f, c) \subseteq Later(c) /\ LaterTexts(f, c) \subseteq Later(c)
      /\ LaterItems(f, c) \in SUBSET Kept /\ LaterTexts(f, c) \in SUBSET Kept
    BY DEF LaterItems, LaterTexts, Later
<1>2. LaterItems(f, c)' = LaterItems(f, c) /\ LaterTexts(f, c)' = LaterTexts(f, c)
  <2>1. /\ LaterItems(f, c) = {d \in Later(c) : f \in DOMAIN set[d].before}
        /\ LaterTexts(f, c) = {d \in Later(c) : f \in DOMAIN set[d].textBefore}
      BY DEF LaterItems, LaterTexts, Later
  <2>2. /\ LaterItems(f, c)' = {d \in Later(c)' : f \in DOMAIN set'[d].before}
        /\ LaterTexts(f, c)' = {d \in Later(c)' : f \in DOMAIN set'[d].textBefore}
      BY DEF LaterItems, LaterTexts, Later
  <2> QED
      BY <2>1, <2>2
<1>3. /\ LaterItems(f, c) # {} => Min(LaterItems(f, c)) \in Later(c)
      /\ LaterTexts(f, c) # {} => Min(LaterTexts(f, c)) \in Later(c)
    BY <1>1, LeastSet
<1>4. /\ Structure(f, c) = IF LaterItems(f, c) = {} THEN SnapshotOf(node[f])
                           ELSE set[Min(LaterItems(f, c))].before[f]
      /\ Structure(f, c)' = IF LaterItems(f, c)' = {} THEN SnapshotOf(node'[f])
                            ELSE set'[Min(LaterItems(f, c)')].before[f]
    BY DEF Structure, SnapshotOf
<1>5. /\ Text(f, c) = IF LaterTexts(f, c) = {} THEN text[f]
                      ELSE set[Min(LaterTexts(f, c))].textBefore[f]
      /\ Text(f, c)' = IF LaterTexts(f, c)' = {} THEN text'[f]
                       ELSE set'[Min(LaterTexts(f, c)')].textBefore[f]
    BY DEF Text, LaterTexts
<1> QED
    BY <1>2, <1>3, <1>4, <1>5 DEF SameHistory

(* Applying a plan that keeps each row it changes. *)
LEMMA ApplyGoesOn ==
  ASSUME IInv, NEW p, Apply(p), p.op \in Operations,
         NEW f \in Files, NEW c \in Kept, f \notin p.items => p.rows[f] = node[f]
  PROVE  SameHistory(f, c)
<1> DEFINE e == NextSet
<1>1. e \in Free /\ \A d \in Free : e <= d
  <2>1. Free \in SUBSET Nat /\ Free # {}
      BY Kinds DEF Free, Apply
  <2> QED
      BY <2>1, Least DEF NextSet
<1>2. e \in Sets /\ e \in Nat /\ set[e] = Unused /\ set \in [Sets -> ChangeSet]
    BY <1>1, Kinds DEF Free, IInv, TypeOK
<1>3. set' = [set EXCEPT ![e] = Recorded(p)] /\ node' = p.rows /\ text' = p.texts
    BY DEF Apply
<1> HIDE DEF e
<1>4. /\ set'[e] = Recorded(p) /\ \A d \in Sets : d # e => set'[d] = set[d]
      /\ Recorded(p).op = p.op
    BY <1>2, <1>3 DEF Recorded
<1>5. Recorded(p) \notin {Unused, Pending, Removed}
    BY <1>4 DEF Operations, Unused, Pending, Removed
<1>6. Kept' = Kept \union {e}
    BY <1>2, <1>4, <1>5 DEF Kept
<1>7. \A d \in Kept : d < e /\ set'[d] = set[d]
  <2>1. ASSUME NEW d \in Kept PROVE d < e /\ set'[d] = set[d]
    <3>1. d \in Sets /\ d \in Nat /\ d \notin Free
        BY Kinds DEF Kept, Free
    <3>2. ~(d > e)
        BY <1>1, <3>1 DEF IInv, Slots
    <3>3. d # e
        BY <1>1, <3>1
    <3> QED
        BY <1>2, <1>4, <3>1, <3>2, <3>3
  <2> QED
      BY <2>1
<1>8. IF f \in DOMAIN set'[e].before
      THEN set'[e].before[f] = SnapshotOf(node[f]) ELSE node'[f] = node[f]
  <2>1. set'[e].before = [n \in p.items |-> SnapshotOf(node[n])]
      BY <1>4 DEF Recorded
  <2> QED
      BY <1>3, <2>1
<1>9. IF f \in DOMAIN set'[e].textBefore
      THEN set'[e].textBefore[f] = text[f] ELSE text'[f] = text[f]
  <2>1. set'[e].textBefore = [g \in {h \in Files : p.texts[h] # text[h]} |-> text[g]]
      BY <1>4 DEF Recorded
  <2> QED
      BY <1>3, <2>1
<1> QED
    BY <1>2, <1>6, <1>7, <1>8, <1>9, HistoryGoesOn

(* The plans keep every row they change. *)
LEMMA PlansGoOn ==
  ASSUME IInv, NEW f \in Files, NEW c \in Kept, f \in Here,
         \/ \E g \in Files, d \in Parents, x \in Names : MoveFile(g, d, x)
         \/ \E e \in Folders, d \in Parents, x \in Names : MoveFolder(e, d, x)
         \/ \E g \in Files : DeleteFile(g) \/ RestoreFile(g)
         \/ \E d \in Folders : DeleteFolder(d) \/ RestoreFolder(d)
         \/ \E g \in Files, b \in Sets : RollbackFile(g, b)
         \/ \E d \in Folders, b \in Sets : RollbackFolder(d, b)
  PROVE  SameHistory(f, c)
<1>1. f \in Nodes /\ f \notin Folders /\ node \in [Nodes -> Row]
    BY Kinds DEF IInv, TypeOK
<1>2. ASSUME NEW g \in Files, NEW dest \in Parents, NEW name \in Names, NEW path
      PROVE  f # g => Rewritten(g, dest, name, path)[f] = node[f]
    BY <1>1 DEF Rewritten
<1>3. ASSUME NEW N, NEW op
      PROVE  f \notin N => Marked(N, op)[f] = node[f]
    BY <1>1 DEF Marked
<1>4. ASSUME NEW d \in Folders, NEW dest, NEW name
      PROVE  f \notin Subtree(d) => MovedTree(d, dest, name)[f] = node[f]
    BY <1>1 DEF MovedTree
<1>5. CASE \E g \in Files, d \in Parents, x \in Names : MoveFile(g, d, x)
  <2>1. PICK g \in Files, d \in Parents, x \in Names : MoveFile(g, d, x)
      BY <1>5
  <2> DEFINE p == FileMove(g, d, x)
  <2>2. /\ Apply(p) /\ p.op = "move" /\ p.items = {g}
        /\ p.rows = Rewritten(g, d, x, Join(d, x))
      BY <2>1 DEF MoveFile, FileMove, Plan, Rewritten
  <2> HIDE DEF p
  <2>3. p.op \in Operations /\ (f \notin p.items => p.rows[f] = node[f])
      BY <1>2, <2>2 DEF Operations
  <2> QED
      BY <2>2, <2>3, ApplyGoesOn
<1>6. CASE \E e \in Folders, d \in Parents, x \in Names : MoveFolder(e, d, x)
  <2>1. PICK e \in Folders, d \in Parents, x \in Names : MoveFolder(e, d, x)
      BY <1>6
  <2> DEFINE p == Plan("move", e, Subtree(e), MovedTree(e, d, x), text, 0)
  <2>2. /\ Apply(p) /\ p.op = "move" /\ p.items = Subtree(e)
        /\ p.rows = MovedTree(e, d, x)
      BY <2>1 DEF MoveFolder, Plan
  <2> HIDE DEF p
  <2>3. p.op \in Operations /\ (f \notin p.items => p.rows[f] = node[f])
      BY <1>4, <2>2 DEF Operations
  <2> QED
      BY <2>2, <2>3, ApplyGoesOn
<1>7. CASE \E g \in Files : DeleteFile(g) \/ RestoreFile(g)
  <2>1. PICK g \in Files : DeleteFile(g) \/ RestoreFile(g)
      BY <1>7
  <2>2. \E p : /\ Apply(p) /\ p.op \in Operations
               /\ \E N, op : p.items = N /\ p.rows = Marked(N, op)
    <3>1. CASE DeleteFile(g)
      <4> DEFINE p == FileDeletion(g)
      <4>1. /\ Apply(p) /\ p.op = "delete" /\ p.items = {g}
            /\ p.rows = Marked({g}, NextSet)
          BY <3>1 DEF DeleteFile, FileDeletion, Plan
      <4> HIDE DEF p
      <4> QED
          BY <4>1 DEF Operations
    <3>2. CASE RestoreFile(g)
      <4> DEFINE p == Plan("restore", g, {g}, Marked({g}, 0), text, Weight(text[g]))
      <4>1. Apply(p) /\ p.op = "restore" /\ p.items = {g} /\ p.rows = Marked({g}, 0)
          BY <3>2 DEF RestoreFile, Plan
      <4> HIDE DEF p
      <4> QED
          BY <4>1 DEF Operations
    <3> QED
        BY <2>1, <3>1, <3>2
  <2> QED
      BY <1>3, <2>2, ApplyGoesOn
<1>8. CASE \E d \in Folders : DeleteFolder(d) \/ RestoreFolder(d)
  <2>1. PICK d \in Folders : DeleteFolder(d) \/ RestoreFolder(d)
      BY <1>8
  <2>2. \E p : /\ Apply(p) /\ p.op \in Operations
               /\ \E N, op : p.items = N /\ p.rows = Marked(N, op)
    <3>1. CASE DeleteFolder(d)
      <4> DEFINE p == FolderDeletion(d)
      <4>1. /\ Apply(p) /\ p.op = "delete" /\ p.items = Doomed(d)
            /\ p.rows = Marked(Doomed(d), NextSet)
          BY <3>1 DEF DeleteFolder, FolderDeletion, Plan
      <4> HIDE DEF p
      <4> QED
          BY <4>1 DEF Operations
    <3>2. CASE RestoreFolder(d)
      <4> DEFINE p == FolderRestoration(d)
      <4>1. /\ Apply(p) /\ p.op = "restore" /\ p.items = Held(d)
            /\ p.rows = Marked(Held(d), 0)
          BY <3>2 DEF RestoreFolder, FolderRestoration, Plan
      <4> HIDE DEF p
      <4> QED
          BY <4>1 DEF Operations
    <3> QED
        BY <2>1, <3>1, <3>2
  <2> QED
      BY <1>3, <2>2, ApplyGoesOn
<1>9. CASE \E g \in Files, b \in Sets : RollbackFile(g, b)
  <2>1. PICK g \in Files, b \in Sets : RollbackFile(g, b)
      BY <1>9
  <2> DEFINE p == FileReversion(g, b)
             rows == [node EXCEPT ![g].parent = Structure(g, b).parent,
                                  ![g].name = Structure(g, b).name,
                                  ![g].path = Structure(g, b).path]
  <2>2. /\ Apply(p) /\ p.op = "rollback" /\ p.rows = rows
        /\ p.items = IF rows # node THEN {g} ELSE {}
      BY <2>1 DEF RollbackFile, FileReversion, Plan
  <2>3. f # g => rows[f] = node[f]
      BY <1>1
  <2> HIDE DEF p, rows
  <2>4. p.op \in Operations /\ (f \notin p.items => p.rows[f] = node[f])
      BY <2>2, <2>3 DEF Operations
  <2> QED
      BY <2>2, <2>4, ApplyGoesOn
<1>10. CASE \E d \in Folders, b \in Sets : RollbackFolder(d, b)
  <2>1. PICK d \in Folders, b \in Sets : RollbackFolder(d, b)
      BY <1>10
  <2> DEFINE p == FolderReversion(d, b)
             rows == MovedTree(d, Structure(d, b).parent, Structure(d, b).name)
  <2>2. Apply(p) /\ p.op = "rollback" /\ p.items = Subtree(d) /\ p.rows = rows
      BY <2>1 DEF RollbackFolder, FolderReversion, Plan
  <2>3. f \notin Subtree(d) => rows[f] = node[f]
      BY <1>1 DEF MovedTree
  <2> HIDE DEF p, rows
  <2>4. p.op \in Operations /\ (f \notin p.items => p.rows[f] = node[f])
      BY <2>2, <2>3 DEF Operations
  <2> QED
      BY <2>2, <2>4, ApplyGoesOn
<1> QED
    BY <1>5, <1>6, <1>7, <1>8, <1>9, <1>10

(* An upload commits a change set with the time of its beginning; here the case
   that nothing was committed in between. *)
LEMMA UploadGoesOn ==
  ASSUME IInv, NEW present \in BOOLEAN, ReplaceContents(present),
         NEW f \in Files, NEW c \in Kept, f \in Here,
         \A d \in Kept' \ Kept : Later(d) \intersect Kept = {}
  PROVE  SameHistory(f, c)
<1> DEFINE path == upload.path
           e == upload.slot
           g == FileAt(path)
           after == Replacement(text[g], present)
           items == {h \in {g} : after # text[g]}
           record == [op |-> "upload", target |-> g, before |-> <<>>,
                      textBefore |-> [h \in items |-> text[h]]]
<1>1. /\ upload # NoUpload /\ Creatable(path) /\ node' = Ensured(path)
      /\ text' = [text EXCEPT ![g] = after] /\ set' = [set EXCEPT ![e] = record]
    BY DEF ReplaceContents
<1>2. /\ set \in [Sets -> ChangeSet] /\ e \in Sets /\ e \in Nat /\ set[e] = Pending
      /\ node \in [Nodes -> Row] /\ path \in Paths /\ text \in [Files -> Texts]
    BY <1>1, Kinds DEF IInv, TypeOK
<1>3. node'[f] = node[f]
  <2>1. f \in Nodes /\ f \notin Created(path)
      BY Kinds DEF Created
  <2> QED
      BY <1>1, <1>2, <2>1, EnsuredRows
<1>4. record.op = "upload" /\ record.before = <<>> /\ record.textBefore = [h \in items |-> text[h]]
    OBVIOUS
<1>5. DOMAIN record.before = {}
  <2>1. <<>> \in [{} -> Snapshot]
      BY NoItems
  <2> QED
      BY <1>4, <2>1
<1>6. IF f \in DOMAIN record.textBefore
      THEN record.textBefore[f] = text[f] ELSE text'[f] = text[f]
  <2>1. CASE f \in items
      BY <1>4, <2>1
  <2>2. CASE f \notin items
    <3>1. f # g \/ after = text[g]
        BY <2>2
    <3>2. text'[f] = text[f]
        BY <1>1, <1>2, <3>1
    <3> QED
        BY <1>4, <2>2, <3>2
  <2> QED
      BY <2>1, <2>2
<1> HIDE DEF e, record
<1>7. set'[e] = record /\ \A d \in Sets : d # e => set'[d] = set[d]
    BY <1>1, <1>2
<1>8. record \notin {Unused, Pending, Removed}
    BY <1>4 DEF Unused, Pending, Removed
<1>9. e \notin Kept /\ Kept' = Kept \union {e}
    BY <1>2, <1>7, <1>8, Marks DEF Kept
<1>10. \A d \in Kept : d < e /\ set'[d] = set[d]
  <2>1. ASSUME NEW d \in Kept PROVE d < e /\ set'[d] = set[d]
    <3>1. d \in Sets /\ d \in Nat /\ d # e
        BY <1>9, Kinds DEF Kept
    <3>2. ~(d > e)
        BY <1>9 DEF Later
    <3> QED
        BY <1>2, <1>7, <3>1, <3>2
  <2> QED
      BY <2>1
<1> QED
    BY <1>2, <1>3, <1>5, <1>6, <1>7, <1>9, <1>10, HistoryGoesOn

(* Later requests do not change the version of a file that a rollback to a
   change set would materialise, except that a purge takes a later change set
   away, and that an upload commits one with an earlier time. *)
THEOREM VersionsStayStable == Spec => VersionsStable
<1> DEFINE Stable ==
      \A f \in Files, c \in Sets :
       /\ About(c, f) /\ About(c, f)' /\ f \in Here /\ f \in Here'
       /\ Later(c) \subseteq Kept'
       /\ \A d \in Kept' \ Kept : Later(d) \intersect Kept = {}
       => /\ Structure(f, c)' = Structure(f, c)
          /\ Text(f, c)' = Text(f, c)
<1>1. IInv /\ [Next]_vars => Stable
  <2> SUFFICES ASSUME IInv, [Next]_vars, NEW f \in Files, NEW c \in Sets,
                      About(c, f), f \in Here, f \in Here',
                      Later(c) \subseteq Kept',
                      \A d \in Kept' \ Kept : Later(d) \intersect Kept = {}
               PROVE  SameHistory(f, c)
      BY DEF SameHistory
  <2>1. c \in Kept /\ f \in Nodes /\ f \notin Folders
      BY Kinds DEF About
  <2>2. CASE \E d \in Parents, x \in Names : CreateFolder(d, x)
    <3>1. PICK d \in Parents, x \in Names : CreateFolder(d, x)
        BY <2>2
    <3>2. Fresh(Folders) # {} /\ set' = set /\ text' = text
        BY <3>1 DEF CreateFolder
    <3>3. Min(Fresh(Folders)) # f
        BY <2>1, <3>2, FirstFresh DEF Fresh
    <3>4. node'[f] = node[f]
        BY <2>1, <3>1, <3>3 DEF CreateFolder, IInv, TypeOK
    <3>5. Later(c)' = Later(c) /\ text'[f] = text[f] /\ \A b \in Later(c) : set'[b] = set[b]
        BY <3>2 DEF Later, Kept
    <3> QED
        BY <2>1, <3>4, <3>5, HistoryRests
  <2>3. ASSUME node' = node, text' = text,
               \A d \in Sets : d \in Kept' <=> d \in Kept,
               \A d \in Kept : set'[d] = set[d]
        PROVE  SameHistory(f, c)
    <3>1. Kept' = Kept
        BY <2>3 DEF Kept
    <3>2. Later(c)' = Later(c) /\ \A d \in Later(c) : set'[d] = set[d]
        BY <2>3, <3>1 DEF Later
    <3> QED
        BY <2>1, <2>3, <3>2, HistoryRests
  <2>4. CASE \E path \in UploadPaths : BeginUpload(path)
    <3>1. /\ node' = node /\ text' = text /\ set' = [set EXCEPT ![NextSet] = Pending]
          /\ Free # {} /\ set \in [Sets -> ChangeSet]
        BY <2>4 DEF BeginUpload, IInv, TypeOK
    <3>2. NextSet \in Sets /\ set[NextSet] = Unused
      <4>1. Free \in SUBSET Nat
          BY Kinds DEF Free
      <4> QED
          BY <3>1, <4>1, Least DEF NextSet, Free
    <3>3. \A d \in Sets : d \in Kept' <=> d \in Kept
        BY <3>1, <3>2, Marks DEF Kept
    <3>4. \A d \in Kept : set'[d] = set[d]
        BY <3>1, <3>2 DEF Kept
    <3> QED
        BY <2>3, <3>1, <3>3, <3>4
  <2>5. CASE AbortUpload
    <3>1. /\ node' = node /\ text' = text /\ set \in [Sets -> ChangeSet]
          /\ set' = [set EXCEPT ![upload.slot] = Removed]
          /\ upload.slot \in Sets /\ set[upload.slot] = Pending
        BY <2>5 DEF AbortUpload, IInv, TypeOK
    <3>2. \A d \in Sets : d \in Kept' <=> d \in Kept
        BY <3>1, Marks DEF Kept
    <3>3. \A d \in Kept : set'[d] = set[d]
        BY <3>1 DEF Kept
    <3> QED
        BY <2>3, <3>1, <3>2, <3>3
  <2>6. CASE RetentionPasses \/ UNCHANGED vars
    <3>1. node' = node /\ text' = text /\ set' = set
        BY <2>6 DEF RetentionPasses, vars
    <3>2. \A d \in Sets : d \in Kept' <=> d \in Kept
        BY <3>1 DEF Kept
    <3> QED
        BY <2>3, <3>1, <3>2
  <2>7. CASE \E b \in Sets : PurgeTree(b)
    <3>1. PICK b \in Sets : PurgeTree(b)
        BY <2>7
    <3> DEFINE tree == DueTree(set[b].target)
    <3>2. /\ node' = [n \in Nodes |-> IF n \in tree THEN [state |-> "gone"] ELSE node[n]]
          /\ text' = [h \in Files |-> IF h \in tree THEN "none" ELSE text[h]]
          /\ set' = [d \in Sets |-> IF d \in Related(b) THEN Removed ELSE set[d]]
        BY <3>1 DEF PurgeTree
    <3>3. f \notin tree
      <4> SUFFICES ASSUME f \in tree PROVE FALSE
          OBVIOUS
      <4>1. node'[f] = [state |-> "gone"]
          BY <2>1, <3>2
      <4> QED
          BY <4>1 DEF Here
    <3>4. node'[f] = node[f] /\ text'[f] = text[f]
        BY <2>1, <3>2, <3>3
    <3>5. \A d \in Sets : d \in Kept' => d \in Kept /\ set'[d] = set[d]
        BY <3>2 DEF Kept
    <3>6. Kept' \subseteq Sets /\ Kept \subseteq Sets
        BY DEF Kept
    <3>7. Later(c)' = Later(c) /\ \A d \in Later(c) : set'[d] = set[d]
        BY <3>5, <3>6 DEF Later
    <3> QED
        BY <2>1, <3>4, <3>7, HistoryRests
  <2>8. CASE \E present \in BOOLEAN : ReplaceContents(present)
      BY <2>1, <2>8, UploadGoesOn
  <2>9. ASSUME \/ \E g \in Files, d \in Parents, x \in Names : MoveFile(g, d, x)
               \/ \E e \in Folders, d \in Parents, x \in Names : MoveFolder(e, d, x)
               \/ \E g \in Files : DeleteFile(g) \/ RestoreFile(g)
               \/ \E d \in Folders : DeleteFolder(d) \/ RestoreFolder(d)
               \/ \E g \in Files, b \in Sets : RollbackFile(g, b)
               \/ \E d \in Folders, b \in Sets : RollbackFolder(d, b)
        PROVE  SameHistory(f, c)
      BY <2>1, <2>9, PlansGoOn
  <2> QED
      BY <2>2, <2>4, <2>5, <2>6, <2>7, <2>8, <2>9 DEF Next
<1>2. Spec => [][Stable]_vars
    BY <1>1, Invariance, PTL DEF Spec
<1> QED
    BY <1>2 DEF VersionsStable
=============================================================================
