------------------------- MODULE EntryEditingProofs -------------------------
(***************************************************************************)
(* The four invariants of EntryEditing for every number of users, files,   *)
(* entries and tasks, and whatever is saved, flagged and uploaded:         *)
(* VersionNamesContent, Attributed, LedgerAgrees and CountsExact.          *)
(*                                                                         *)
(* The first needs that whoever changes a row raises its version.  The     *)
(* second needs that the last row of the history tells what the entry      *)
(* holds now, though its version may be older: tombstones and restorations *)
(* raise the version and leave no history.  The other two compare what is  *)
(* added up step by step with the sum of what is there: for the ledger     *)
(* that no two rows are of one version of an entry, for the counts that    *)
(* every column of every file without a stray write is the number of its   *)
(* rows (CountsInv) and every task the measure of its baseline (TaskInv).  *)
(*                                                                         *)
(* Sums are the fold SumFunctionOnSet of the community modules.  What is   *)
(* needed of them holds for the empty set and survives one more element;   *)
(* a smallest set without it would then be neither (Smallest).             *)
(***************************************************************************)
EXTENDS EntryEditing, FiniteSetTheorems, TLAPS

(* A set of numbers has a least one, and a set of finite sets one that has
   no other below it: induction without a schema. *)
LEMMA Least ==
  ASSUME NEW N \in SUBSET Nat, N # {}
  PROVE  \E n \in N : \A m \in N : n <= m
<1>1. PICK n \in N : \A m \in N : ~(<<m, n>> \in OpToRel(<, Nat))
    BY NatLessThanWellFounded, WFMin
<1>2. ASSUME NEW m \in N PROVE n <= m
  <2>1. <<m, n>> \in Nat \X Nat /\ ~(m < n)
      BY <1>1 DEF OpToRel
  <2> QED
      BY <2>1
<1> QED
    BY <1>2

LEMMA Smallest ==
  ASSUME NEW S, IsFiniteSet(S), NEW Bad \in SUBSET SUBSET S, Bad # {}
  PROVE  \E A \in Bad : \A B \in Bad : B \subseteq A => B = A
<1> DEFINE N == {n \in Nat : \E A \in Bad : n = Cardinality(A)}
<1>1. \A A \in Bad : IsFiniteSet(A) /\ Cardinality(A) \in Nat
    BY FS_Subset, FS_CardinalityType
<1>2. N # {}
    BY <1>1
<1>3. PICK n \in N : \A m \in N : n <= m
    BY <1>2, Least
<1>4. PICK A \in Bad : n = Cardinality(A)
    BY <1>3
<1>5. ASSUME NEW B \in Bad, B \subseteq A PROVE B = A
  <2>1. Cardinality(B) \in N /\ Cardinality(A) \in Nat /\ Cardinality(B) \in Nat
      BY <1>1
  <2>2. Cardinality(A) <= Cardinality(B)
      BY <1>3, <1>4, <2>1
  <2>3. Cardinality(B) <= Cardinality(A) /\ (Cardinality(A) = Cardinality(B) => A = B)
      BY <1>1, <1>5, FS_Subset
  <2> QED
      BY <2>1, <2>2, <2>3
<1> QED
    BY <1>5

-----------------------------------------------------------------------------
(* Sums *)

(* f adds c up over the subsets of S. *)
Adds(f, c, S) ==
  f = [s \in SUBSET S |->
         IF s = {} THEN 0 ELSE LET x == CHOOSE x \in s : TRUE IN c[x] + f[s \ {x}]]

LEMMA SumIsChosen ==
  ASSUME NEW c, NEW S
  PROVE  SumFunctionOnSet(c, S) = (CHOOSE f : Adds(f, c, S))[S]
BY DEF SumFunctionOnSet, FoldFunctionOnSet, MapThenFoldSet, Adds

LEMMA AddsExists ==
  ASSUME NEW c, NEW S, IsFiniteSet(S)
  PROVE  \E f : Adds(f, c, S)
<1> DEFINE Up(n) == {s \in SUBSET S : Cardinality(s) <= n}
           one(s) == CHOOSE x \in s : TRUE
           Body(f, s) == IF s = {} THEN 0 ELSE c[one(s)] + f[s \ {one(s)}]
           Upto(n) == \E f : f = [s \in Up(n) |-> Body(f, s)]
           Bad == {n \in Nat : ~Upto(n)}
<1>1. \A s \in SUBSET S : IsFiniteSet(s) /\ Cardinality(s) \in Nat /\ Cardinality(s) <= Cardinality(S)
    BY FS_Subset, FS_CardinalityType
<1>2. Upto(0)
  <2>1. \A s \in Up(0) : s = {}
      BY <1>1, FS_EmptySet
  <2> DEFINE f == [s \in Up(0) |-> 0]
  <2>2. f = [s \in Up(0) |-> Body(f, s)]
      BY <2>1
  <2> QED
      BY <2>2
<1>3. ASSUME NEW n \in Nat, Upto(n) PROVE Upto(n + 1)
  <2>1. PICK f : f = [s \in Up(n) |-> Body(f, s)]
      BY <1>3
  <2> DEFINE g == [s \in Up(n + 1) |-> Body(f, s)]
  <2>2. ASSUME NEW s \in Up(n + 1) PROVE Body(f, s) = Body(g, s)
    <3>1. CASE s = {}
        BY <3>1
    <3>2. CASE s # {}
      <4> DEFINE t == s \ {one(s)}
      <4>1. one(s) \in s
          BY <3>2
      <4>2. t \in SUBSET S /\ Cardinality(t) = Cardinality(s) - 1
          BY <1>1, <4>1, FS_RemoveElement
      <4>3. t \in Up(n) /\ t \in Up(n + 1)
          BY <1>1, <4>2
      <4>4. f[t] = Body(f, t) /\ g[t] = Body(f, t)
          BY <2>1, <4>3
      <4> QED
          BY <4>4
    <3> QED
        BY <3>1, <3>2
  <2>3. g = [s \in Up(n + 1) |-> Body(g, s)]
      BY <2>2
  <2> QED
      BY <2>3
<1> HIDE DEF Upto
<1>4. Bad = {}
  <2> SUFFICES ASSUME Bad # {} PROVE FALSE
      OBVIOUS
  <2>1. PICK n \in Bad : \A m \in Bad : n <= m
      BY Least
  <2>2. n # 0 /\ n \in Nat
      BY <1>2, <2>1
  <2>3. n - 1 \in Nat /\ ~(n <= n - 1) /\ (n - 1) + 1 = n
      BY <2>2
  <2>4. Upto(n - 1)
      BY <2>1, <2>3
  <2> QED
      BY <1>3, <2>1, <2>3, <2>4
<1>5. Upto(Cardinality(S))
    BY <1>1, <1>4
<1>6. Up(Cardinality(S)) = SUBSET S
    BY <1>1
<1> QED
    BY <1>5, <1>6 DEF Adds, Upto

(* Which element is taken first does not matter. *)
Additive(f, c, S) ==
  /\ f[{}] = 0
  /\ \A s \in SUBSET S : f[s] \in Int /\ \A x \in s : f[s] = c[x] + f[s \ {x}]

LEMMA AddsAny ==
  ASSUME NEW S, IsFiniteSet(S), NEW c, \A x \in S : c[x] \in Int, NEW f, Adds(f, c, S)
  PROVE  Additive(f, c, S)
<1> DEFINE one(s) == CHOOSE x \in s : TRUE
           Fine(s) == f[s] \in Int /\ \A x \in s : f[s] = c[x] + f[s \ {x}]
           Bad == {s \in SUBSET S : ~Fine(s)}
<1>1. f[{}] = 0
    BY DEF Adds
<1>2. \A s \in SUBSET S : s # {} => one(s) \in s /\ f[s] = c[one(s)] + f[s \ {one(s)}]
    BY DEF Adds
<1>3. Fine({})
    BY <1>1
<1>4. Bad = {}
  <2> SUFFICES ASSUME Bad # {} PROVE FALSE
      OBVIOUS
  <2>0. Bad \in SUBSET SUBSET S
      OBVIOUS
  <2> HIDE DEF Bad
  <2>1. PICK s \in Bad : \A t \in Bad : t \subseteq s => t = s
      BY <2>0, Smallest
  <2> USE DEF Bad
  <2> DEFINE y == one(s)
  <2>2. s # {} /\ s \in SUBSET S /\ y \in s /\ f[s] = c[y] + f[s \ {y}]
      BY <1>2, <1>3, <2>1
  <2> HIDE DEF y
  <2>3. \A x \in s : s \ {x} \in SUBSET S /\ s \ {x} \subseteq s /\ s \ {x} # s
      BY <2>2
  <2>4. \A x \in s : Fine(s \ {x})
      BY <2>1, <2>3
  <2>5. f[s] \in Int
      BY <2>2, <2>4
  <2>6. ASSUME NEW x \in s PROVE f[s] = c[x] + f[s \ {x}]
    <3>1. CASE x = y
        BY <2>2, <3>1
    <3>2. CASE x # y
      <4>1. /\ f[s \ {y}] = c[x] + f[(s \ {y}) \ {x}]
            /\ f[s \ {x}] = c[y] + f[(s \ {x}) \ {y}]
          BY <2>2, <2>4, <3>2
      <4>2. (s \ {y}) \ {x} = (s \ {x}) \ {y} /\ (s \ {x}) \ {y} \in SUBSET S
          BY <2>2
      <4>3. (s \ {x}) \ {y} \in SUBSET s /\ (s \ {x}) \ {y} # s
          BY <2>2
      <4>4. f[(s \ {x}) \ {y}] \in Int
          BY <2>1, <4>2, <4>3
      <4>5. c[x] \in Int /\ c[y] \in Int
          BY <2>2
      <4>6. \A a, b, k \in Int : b + (a + k) = a + (b + k)
          OBVIOUS
      <4> DEFINE k == f[(s \ {x}) \ {y}]
      <4>7. f[s] = c[y] + (c[x] + k) /\ f[s \ {x}] = c[y] + k /\ k \in Int
          BY <2>2, <4>1, <4>2, <4>4
      <4> HIDE DEF k, Fine, one
      <4> QED
          BY ONLY <4>5, <4>6, <4>7
    <3> QED
        BY <3>1, <3>2
  <2> QED
      BY <2>1, <2>5, <2>6
<1> QED
    BY <1>1, <1>4 DEF Additive

LEMMA SumStep ==
  ASSUME NEW S, IsFiniteSet(S), NEW c, \A x \in S : c[x] \in Int
  PROVE  /\ SumFunctionOnSet(c, S) \in Int
         /\ \A x \in S : SumFunctionOnSet(c, S) = c[x] + SumFunctionOnSet(c, S \ {x})
<1> DEFINE F(T) == CHOOSE f : Adds(f, c, T)
<1>1. \A T \in SUBSET S : IsFiniteSet(T) /\ Adds(F(T), c, T)
    BY FS_Subset, AddsExists
<1>0. \A T \in SUBSET S : SumFunctionOnSet(c, T) = F(T)[T]
    BY SumIsChosen
<1> HIDE DEF F
<1>2. \A T \in SUBSET S : Additive(F(T), c, T)
  <2>1. \A T \in SUBSET S : IsFiniteSet(T) /\ \A x \in T : c[x] \in Int
      BY <1>1
  <2> QED
      BY ONLY <1>1, <2>1, AddsAny
<1>3. ASSUME NEW T \in SUBSET S, NEW s \in SUBSET T PROVE F(T)[s] = F(S)[s]
  <2> DEFINE Bad == {t \in SUBSET T : F(T)[t] # F(S)[t]}
  <2> SUFFICES ASSUME Bad # {} PROVE FALSE
      OBVIOUS
  <2>0. Bad \in SUBSET SUBSET T /\ IsFiniteSet(T)
      BY <1>1
  <2> HIDE DEF Bad
  <2>1. PICK t \in Bad : \A u \in Bad : u \subseteq t => u = t
      BY <2>0, Smallest
  <2> USE DEF Bad
  <2>2. t # {}
      BY <1>2, <2>1 DEF Additive
  <2>3. PICK x \in t : TRUE
      BY <2>2
  <2>4. F(T)[t] = c[x] + F(T)[t \ {x}] /\ F(S)[t] = c[x] + F(S)[t \ {x}]
      BY <1>2 DEF Additive
  <2>5. F(T)[t \ {x}] = F(S)[t \ {x}]
      BY <2>1
  <2> QED
      BY <2>1, <2>4, <2>5
<1>4. \A T \in SUBSET S : SumFunctionOnSet(c, T) = F(S)[T]
    BY <1>0, <1>3
<1>5. S \in SUBSET S /\ \A x \in S : S \ {x} \in SUBSET S
    OBVIOUS
<1> QED
    BY ONLY <1>2, <1>4, <1>5 DEF Additive

LEMMA SumEmpty == ASSUME NEW c PROVE SumFunctionOnSet(c, {}) = 0
<1>1. PICK f : Adds(f, c, {})
    BY FS_EmptySet, AddsExists
<1>2. Adds(CHOOSE g : Adds(g, c, {}), c, {})
    BY <1>1
<1>3. \A g : Adds(g, c, {}) => g[{}] = 0
    BY DEF Adds
<1> QED
    BY <1>2, <1>3, SumIsChosen

(* Sums over the same values. *)
LEMMA SumSame ==
  ASSUME NEW S, IsFiniteSet(S), NEW c, NEW d, \A x \in S : c[x] \in Int /\ d[x] = c[x]
  PROVE  SumFunctionOnSet(c, S) = SumFunctionOnSet(d, S)
<1> DEFINE Bad == {T \in SUBSET S : SumFunctionOnSet(c, T) # SumFunctionOnSet(d, T)}
<1> SUFFICES ASSUME Bad # {} PROVE FALSE
    OBVIOUS
<1>1. Bad \in SUBSET SUBSET S
    OBVIOUS
<1> HIDE DEF Bad
<1>2. PICK T \in Bad : \A U \in Bad : U \subseteq T => U = T
    BY <1>1, Smallest
<1> USE DEF Bad
<1>3. T # {} /\ T \in SUBSET S
    BY <1>2, SumEmpty
<1>4. PICK x \in T : TRUE
    BY <1>3
<1>5. /\ IsFiniteSet(T)
      /\ \A y \in T : c[y] \in Int /\ d[y] \in Int
      /\ c[x] = d[x]
    BY <1>3, FS_Subset
<1>6. /\ SumFunctionOnSet(c, T) = c[x] + SumFunctionOnSet(c, T \ {x})
      /\ SumFunctionOnSet(d, T) = d[x] + SumFunctionOnSet(d, T \ {x})
    BY ONLY <1>4, <1>5, SumStep
<1>7. SumFunctionOnSet(c, T \ {x}) = SumFunctionOnSet(d, T \ {x})
    BY <1>2, <1>3
<1> QED
    BY <1>2, <1>5, <1>6, <1>7

(* One more summand. *)
LEMMA SumMore ==
  ASSUME NEW S, IsFiniteSet(S), NEW x, x \notin S, NEW c, NEW d,
         \A y \in S : c[y] \in Int /\ d[y] = c[y], d[x] \in Int
  PROVE  SumFunctionOnSet(d, S \union {x}) = SumFunctionOnSet(c, S) + d[x]
<1> DEFINE T == S \union {x}
<1>1. IsFiniteSet(T) /\ \A y \in T : d[y] \in Int
    BY FS_AddElement
<1>2. x \in T /\ T \ {x} = S
    OBVIOUS
<1> HIDE DEF T
<1>3. SumFunctionOnSet(d, T) = d[x] + SumFunctionOnSet(d, S)
  <2>1. SumFunctionOnSet(d, T) = d[x] + SumFunctionOnSet(d, T \ {x})
      BY ONLY <1>1, <1>2, SumStep
  <2> QED
      BY ONLY <1>2, <2>1
<1>4. SumFunctionOnSet(c, S) = SumFunctionOnSet(d, S)
    BY SumSame
<1>5. SumFunctionOnSet(c, S) \in Int
    BY SumStep
<1> QED
    BY <1>3, <1>4, <1>5 DEF T

(* One summand changes. *)
LEMMA SumChange ==
  ASSUME NEW S, IsFiniteSet(S), NEW x \in S, NEW c, NEW d,
         \A y \in S : c[y] \in Int /\ d[y] \in Int /\ (y # x => d[y] = c[y])
  PROVE  SumFunctionOnSet(d, S) = SumFunctionOnSet(c, S) + (d[x] - c[x])
<1> DEFINE T == S \ {x}
<1>1. IsFiniteSet(T) /\ \A y \in T : c[y] \in Int /\ d[y] = c[y]
    BY FS_Subset
<1>2. SumFunctionOnSet(c, T) = SumFunctionOnSet(d, T) /\ SumFunctionOnSet(c, T) \in Int
    BY ONLY <1>1, SumSame, SumStep
<1>3. /\ SumFunctionOnSet(c, S) = c[x] + SumFunctionOnSet(c, T)
      /\ SumFunctionOnSet(d, S) = d[x] + SumFunctionOnSet(d, T)
    BY SumStep
<1>4. c[x] \in Int /\ d[x] \in Int
    OBVIOUS
<1> HIDE DEF T
<1> QED
    BY ONLY <1>2, <1>3, <1>4

LEMMA Disjoint ==
  ASSUME NEW A, IsFiniteSet(A), NEW B \in SUBSET A
  PROVE  /\ Cardinality(A) \in Nat /\ Cardinality(B) \in Nat /\ Cardinality(A \ B) \in Nat
         /\ Cardinality(A) = Cardinality(B) + Cardinality(A \ B)
<1>1. IsFiniteSet(B) /\ IsFiniteSet(A \ B)
    BY FS_Subset
<1>2. B \intersect (A \ B) = {} /\ B \union (A \ B) = A
    OBVIOUS
<1>3. Cardinality(B \union (A \ B))
        = Cardinality(B) + Cardinality(A \ B) - Cardinality(B \intersect (A \ B))
    BY ONLY <1>1, FS_Union
<1>4. Cardinality({}) = 0
    BY FS_EmptySet
<1>5. Cardinality(B) \in Nat /\ Cardinality(A \ B) \in Nat /\ Cardinality(A) \in Nat
    BY ONLY <1>1, IsFiniteSet(A), FS_CardinalityType
<1>6. Cardinality(A) = Cardinality(B) + Cardinality(A \ B) - 0
    BY ONLY <1>2, <1>3, <1>4
<1> QED
    BY ONLY <1>5, <1>6

(* Counting class by class is counting. *)
ClassOf(E, class, x) == {e \in E : class[e] = x}
ClassesOf(E, class, S) == {e \in E : class[e] \in S}

LEMMA SumOfClasses ==
  ASSUME NEW E, IsFiniteSet(E), NEW class, NEW S, IsFiniteSet(S), NEW c,
         \A x \in S : c[x] = Cardinality(ClassOf(E, class, x))
  PROVE  SumFunctionOnSet(c, S) = Cardinality(ClassesOf(E, class, S))
<1> DEFINE Of(T) == ClassesOf(E, class, T)
           One(x) == ClassOf(E, class, x)
           Bad == {T \in SUBSET S : SumFunctionOnSet(c, T) # Cardinality(Of(T))}
<1> SUFFICES ASSUME Bad # {} PROVE FALSE
    OBVIOUS
<1>1. Bad \in SUBSET SUBSET S
    OBVIOUS
<1> HIDE DEF Bad
<1>2. PICK T \in Bad : \A U \in Bad : U \subseteq T => U = T
    BY <1>1, Smallest
<1> USE DEF Bad
<1>3. T \in SUBSET S /\ SumFunctionOnSet(c, T) # Cardinality(Of(T))
    BY <1>2
<1>4. T # {}
  <2>1. Of({}) = {}
      BY DEF ClassesOf
  <2>2. Cardinality({}) = 0
      BY FS_EmptySet
  <2> HIDE DEF Of
  <2> QED
      BY <1>3, <2>1, <2>2, SumEmpty
<1>5. PICK x \in T : TRUE
    BY <1>4
<1>6. SumFunctionOnSet(c, T \ {x}) = Cardinality(Of(T \ {x}))
    BY <1>2, <1>3
<1>7. IsFiniteSet(T) /\ \A y \in T : c[y] \in Int
  <2>1. \A y \in S : IsFiniteSet(One(y))
      BY FS_Subset DEF ClassOf
  <2>2. \A y \in S : c[y] = Cardinality(One(y))
      OBVIOUS
  <2> HIDE DEF One
  <2> QED
      BY <1>3, <2>1, <2>2, FS_Subset, FS_CardinalityType
<1>8. SumFunctionOnSet(c, T) = c[x] + SumFunctionOnSet(c, T \ {x})
    BY ONLY <1>5, <1>7, SumStep
<1>9. One(x) \in SUBSET Of(T) /\ Of(T) \ One(x) = Of(T \ {x}) /\ IsFiniteSet(Of(T))
    BY FS_Subset DEF ClassOf, ClassesOf
<1>10. c[x] = Cardinality(One(x))
    BY <1>3
<1> HIDE DEF Of, One
<1>11. Cardinality(Of(T)) = Cardinality(One(x)) + Cardinality(Of(T \ {x}))
    BY <1>9, Disjoint
<1> QED
    BY <1>3, <1>6, <1>8, <1>10, <1>11

(* A sum of zeros and ones counts the ones. *)
LEMMA SumOfOnes ==
  ASSUME NEW S, IsFiniteSet(S), NEW c, \A x \in S : c[x] \in {0, 1}
  PROVE  SumFunctionOnSet(c, S) = Cardinality({x \in S : c[x] = 1})
<1> DEFINE d == [x \in S |-> x]
           E == {x \in S : c[x] = 1}
<1>1. IsFiniteSet(E)
    BY FS_Subset
<1>2. \A x \in S : c[x] = Cardinality(ClassOf(E, d, x))
  <2> SUFFICES ASSUME NEW x \in S PROVE c[x] = Cardinality(ClassOf(E, d, x))
      OBVIOUS
  <2>1. CASE c[x] = 1
    <3>1. ClassOf(E, d, x) = {x}
        BY <2>1 DEF ClassOf
    <3> QED
        BY <2>1, <3>1, FS_Singleton
  <2>2. CASE c[x] = 0
    <3>1. ClassOf(E, d, x) = {}
        BY <2>2 DEF ClassOf
    <3> QED
        BY <2>2, <3>1, FS_EmptySet
  <2> QED
      BY <2>1, <2>2
<1>3. ClassesOf(E, d, S) = E
    BY DEF ClassesOf
<1> HIDE DEF E, d
<1>4. SumFunctionOnSet(c, S) = Cardinality(ClassesOf(E, d, S))
    BY ONLY <1>1, <1>2, IsFiniteSet(S), SumOfClasses
<1> QED
    BY <1>3, <1>4 DEF E

-----------------------------------------------------------------------------
(* What is kept of rows, drafts and histories *)

Kinds == {"edit", "review", "flags", "baseline", "source_update"}

Record == [version: Nat, kind: Kinds, text: Nat, state: States,
           source: UNION {Sources[e] : e \in Entries}, locked: BOOLEAN, hidden: BOOLEAN]

(* What the history tells of a row. *)
Same(h, r) ==
  /\ h.source = r.source /\ h.text = r.text /\ h.state = r.state
  /\ h.locked = r.locked /\ h.hidden = r.hidden

(* What a new record n says of the step from r. *)
Explains(n, r) ==
  /\ r.source # n.source => n.kind = "source_update"
  /\ r.text # n.text => n.kind \in {"edit", "review"}
  /\ r.state # n.state => n.kind \in {"edit", "review", "source_update"}
  /\ (r.locked # n.locked \/ r.hidden # n.hidden) => n.kind = "flags"

Told(H) ==
  \A new \in H :
    /\ \A other \in H : other.version = new.version => other = new
    /\ \A old \in H :
         (/\ old.version < new.version
          /\ \A h \in H : h.version \notin (old.version + 1)..(new.version - 1)) =>
            Explains(new, old)

(* The history H fits the row r. *)
Fits(H, r) ==
  /\ H \subseteq Record
  /\ \A h \in H : 0 < h.version /\ h.version <= r.version
  /\ Told(H)
  /\ \A h \in H : (\A g \in H : g.version <= h.version) => Same(h, r)

Rows == row \in [Entries -> Row \union {Absent}]
Drafts == draft \in [Users -> {Closed} \union [entry: Entries, seen: Row]]
Seen == \A u \in Users : draft[u] # Closed =>
          draft[u].seen.version <= row[draft[u].entry].version
Histories == history \in [Entries -> SUBSET Record] /\ \A e \in Entries : Fits(history[e], row[e])

Inv == Rows /\ Drafts /\ Seen /\ VersionNamesContent /\ Histories

-----------------------------------------------------------------------------
(* Histories *)

LEMMA Versions == \A r \in Row \union {Absent} : r.version \in Nat /\ (r # Absent => r \in Row)
BY DEF Row, Absent

(* A row that goes on under a new version without a record. *)
LEMMA KeptHistory ==
  ASSUME NEW H, NEW r \in Row, NEW s \in Row, Fits(H, r), Same(r, s), r.version <= s.version
  PROVE  Fits(H, s)
<1>1. r.version \in Nat /\ s.version \in Nat
    BY DEF Row
<1>2. \A h \in H : h.version \in Nat
    BY DEF Fits, Record
<1>3. \A h \in H : h.version <= s.version
    BY <1>1, <1>2 DEF Fits
<1> QED
    BY <1>3 DEF Fits, Same

(* A record of a version above all others. *)
LEMMA AddedRecord ==
  ASSUME NEW H, NEW r \in Row, NEW n \in Record, NEW s \in Row, Fits(H, r),
         \A h \in H : h.version < n.version,
         0 < n.version, n.version <= s.version, Explains(n, r), Same(n, s)
  PROVE  Fits(H \union {n}, s)
<1> DEFINE G == H \union {n}
<1>1. r.version \in Nat /\ s.version \in Nat /\ n.version \in Nat /\ \A h \in H : h.version \in Nat
    BY DEF Row, Record, Fits
<1>2. G \subseteq Record
    BY DEF Fits
<1>3. \A h \in G : 0 < h.version /\ h.version <= s.version
    BY <1>1 DEF Fits
<1>4. ASSUME NEW new \in G, NEW other \in G, other.version = new.version PROVE other = new
  <2>1. CASE new \in H /\ other \in H
      BY <1>4, <2>1 DEF Fits, Told
  <2>2. CASE new = n \/ other = n
      BY <1>1, <1>4, <2>2
  <2> QED
      BY <2>1, <2>2
<1>5. ASSUME NEW new \in G, NEW old \in G, old.version < new.version,
             \A h \in G : h.version \notin (old.version + 1)..(new.version - 1)
      PROVE  Explains(new, old)
  <2>1. CASE new \in H /\ old \in H
      BY <1>5, <2>1 DEF Fits, Told
  <2>2. CASE new = n /\ old \in H
    <3>1. ASSUME NEW g \in H PROVE g.version <= old.version
        BY <1>1, <1>5, <2>2, <3>1
    <3>2. Same(old, r)
        BY <2>2, <3>1 DEF Fits
    <3> QED
        BY <2>2, <3>2 DEF Same, Explains
  <2>3. CASE old = n
      BY <1>1, <1>5, <2>3
  <2> QED
      BY <2>1, <2>2, <2>3
<1>6. ASSUME NEW h \in G, \A g \in G : g.version <= h.version PROVE Same(h, s)
  <2>1. h = n
      BY <1>1, <1>6
  <2> QED
      BY <2>1
<1> QED
    BY <1>2, <1>3, <1>4, <1>5, <1>6 DEF Fits, Told

(* What is recorded of a row. *)
LEMMA RecordOf ==
  ASSUME NEW e \in Entries, NEW r \in Row, NEW kind \in Kinds
  PROVE  /\ Recorded(e, r, kind) \in Record
         /\ Recorded(e, r, kind).version = r.version /\ Recorded(e, r, kind).kind = kind
         /\ Same(Recorded(e, r, kind), r)
BY DEF Recorded, Record, Row, Same

-----------------------------------------------------------------------------
(* Drafts *)

(* Who changes rows raises their versions: what editors hold stays apart. *)
LEMMA DraftsKept ==
  ASSUME Inv, Rows', UNCHANGED draft,
         \A e \in Entries : row'[e] = row[e] \/ row[e].version < row'[e].version
  PROVE  Drafts' /\ Seen' /\ VersionNamesContent'
<1>1. Drafts'
    BY DEF Inv, Drafts
<1> SUFFICES ASSUME NEW u \in Users, draft[u] # Closed
             PROVE  LET e == draft[u].entry IN
                    /\ draft[u].seen.version <= row'[e].version
                    /\ draft[u].seen.version = row'[e].version => draft[u].seen = row'[e]
    BY <1>1 DEF Seen, VersionNamesContent
<1> DEFINE e == draft[u].entry
<1>2. e \in Entries /\ draft[u].seen \in Row
    BY DEF Inv, Drafts
<1>3. draft[u].seen.version \in Nat /\ row[e].version \in Nat /\ row'[e].version \in Nat
    BY <1>2, Versions DEF Inv, Rows, Row
<1>4. /\ draft[u].seen.version <= row[e].version
      /\ draft[u].seen.version = row[e].version => draft[u].seen = row[e]
    BY DEF Inv, Seen, VersionNamesContent
<1>5. row'[e] = row[e] \/ row[e].version < row'[e].version
    BY <1>2
<1> QED
    BY <1>3, <1>4, <1>5

LEMMA OpenStep ==
  ASSUME Inv, NEW u \in Users, NEW e \in Entries, OpenEntry(u, e)
  PROVE  Inv'
<1>1. /\ row[e] # Absent /\ draft' = [draft EXCEPT ![u] = [entry |-> e, seen |-> row[e]]]
      /\ UNCHANGED <<row, history>>
    BY DEF OpenEntry, Exists
<1>2. row[e] \in Row
    BY <1>1 DEF Inv, Rows
<1>3. Drafts'
    BY <1>1, <1>2 DEF Inv, Drafts
<1>4. draft'[u] = [entry |-> e, seen |-> row[e]] /\ \A v \in Users \ {u} : draft'[v] = draft[v]
    BY <1>1 DEF Inv, Drafts
<1>5. row[e].version <= row[e].version
    BY <1>2 DEF Row
<1>6. Seen' /\ VersionNamesContent'
    BY <1>1, <1>4, <1>5 DEF Inv, Seen, VersionNamesContent
<1> QED
    BY <1>1, <1>3, <1>6 DEF Inv, Rows, Histories

-----------------------------------------------------------------------------
(* Writes *)

(* A row that is flagged. *)
Flagged(old, l, d) == [old EXCEPT !.locked = l, !.hidden = d, !.version = @ + 1]

LEMMA FlaggedRow ==
  ASSUME NEW old \in Row, NEW l \in BOOLEAN, NEW d \in BOOLEAN
  PROVE  LET new == Flagged(old, l, d)
         IN  /\ new \in Row /\ new.version = old.version + 1
             /\ new.source = old.source /\ new.text = old.text /\ new.state = old.state
<1> DEFINE T == UNION {Sources[e] : e \in Entries}
<1>1. Row = [source: T, text: Nat, state: States, locked: BOOLEAN, hidden: BOOLEAN,
             questioned: BOOLEAN, tomb: BOOLEAN, version: Nat \ {0}]
    BY DEF Row
<1> HIDE DEF T
<1>2. old.version + 1 \in Nat \ {0}
    BY <1>1
<1> QED
    BY <1>1, <1>2 DEF Flagged

(* One row is written and recorded. *)
LEMMA WrittenStep ==
  ASSUME Inv, NEW e \in Entries, NEW new \in Row, NEW kind \in Kinds, Written(e, new, kind),
         row[e] \in Row, new.version = row[e].version + 1,
         Explains(Recorded(e, new, kind), row[e])
  PROVE  /\ Rows' /\ Histories'
         /\ row'[e] = new /\ \A x \in Entries \ {e} : row'[x] = row[x]
         /\ \A x \in Entries : row'[x] = row[x] \/ row[x].version < row'[x].version
<1> DEFINE n == Recorded(e, new, kind)
<1>1. /\ row' = [row EXCEPT ![e] = new]
      /\ history' = [history EXCEPT ![e] = @ \union {n}]
    BY DEF Written
<1>2. n \in Record /\ n.version = new.version /\ Same(n, new)
    BY RecordOf
<1>3. row[e].version \in Nat
    BY DEF Row
<1>4. /\ Rows' /\ row'[e] = new /\ \A x \in Entries \ {e} : row'[x] = row[x]
    BY <1>1 DEF Inv, Rows
<1>5. Fits(history[e] \union {n}, new)
  <2>1. Fits(history[e], row[e])
      BY DEF Inv, Histories
  <2>2. \A h \in history[e] : h.version \in Nat /\ h.version <= row[e].version
      BY <2>1 DEF Fits, Record
  <2> HIDE DEF n
  <2>3. \A h \in history[e] : h.version < n.version
      BY <1>2, <1>3, <2>2
  <2>4. 0 < n.version /\ n.version <= new.version
      BY <1>2, <1>3
  <2> QED
      BY <1>2, <2>1, <2>3, <2>4, AddedRecord DEF n
<1>6. /\ history'[e] = history[e] \union {n}
      /\ \A x \in Entries \ {e} : history'[x] = history[x]
    BY <1>1 DEF Inv, Histories
<1>7. Histories'
  <2>1. history' \in [Entries -> SUBSET Record]
      BY <1>1, <1>2 DEF Inv, Histories
  <2>2. ASSUME NEW x \in Entries PROVE Fits(history'[x], row'[x])
      BY <1>4, <1>5, <1>6 DEF Inv, Histories
  <2> QED
      BY <2>1, <2>2 DEF Histories
<1> QED
    BY <1>3, <1>4, <1>7

LEMMA SaveStep ==
  ASSUME Inv, NEW u \in Users, NEW r \in SaveRequests[u], Save(u, r.text, r.state, r.tag)
  PROVE  Inv'
<1> DEFINE e == draft[u].entry
           q == IF r.tag = "keep" THEN row[e].questioned ELSE r.tag = "yes"
           new == [row[e] EXCEPT !.text = r.text, !.state = r.state, !.version = @ + 1,
                                 !.questioned = q]
           kind == ContributionKind(r.state)
<1>1. /\ draft[u] # Closed /\ draft[u].seen.version = row[e].version
      /\ Written(e, new, kind)
      /\ draft' = [draft EXCEPT ![u] = [entry |-> e, seen |-> new]]
    BY DEF Save
<1>2. r.text \in Nat /\ r.state \in States
    BY EntryEditingAssumption
<1>3. e \in Entries /\ draft[u].seen \in Row
    BY <1>1 DEF Inv, Drafts
<1>4. row[e] \in Row
    BY <1>1, <1>3 DEF Inv, Rows, Row, Absent
<1>5. q \in BOOLEAN
    BY <1>4 DEF Row
<1>6. kind \in {"edit", "review"}
    BY DEF ContributionKind
<1> HIDE DEF q, kind, e
<1>7. /\ new \in Row /\ new.version = row[e].version + 1
      /\ new.source = row[e].source /\ new.locked = row[e].locked /\ new.hidden = row[e].hidden
  <2>1. PICK text \in Nat, state \in States : text = r.text /\ state = r.state
      BY <1>2
  <2>2. new = [row[e] EXCEPT !.text = text, !.state = state, !.version = @ + 1, !.questioned = q]
      BY <2>1
  <2> HIDE DEF new
  <2>3. new \in Row /\ new.version = row[e].version + 1 /\ new.source = row[e].source
    <3> DEFINE T == UNION {Sources[x] : x \in Entries}
    <3>1. Row = [source: T, text: Nat, state: States, locked: BOOLEAN, hidden: BOOLEAN,
                 questioned: BOOLEAN, tomb: BOOLEAN, version: Nat \ {0}]
        BY DEF Row
    <3> HIDE DEF T
    <3>2. row[e].version + 1 \in Nat \ {0}
        BY <1>4, <3>1
    <3> QED
        BY <1>4, <1>5, <2>2, <3>1, <3>2
  <2>4. new.locked = row[e].locked /\ new.hidden = row[e].hidden
      BY <1>4, <2>2 DEF Row
  <2> QED
      BY <2>3, <2>4
<1>8. Explains(Recorded(e, new, kind), row[e])
    BY <1>6, <1>7 DEF Recorded, Explains
<1> HIDE DEF new
<1>9. /\ Rows' /\ Histories' /\ row'[e] = new
      /\ \A x \in Entries : row'[x] = row[x] \/ row[x].version < row'[x].version
    BY <1>1, <1>3, <1>4, <1>6, <1>7, <1>8, WrittenStep DEF Kinds
<1>10. Drafts'
    BY <1>1, <1>3, <1>7 DEF Inv, Drafts
<1>11. draft'[u] = [entry |-> e, seen |-> new] /\ \A v \in Users \ {u} : draft'[v] = draft[v]
    BY <1>1 DEF Inv, Drafts
<1>12. ASSUME NEW v \in Users, draft'[v] # Closed
       PROVE  LET x == draft'[v].entry IN
              /\ draft'[v].seen.version <= row'[x].version
              /\ draft'[v].seen.version = row'[x].version => draft'[v].seen = row'[x]
  <2>1. CASE v = u
    <3>1. draft'[v].entry = e /\ draft'[v].seen = new
        BY <1>11, <2>1
    <3>2. new.version \in Nat
        BY <1>7 DEF Row
    <3> QED
        BY <1>9, <3>1, <3>2
  <2>2. CASE v # u
    <3> DEFINE x == draft[v].entry
    <3>1. draft'[v] = draft[v] /\ draft[v] # Closed
        BY <1>11, <1>12, <2>2
    <3>2. x \in Entries /\ draft[v].seen \in Row
        BY <3>1 DEF Inv, Drafts
    <3>3. draft[v].seen.version \in Nat /\ row[x].version \in Nat /\ row'[x].version \in Nat
        BY <1>9, <3>2, Versions DEF Inv, Rows, Row
    <3>4. /\ draft[v].seen.version <= row[x].version
          /\ draft[v].seen.version = row[x].version => draft[v].seen = row[x]
        BY <3>1 DEF Inv, Seen, VersionNamesContent
    <3>5. row'[x] = row[x] \/ row[x].version < row'[x].version
        BY <1>9, <3>2
    <3> QED
        BY <3>1, <3>3, <3>4, <3>5
  <2> QED
      BY <2>1, <2>2
<1>13. Seen' /\ VersionNamesContent'
    BY <1>12 DEF Seen, VersionNamesContent
<1> QED
    BY <1>9, <1>10, <1>13 DEF Inv

LEMMA FlagStep ==
  ASSUME Inv, NEW u \in Users, NEW e \in Entries, NEW flags \in FlagRequests, SetFlags(u, e, flags)
  PROVE  Inv'
<1> DEFINE l == IF "lock" \in DOMAIN flags THEN flags["lock"] ELSE row[e].locked
           d == IF "hide" \in DOMAIN flags THEN flags["hide"] ELSE row[e].hidden
           new == Flagged(row[e], l, d)
<1>1. row[e] # Absent /\ Written(e, new, "flags") /\ UNCHANGED draft
    BY DEF SetFlags, Exists, Flagged
<1>2. row[e] \in Row
    BY <1>1 DEF Inv, Rows
<1>3. PICK S \in SUBSET {"lock", "hide"} : flags \in [S -> BOOLEAN]
    BY EntryEditingAssumption
<1>4. l \in BOOLEAN /\ d \in BOOLEAN
    BY <1>2, <1>3 DEF Row
<1> HIDE DEF l, d
<1>5. /\ new \in Row /\ new.version = row[e].version + 1
      /\ new.source = row[e].source /\ new.text = row[e].text /\ new.state = row[e].state
    BY <1>2, <1>4, FlaggedRow
<1>6. Explains(Recorded(e, new, "flags"), row[e])
    BY <1>5 DEF Recorded, Explains
<1> HIDE DEF new
<1>7. /\ Rows' /\ Histories'
      /\ \A x \in Entries : row'[x] = row[x] \/ row[x].version < row'[x].version
    BY <1>1, <1>2, <1>5, <1>6, WrittenStep DEF Kinds
<1> QED
    BY <1>1, <1>7, DraftsKept DEF Inv

-----------------------------------------------------------------------------
(* Uploads *)

LEMMA EmptyFits == ASSUME NEW s PROVE Fits({}, s)
BY DEF Fits, Told

LEMMA UploadOf ==
  ASSUME NEW f \in Files, NEW uploaded \in Uploads(f)
  PROVE  /\ \A e \in DOMAIN uploaded : e \in Entries /\ FileOf[e] = f
         /\ \A e \in DOMAIN uploaded : uploaded[e] \in Sources[e]
BY DEF Uploads

(* What an upload makes of one row and its history. *)
LEMMA PlanStep ==
  ASSUME Inv, NEW f \in Files, NEW uploaded \in Uploads(f), NEW e \in Entries
  PROVE  LET p == Plan(e, uploaded)
             H == history[e] \union Baselines(e, uploaded) \union SourceVersions(e, uploaded, p) IN
         /\ p \in Row \union {Absent}
         /\ p = row[e] \/ row[e].version < p.version
         /\ Fits(H, p)
<1> DEFINE p == Plan(e, uploaded)
           H == history[e] \union Baselines(e, uploaded) \union SourceVersions(e, uploaded, p)
           T == UNION {Sources[x] : x \in Entries}
<1>1. /\ row[e] \in Row \union {Absent} /\ Fits(history[e], row[e])
      /\ row[e].version \in Nat
    BY Versions DEF Inv, Rows, Histories
<1>2. e \in DOMAIN uploaded => uploaded[e] \in T
    BY UploadOf
<1>3. Row = [source: T, text: Nat, state: States, locked: BOOLEAN, hidden: BOOLEAN,
             questioned: BOOLEAN, tomb: BOOLEAN, version: Nat \ {0}]
    BY DEF Row
<1> HIDE DEF T
<1>4. CASE SourceChanged(e, uploaded)
  <2> DEFINE n == Recorded(e, p, "source_update")
             M == history[e] \union Baselines(e, uploaded)
  <2>1. e \in DOMAIN uploaded /\ row[e] \in Row
      BY <1>1, <1>4 DEF SourceChanged, Exists
  <2>2. p = [row[e] EXCEPT !.source = uploaded[e], !.state = "untranslated", !.tomb = FALSE,
                           !.version = @ + 1]
      BY <1>4, <2>1 DEF Plan, PlanExisting, SourceChanged
  <2> HIDE DEF p
  <2>3. /\ p \in Row /\ p.version = row[e].version + 1 /\ p.text = row[e].text
        /\ p.state = "untranslated"
    <3>1. row[e].version + 1 \in Nat \ {0} /\ "untranslated" \in States
        BY <1>1 DEF States
    <3> QED
        BY <1>2, <1>3, <2>1, <2>2, <3>1
  <2>4. p.locked = row[e].locked /\ p.hidden = row[e].hidden
      BY <2>1, <2>2, <1>3
  <2>5. n \in Record /\ n.version = p.version /\ n.kind = "source_update" /\ Same(n, p)
      BY <2>3, RecordOf DEF Kinds
  <2>6. Explains(n, row[e])
      BY <2>3, <2>4, <2>5 DEF Explains, Same
  <2> HIDE DEF n
  <2>7. Fits(M, row[e])
    <3>1. CASE Baselines(e, uploaded) = {}
        BY <1>1, <3>1
    <3>2. CASE Baselines(e, uploaded) # {}
      <4> DEFINE b == Recorded(e, row[e], "baseline")
      <4>1. /\ Baselines(e, uploaded) = {b}
            /\ \A h \in history[e] : h.version # row[e].version
          BY <3>2 DEF Baselines
      <4>2. b \in Record /\ b.version = row[e].version /\ Same(b, row[e])
          BY <2>1, RecordOf DEF Kinds
      <4>3. Explains(b, row[e])
          BY <4>2 DEF Explains, Same
      <4> HIDE DEF b
      <4>4. \A h \in history[e] : h.version < b.version
        <5>1. \A h \in history[e] : h.version \in Nat /\ h.version <= row[e].version
            BY <1>1 DEF Fits, Record
        <5> QED
            BY <1>1, <4>1, <4>2, <5>1
      <4>5. 0 < b.version /\ b.version <= row[e].version
          BY <1>1, <1>3, <2>1, <4>2
      <4> QED
          BY <1>1, <2>1, <4>1, <4>2, <4>3, <4>4, <4>5, AddedRecord
    <3> QED
        BY <3>1, <3>2
  <2>8. \A h \in M : h.version < n.version
    <3>1. \A h \in M : h.version \in Nat /\ h.version <= row[e].version
        BY <2>7 DEF Fits, Record
    <3> QED
        BY <1>1, <2>3, <2>5, <3>1
  <2>9. 0 < n.version /\ n.version <= p.version
      BY <1>1, <2>3, <2>5
  <2>10. H = M \union {n}
      BY <1>4 DEF SourceVersions, n
  <2> HIDE DEF M, H
  <2>11. Fits(H, p)
      BY <2>1, <2>3, <2>5, <2>6, <2>7, <2>8, <2>9, <2>10, AddedRecord
  <2> QED
      BY <1>1, <2>3, <2>11 DEF H, M, p
<1>5. CASE ~SourceChanged(e, uploaded)
  <2>1. H = history[e]
      BY <1>5 DEF Baselines, SourceVersions
  <2>2. CASE p = row[e]
      BY <1>1, <2>1, <2>2
  <2>3. CASE ~Exists(e) /\ e \in DOMAIN uploaded
    <3>1. p = PlanInsert(e, uploaded)
        BY <2>3 DEF Plan
    <3>2. p \in Row /\ p.version = 1
      <4>1. Seed[e].text \in Nat /\ Seed[e].state \in States
          BY EntryEditingAssumption
      <4> QED
          BY <1>2, <1>3, <2>3, <3>1, <4>1 DEF PlanInsert
    <3>3. row[e].version = 0
        BY <2>3 DEF Exists, Absent
    <3>4. H = {}
        BY <1>1, <2>1, <3>3 DEF Fits, Record
    <3> HIDE DEF p, H
    <3>5. Fits(H, p)
        BY <3>4, EmptyFits
    <3> QED
        BY <3>2, <3>3, <3>5 DEF p, H
  <2>4. CASE p # row[e] /\ ~(~Exists(e) /\ e \in DOMAIN uploaded)
    <3>1. row[e] \in Row
        BY <1>1, <2>4 DEF Plan, PlanMissing, Exists
    <3>2. PICK tomb \in BOOLEAN : p = [row[e] EXCEPT !.tomb = tomb, !.version = @ + 1]
        BY <1>5, <2>4 DEF Plan, PlanMissing, PlanExisting
    <3> HIDE DEF p, H
    <3>3. /\ p \in Row /\ p.version = row[e].version + 1
          /\ p.source = row[e].source /\ p.text = row[e].text /\ p.state = row[e].state
      <4>1. row[e].version + 1 \in Nat \ {0}
          BY <1>1
      <4> QED
          BY <1>3, <3>1, <3>2, <4>1
    <3>4. p.locked = row[e].locked /\ p.hidden = row[e].hidden
        BY <1>3, <3>1, <3>2
    <3>5. Same(row[e], p) /\ row[e].version <= p.version
        BY <1>1, <3>3, <3>4 DEF Same
    <3>6. Fits(H, p)
        BY <1>1, <2>1, <3>1, <3>3, <3>5, KeptHistory
    <3> QED
        BY <1>1, <3>3, <3>6 DEF p, H
  <2> QED
      BY <2>2, <2>3, <2>4
<1> QED
    BY <1>4, <1>5

LEMMA ReplaceStep ==
  ASSUME Inv, NEW f \in Files, NEW uploaded \in Uploads(f), ReplaceFile(f, uploaded)
  PROVE  Inv'
<1>1. /\ row' = ReplacedRows(f, uploaded) /\ UNCHANGED draft
      /\ history' = [e \in Entries |-> history[e] \union Baselines(e, uploaded)
                       \union SourceVersions(e, uploaded, ReplacedRows(f, uploaded)[e])]
    BY DEF ReplaceFile
<1>2. ASSUME NEW e \in Entries
      PROVE  /\ row'[e] \in Row \union {Absent}
             /\ row'[e] = row[e] \/ row[e].version < row'[e].version
             /\ Fits(history'[e], row'[e])
  <2>1. /\ row'[e] = IF FileOf[e] = f THEN Plan(e, uploaded) ELSE row[e]
        /\ history'[e] = history[e] \union Baselines(e, uploaded)
                           \union SourceVersions(e, uploaded, row'[e])
      BY <1>1 DEF ReplacedRows
  <2>2. CASE FileOf[e] = f
      BY <2>1, <2>2, PlanStep
  <2>3. CASE FileOf[e] # f
    <3>1. ~SourceChanged(e, uploaded)
        BY <2>3, UploadOf DEF SourceChanged
    <3>2. history'[e] = history[e] /\ row'[e] = row[e]
        BY <2>1, <2>3, <3>1 DEF Baselines, SourceVersions
    <3> QED
        BY <3>2 DEF Inv, Rows, Histories
  <2> QED
      BY <2>2, <2>3
<1>3. Rows'
    BY <1>1, <1>2 DEF Rows, ReplacedRows
<1>4. Histories'
  <2>1. \A e \in Entries : history'[e] \subseteq Record
      BY <1>2 DEF Fits
  <2>2. history' \in [Entries -> SUBSET Record]
      BY <1>1, <2>1
  <2> QED
      BY <1>2, <2>2 DEF Histories
<1> QED
    BY <1>1, <1>2, <1>3, <1>4, DraftsKept DEF Inv

-----------------------------------------------------------------------------
(* The invariant *)

LEMMA InitInv == Init => Inv
<1> SUFFICES ASSUME Init PROVE Inv
    OBVIOUS
<1>1. /\ row = [e \in Entries |-> Absent] /\ history = [e \in Entries |-> {}]
      /\ draft = [u \in Users |-> Closed]
    BY DEF Init
<1>2. Histories
    BY <1>1, EmptyFits DEF Histories
<1> QED
    BY <1>1, <1>2 DEF Inv, Rows, Drafts, Seen, VersionNamesContent

LEMMA NextInv == Inv /\ [Next]_vars => Inv'
<1> SUFFICES ASSUME Inv, [Next]_vars PROVE Inv'
    OBVIOUS
<1>1. ASSUME NEW u \in Users, NEW e \in Edited[u], OpenEntry(u, e) PROVE Inv'
  <2>1. e \in Entries
      BY EntryEditingAssumption
  <2> QED
      BY <1>1, <2>1, OpenStep
<1>2. ASSUME NEW u \in Users, NEW r \in SaveRequests[u], Save(u, r.text, r.state, r.tag)
      PROVE  Inv'
    BY <1>2, SaveStep
<1>3. ASSUME NEW u \in Users, NEW e \in Entries, NEW flags \in FlagRequests, SetFlags(u, e, flags)
      PROVE  Inv'
    BY <1>3, FlagStep
<1>4. ASSUME NEW f \in Files, NEW uploaded \in Uploads(f), ReplaceFile(f, uploaded) PROVE Inv'
    BY <1>4, ReplaceStep
<1>5. CASE UNCHANGED <<row, history, draft>>
    BY <1>5 DEF Inv, Rows, Drafts, Seen, VersionNamesContent, Histories
<1>6. ASSUME NEW f \in Files, DeleteFile(f) \/ RestoreFile(f) PROVE Inv'
    BY <1>5, <1>6 DEF DeleteFile, RestoreFile
<1>7. ASSUME NEW u \in Users, NEW t \in Tasks, NEW files \in TaskFiles,
             CreateTask(u, t, files) \/ UpdateTask(u, t, files)
      PROVE  Inv'
    BY <1>5, <1>7 DEF CreateTask, UpdateTask, SetTaskFiles
<1>8. ASSUME NEW u \in Users, NEW t \in Tasks, DeleteTask(u, t) PROVE Inv'
    BY <1>5, <1>8 DEF DeleteTask
<1>9. ASSUME NEW u \in Users, Leave(u) \/ Rejoin(u) PROVE Inv'
    BY <1>5, <1>9 DEF Leave, Rejoin
<1>10. CASE UNCHANGED vars
    BY <1>5, <1>10 DEF vars
<1> QED
    BY <1>1, <1>2, <1>3, <1>4, <1>6, <1>7, <1>8, <1>9, <1>10 DEF Next

LEMMA InvHolds == Spec => []Inv
<1> QED
    BY InitInv, NextInv, PTL DEF Spec

-----------------------------------------------------------------------------
(* The ledger *)

Earned == IsFiniteSet(ledger) /\ \A ev \in ledger : ev.cp \in Int

LedgerInv ==
  /\ Earned
  /\ projectCp \in [Users -> Int] /\ userCp \in [Users -> Int]
  /\ LedgerAgrees

LEMMA EarnedIsInteger == ASSUME Earned, NEW u PROVE EarnedBy(u) \in Int
<1> DEFINE S == {ev \in ledger : ev.user = u}
           c == [ev \in S |-> ev.cp]
<1>1. IsFiniteSet(S) /\ \A x \in S : c[x] \in Int
    BY FS_Subset DEF Earned
<1>2. EarnedBy(u) = SumFunctionOnSet(c, S)
    BY DEF EarnedBy, SumFunction
<1> HIDE DEF S, c
<1>3. SumFunctionOnSet(c, S) \in Int
    BY ONLY <1>1, SumStep
<1> QED
    BY <1>2, <1>3

(* A new row of the ledger counts for its user. *)
LEMMA EarnedMore ==
  ASSUME Earned, NEW ev, ev \notin ledger, ev.cp \in Int, ledger' = ledger \union {ev}
  PROVE  /\ Earned'
         /\ \A u : EarnedBy(u)' = EarnedBy(u) + (IF ev.user = u THEN ev.cp ELSE 0)
<1>1. Earned'
    BY FS_AddElement DEF Earned
<1>2. ASSUME NEW u PROVE EarnedBy(u)' = EarnedBy(u) + (IF ev.user = u THEN ev.cp ELSE 0)
  <2> DEFINE S == {x \in ledger : x.user = u}
             T == {x \in ledger' : x.user = u}
             c == [x \in S |-> x.cp]
             d == [x \in T |-> x.cp]
  <2>1. EarnedBy(u) = SumFunctionOnSet(c, S) /\ EarnedBy(u)' = SumFunctionOnSet(d, T)
      BY DEF EarnedBy, SumFunction
  <2>2. IsFiniteSet(S) /\ ev \notin S /\ \A y \in S : c[y] \in Int
      BY FS_Subset DEF Earned
  <2>3. CASE ev.user = u
    <3>1. /\ T = S \union {ev} /\ d[ev] = ev.cp /\ d[ev] \in Int
          /\ \A y \in S : d[y] = c[y]
        BY <2>3
    <3> HIDE DEF S, T, c, d
    <3>2. SumFunctionOnSet(d, S \union {ev}) = SumFunctionOnSet(c, S) + d[ev]
        BY ONLY <2>2, <3>1, SumMore
    <3> QED
        BY <2>1, <2>3, <3>1, <3>2
  <2>4. CASE ev.user # u
    <3>1. T = S /\ d = c
        BY <2>4
    <3> HIDE DEF S, T, c, d
    <3>2. EarnedBy(u)' = EarnedBy(u) /\ EarnedBy(u) \in Int
        BY <2>1, <3>1, EarnedIsInteger
    <3> QED
        BY <2>4, <3>2
  <2> QED
      BY <2>3, <2>4
<1> QED
    BY <1>1, <1>2

LEMMA EarnedSame == ledger' = ledger => \A u : EarnedBy(u)' = EarnedBy(u)
BY DEF EarnedBy

LEMMA ScoreIsInteger ==
  ASSUME NEW old, NEW text, NEW state
  PROVE  Score(old, text, state) \in Int
<1>1. Distance(old, text) \in Int /\ WeightTenths(ContributionKind(state)) \in Int
    BY DEF Distance, WeightTenths
<1> QED
    BY <1>1 DEF Score

LEMMA AwardStep ==
  ASSUME LedgerInv, NEW u \in Users, NEW e, NEW version, NEW cp \in Int, Award(u, e, version, cp),
         UNCHANGED member
  PROVE  LedgerInv'
<1> DEFINE ev == [user |-> u, entry |-> e, version |-> version, cp |-> cp]
<1>1. CASE cp = 0
  <2>1. UNCHANGED <<ledger, projectCp, userCp, member>>
      BY <1>1 DEF Award
  <2> QED
      BY <2>1, EarnedSame DEF LedgerInv, Earned, LedgerAgrees
<1>2. CASE cp # 0
  <2>1. /\ ledger' = ledger \union {ev} /\ ev \notin ledger
        /\ projectCp' = IF u \in member THEN [projectCp EXCEPT ![u] = @ + cp] ELSE projectCp
        /\ userCp' = [userCp EXCEPT ![u] = @ + cp]
      BY <1>2 DEF Award
  <2>2. ev.cp = cp /\ ev.user = u
      OBVIOUS
  <2> HIDE DEF ev
  <2>3. Earned' /\ \A v : EarnedBy(v)' = EarnedBy(v) + (IF u = v THEN cp ELSE 0)
      BY <2>1, <2>2, EarnedMore DEF LedgerInv
  <2>4. projectCp' \in [Users -> Int] /\ userCp' \in [Users -> Int]
      BY <2>1 DEF LedgerInv
  <2>5. ASSUME NEW v \in Users
        PROVE  /\ userCp'[v] = EarnedBy(v)'
               /\ v \in member => projectCp'[v] = EarnedBy(v)'
    <3>1. /\ userCp[v] = EarnedBy(v)
          /\ v \in member => projectCp[v] = EarnedBy(v)
          /\ EarnedBy(v) \in Int
        BY EarnedIsInteger DEF LedgerInv, LedgerAgrees
    <3>2. /\ userCp'[v] = userCp[v] + (IF u = v THEN cp ELSE 0)
          /\ v \in member => projectCp'[v] = projectCp[v] + (IF u = v THEN cp ELSE 0)
        BY <2>1 DEF LedgerInv
    <3> QED
        BY <2>3, <3>1, <3>2
  <2> QED
      BY <2>3, <2>4, <2>5 DEF LedgerInv, LedgerAgrees
<1> QED
    BY <1>1, <1>2

LEMMA MembersStep ==
  ASSUME LedgerInv, NEW u \in Users, Leave(u) \/ Rejoin(u)
  PROVE  LedgerInv'
<1>1. UNCHANGED <<ledger, userCp>>
    BY DEF Leave, Rejoin
<1>2. \A v \in Users : EarnedBy(v)' = EarnedBy(v) /\ EarnedBy(v) \in Int
    BY <1>1, EarnedSame, EarnedIsInteger DEF LedgerInv
<1>3. CASE Leave(u)
  <2>1. member' = member \ {u} /\ projectCp' = [projectCp EXCEPT ![u] = 0]
      BY <1>3 DEF Leave
  <2>2. projectCp' \in [Users -> Int] /\ \A v \in member' \intersect Users : projectCp'[v] = projectCp[v]
      BY <2>1 DEF LedgerInv
  <2> QED
      BY <1>1, <1>2, <2>1, <2>2 DEF LedgerInv, Earned, LedgerAgrees
<1>4. CASE Rejoin(u)
  <2>1. member' = member \union {u} /\ projectCp' = [projectCp EXCEPT ![u] = EarnedBy(u)]
      BY <1>4 DEF Rejoin
  <2>2. /\ projectCp' \in [Users -> Int] /\ projectCp'[u] = EarnedBy(u)
        /\ \A v \in Users \ {u} : projectCp'[v] = projectCp[v]
      BY <1>2, <2>1 DEF LedgerInv
  <2> QED
      BY <1>1, <1>2, <2>1, <2>2 DEF LedgerInv, Earned, LedgerAgrees
<1> QED
    BY <1>3, <1>4

LEMMA LedgerInit == Init => LedgerInv
<1> SUFFICES ASSUME Init PROVE LedgerInv
    OBVIOUS
<1>1. /\ ledger = {} /\ projectCp = [u \in Users |-> 0] /\ userCp = [u \in Users |-> 0]
    BY DEF Init
<1>2. ASSUME NEW u PROVE EarnedBy(u) = 0
  <2> DEFINE S == {ev \in ledger : ev.user = u}
             c == [ev \in S |-> ev.cp]
  <2>1. EarnedBy(u) = SumFunctionOnSet(c, S)
      BY DEF EarnedBy, SumFunction
  <2>2. S = {}
      BY <1>1
  <2> HIDE DEF S, c
  <2> QED
      BY <2>1, <2>2, SumEmpty
<1>3. Earned
    BY <1>1, FS_EmptySet DEF Earned
<1> QED
    BY <1>1, <1>2, <1>3 DEF LedgerInv, LedgerAgrees

LEMMA LedgerNext == LedgerInv /\ [Next]_vars => LedgerInv'
<1> SUFFICES ASSUME LedgerInv, [Next]_vars PROVE LedgerInv'
    OBVIOUS
<1>1. CASE UNCHANGED <<ledger, projectCp, userCp, member>>
    BY <1>1, EarnedSame DEF LedgerInv, Earned, LedgerAgrees
<1>2. ASSUME NEW u \in Users, NEW e \in Edited[u], OpenEntry(u, e) PROVE LedgerInv'
    BY <1>1, <1>2 DEF OpenEntry
<1>3. ASSUME NEW u \in Users, NEW r \in SaveRequests[u], Save(u, r.text, r.state, r.tag)
      PROVE  LedgerInv'
  <2>1. PICK e, version, old : Award(u, e, version, Score(old, r.text, r.state))
      BY <1>3 DEF Save
  <2>2. UNCHANGED member
      BY <1>3 DEF Save
  <2> QED
      BY <2>1, <2>2, AwardStep, ScoreIsInteger
<1>4. ASSUME NEW u \in Users, NEW e \in Entries, NEW flags \in FlagRequests, SetFlags(u, e, flags)
      PROVE  LedgerInv'
    BY <1>1, <1>4 DEF SetFlags
<1>5. ASSUME NEW f \in Files, NEW uploaded \in Uploads(f), ReplaceFile(f, uploaded)
      PROVE  LedgerInv'
    BY <1>1, <1>5 DEF ReplaceFile
<1>6. ASSUME NEW f \in Files, DeleteFile(f) \/ RestoreFile(f) PROVE LedgerInv'
    BY <1>1, <1>6 DEF DeleteFile, RestoreFile
<1>7. ASSUME NEW u \in Users, NEW t \in Tasks, NEW files \in TaskFiles,
             CreateTask(u, t, files) \/ UpdateTask(u, t, files)
      PROVE  LedgerInv'
    BY <1>1, <1>7 DEF CreateTask, UpdateTask, SetTaskFiles
<1>8. ASSUME NEW u \in Users, NEW t \in Tasks, DeleteTask(u, t) PROVE LedgerInv'
    BY <1>1, <1>8 DEF DeleteTask
<1>9. ASSUME NEW u \in Users, Leave(u) \/ Rejoin(u) PROVE LedgerInv'
    BY <1>9, MembersStep
<1>10. CASE UNCHANGED vars
    BY <1>1, <1>10 DEF vars
<1> QED
    BY <1>2, <1>3, <1>4, <1>5, <1>6, <1>7, <1>8, <1>9, <1>10 DEF Next

-----------------------------------------------------------------------------
(* The materialised counts *)

InBucket(r, b) == r # Absent /\ ~r.tomb /\ b \in BucketsOf(r)

(* The entries of f that its count for b is about. *)
Members(rows, f, b) == {e \in Entries : FileOf[e] = f /\ InBucket(rows[e], b)}

Hits(rows, S, b) == {e \in S : InBucket(rows[e], b)}

Column(b) == [f \in Files |-> fileStats[f][b]]

StatsTyped ==
  /\ fileStats \in [Files -> [Buckets -> Int]] /\ projectStats \in [Buckets -> Int]
  /\ active \subseteq Files

FilesCounted ==
  \A f \in Files \ strayed, b \in Buckets : fileStats[f][b] = Cardinality(Members(row, f, b))

ProjectCounted == \A b \in Buckets : projectStats[b] = SumFunctionOnSet(Column(b), active)

CountsInv == StatsTyped /\ FilesCounted /\ ProjectCounted

LEMMA FiniteParts ==
  /\ \A S \in SUBSET Entries : IsFiniteSet(S) /\ Cardinality(S) \in Nat
  /\ \A S \in SUBSET Files : IsFiniteSet(S)
  /\ \A e \in Entries : FileOf[e] \in Files
BY EntryEditingAssumption, FS_Subset, FS_CardinalityType

LEMMA WeightOf ==
  ASSUME NEW r
  PROVE  /\ Weight(r) \in [Buckets -> Int]
         /\ \A b \in Buckets : Weight(r)[b] = IF InBucket(r, b) THEN 1 ELSE 0
BY DEF Weight, InBucket

LEMMA SumOfWeights ==
  ASSUME NEW rows, NEW S \in SUBSET Entries
  PROVE  /\ Sum(rows, S) \in [Buckets -> Int]
         /\ \A b \in Buckets : Sum(rows, S)[b] = Cardinality(Hits(rows, S, b))
<1>1. ASSUME NEW b \in Buckets
      PROVE  /\ Sum(rows, S)[b] \in Int
             /\ Sum(rows, S)[b] = Cardinality(Hits(rows, S, b))
  <2> DEFINE c == [e \in S |-> Weight(rows[e])[b]]
  <2>1. Sum(rows, S)[b] = SumFunctionOnSet(c, S)
      BY DEF Sum, SumFunction
  <2>2. \A e \in S : c[e] = IF InBucket(rows[e], b) THEN 1 ELSE 0
      BY WeightOf
  <2>3. {e \in S : c[e] = 1} = Hits(rows, S, b) /\ Hits(rows, S, b) \in SUBSET Entries
      BY <2>2 DEF Hits
  <2>4. IsFiniteSet(S) /\ \A e \in S : c[e] \in {0, 1}
      BY <2>2, FiniteParts
  <2> HIDE DEF c
  <2>5. SumFunctionOnSet(c, S) = Cardinality({e \in S : c[e] = 1})
      BY ONLY <2>4, SumOfOnes
  <2>6. Cardinality(Hits(rows, S, b)) \in Int
      BY <2>3, FiniteParts
  <2> QED
      BY ONLY <2>1, <2>3, <2>5, <2>6
<1>2. Sum(rows, S) = [b \in Buckets |-> Sum(rows, S)[b]]
    BY DEF Sum
<1> QED
    BY <1>1, <1>2

(* What a write to some entries of f does to its counts. *)
LEMMA ChangedMembers ==
  ASSUME NEW rows, NEW f, NEW S \in SUBSET Entries, \A e \in S : FileOf[e] = f,
         \A e \in Entries : FileOf[e] = f /\ e \notin S => rows[e] = row[e], NEW b
  PROVE  Cardinality(Members(rows, f, b))
           = Cardinality(Members(row, f, b))
             + (Cardinality(Hits(rows, S, b))
                - Cardinality(Hits(row, S, b)))
<1> DEFINE M == Members(row, f, b)
           N == Members(rows, f, b)
           A == Hits(row, S, b)
           B == Hits(rows, S, b)
<1>1. A \in SUBSET M /\ B \in SUBSET N /\ M \ A = N \ B
    BY DEF Members, Hits
<1>2. IsFiniteSet(M) /\ IsFiniteSet(N)
    BY FiniteParts DEF Members
<1> HIDE DEF M, N, A, B
<1>3. /\ Cardinality(M) \in Nat /\ Cardinality(A) \in Nat /\ Cardinality(M \ A) \in Nat
      /\ Cardinality(M) = Cardinality(A) + Cardinality(M \ A)
    BY ONLY <1>1, <1>2, Disjoint
<1>4. /\ Cardinality(N) \in Nat /\ Cardinality(B) \in Nat /\ Cardinality(N \ B) \in Nat
      /\ Cardinality(N) = Cardinality(B) + Cardinality(N \ B)
    BY ONLY <1>1, <1>2, Disjoint
<1>5. Cardinality(M \ A) = Cardinality(N \ B)
    BY ONLY <1>1
<1>6. Cardinality(N) = Cardinality(M) + (Cardinality(B) - Cardinality(A))
    BY ONLY <1>3, <1>4, <1>5
<1> QED
    BY <1>6 DEF M, N, A, B

(* File and project are counted together. *)
LEMMA CountedStep ==
  ASSUME StatsTyped, ProjectCounted, NEW f \in active, NEW delta \in [Buckets -> Int],
         Counted(f, delta), active' = active
  PROVE  /\ StatsTyped' /\ ProjectCounted'
         /\ \A b \in Buckets : fileStats'[f][b] = fileStats[f][b] + delta[b]
         /\ \A g \in Files \ {f} : fileStats'[g] = fileStats[g]
<1>1. /\ fileStats' = [fileStats EXCEPT ![f] = Plus(@, delta)]
      /\ projectStats' = Plus(projectStats, delta)
    BY DEF Counted
<1>2. /\ f \in Files
      /\ \A b \in Buckets : /\ fileStats'[f][b] = fileStats[f][b] + delta[b]
                            /\ projectStats'[b] = projectStats[b] + delta[b]
      /\ \A g \in Files \ {f} : fileStats'[g] = fileStats[g]
    BY <1>1 DEF StatsTyped, Plus
<1>3. \A g \in Files, b \in Buckets : fileStats[g][b] \in Int /\ delta[b] \in Int
    BY DEF StatsTyped
<1>4. Plus(fileStats[f], delta) \in [Buckets -> Int]
    BY <1>2, <1>3 DEF Plus
<1>5. Plus(projectStats, delta) \in [Buckets -> Int]
    BY DEF Plus, StatsTyped
<1>6. StatsTyped'
    BY <1>1, <1>4, <1>5 DEF StatsTyped
<1>7. ASSUME NEW b \in Buckets PROVE projectStats'[b] = SumFunctionOnSet(Column(b)', active)
  <2> DEFINE c == Column(b)
             d == Column(b)'
  <2>1. /\ \A g \in active : c[g] \in Int /\ d[g] \in Int /\ (g # f => d[g] = c[g])
        /\ d[f] - c[f] = delta[b]
      BY <1>2, <1>3 DEF Column, StatsTyped
  <2>2. IsFiniteSet(active) /\ f \in active
      BY FiniteParts DEF StatsTyped
  <2> HIDE DEF c, d
  <2>3. SumFunctionOnSet(d, active) = SumFunctionOnSet(c, active) + (d[f] - c[f])
      BY ONLY <2>1, <2>2, SumChange
  <2>4. projectStats[b] = SumFunctionOnSet(c, active)
      BY DEF c, ProjectCounted
  <2>5. projectStats'[b] = SumFunctionOnSet(d, active)
      BY <1>2, <2>1, <2>3, <2>4
  <2> QED
      BY <2>5 DEF d
<1> QED
    BY <1>2, <1>6, <1>7 DEF ProjectCounted

LEMMA WrittenCounts ==
  ASSUME CountsInv, NEW e \in Entries, NEW new, NEW kind, Written(e, new, kind),
         row \in [Entries -> Row \union {Absent}], active' = active
  PROVE  CountsInv'
<1> DEFINE f == FileOf[e]
           delta == Minus(Weight(new), Weight(row[e]))
<1>1. /\ row' = [row EXCEPT ![e] = new] /\ CountTrigger(e, new)
    BY DEF Written
<1>2. /\ f \in Files /\ row'[e] = new
      /\ \A x \in Entries : x # e => row'[x] = row[x]
    BY <1>1, FiniteParts
<1>3. /\ delta \in [Buckets -> Int]
      /\ \A b \in Buckets : delta[b] = (IF InBucket(new, b) THEN 1 ELSE 0)
                                       - (IF InBucket(row[e], b) THEN 1 ELSE 0)
    BY WeightOf DEF Minus
<1>4. \A b \in Buckets : Cardinality(Members(row', f, b))
                           = Cardinality(Members(row, f, b)) + delta[b]
  <2> SUFFICES ASSUME NEW b \in Buckets
               PROVE  Cardinality(Members(row', f, b))
                        = Cardinality(Members(row, f, b)) + delta[b]
      OBVIOUS
  <2> DEFINE A == Hits(row, {e}, b)
             B == Hits(row', {e}, b)
  <2>1. /\ {e} \in SUBSET Entries /\ \A x \in {e} : FileOf[x] = f
        /\ \A x \in Entries : FileOf[x] = f /\ x \notin {e} => row'[x] = row[x]
      BY <1>2
  <2>2. Cardinality(Members(row', f, b))
          = Cardinality(Members(row, f, b)) + (Cardinality(B) - Cardinality(A))
      BY <2>1, ChangedMembers
  <2>3. /\ InBucket(row[e], b) => A = {e}
        /\ ~InBucket(row[e], b) => A = {}
        /\ InBucket(new, b) => B = {e}
        /\ ~InBucket(new, b) => B = {}
      BY <1>2 DEF Hits
  <2>4. Cardinality({}) = 0 /\ Cardinality({e}) = 1
      BY FS_EmptySet, FS_Singleton
  <2> HIDE DEF A, B, delta
  <2>5. /\ Cardinality(A) = IF InBucket(row[e], b) THEN 1 ELSE 0
        /\ Cardinality(B) = IF InBucket(new, b) THEN 1 ELSE 0
      BY ONLY <2>3, <2>4
  <2>6. delta[b] = Cardinality(B) - Cardinality(A)
      BY <1>3, <2>5
  <2> QED
      BY ONLY <2>2, <2>6
<1>5. \A g \in Files : g # f => \A b : Members(row', g, b) = Members(row, g, b)
    BY <1>2 DEF Members
<1>6. CASE f \in active
  <2>1. Counted(f, delta) /\ strayed' = strayed
      BY <1>1, <1>6 DEF CountTrigger
  <2> HIDE DEF delta
  <2>2. /\ StatsTyped' /\ ProjectCounted'
        /\ \A b \in Buckets : fileStats'[f][b] = fileStats[f][b] + delta[b]
        /\ \A g \in Files \ {f} : fileStats'[g] = fileStats[g]
      BY <1>3, <1>6, <2>1, CountedStep DEF CountsInv
  <2>3. ASSUME NEW g \in Files \ strayed', NEW b \in Buckets
        PROVE  fileStats'[g][b] = Cardinality(Members(row', g, b))
    <3>1. fileStats[g][b] = Cardinality(Members(row, g, b))
        BY <2>1 DEF CountsInv, FilesCounted
    <3>2. CASE g = f
        BY <1>4, <2>2, <3>1, <3>2
    <3>3. CASE g # f
        BY <1>5, <2>2, <3>1, <3>3
    <3> QED
        BY <3>2, <3>3
  <2> QED
      BY <2>2, <2>3 DEF CountsInv, FilesCounted
<1>7. CASE f \notin active
  <2>1. /\ UNCHANGED <<fileStats, projectStats>>
        /\ strayed' = IF Weight(new) = Weight(row[e]) THEN strayed ELSE strayed \union {f}
      BY <1>1, <1>7 DEF CountTrigger
  <2>2. StatsTyped' /\ ProjectCounted'
      BY <2>1 DEF CountsInv, StatsTyped, ProjectCounted, Column
  <2>3. ASSUME NEW g \in Files \ strayed', NEW b \in Buckets
        PROVE  fileStats'[g][b] = Cardinality(Members(row', g, b))
    <3>1. fileStats'[g][b] = Cardinality(Members(row, g, b)) /\ fileStats[g][b] \in Int
        BY <2>1 DEF CountsInv, FilesCounted, StatsTyped
    <3>2. CASE g = f
      <4>1. Weight(new) = Weight(row[e])
          BY <2>1, <3>2
      <4>2. delta[b] = 0
          BY <4>1, WeightOf DEF Minus
      <4> HIDE DEF delta
      <4>3. Cardinality(Members(row', f, b)) = Cardinality(Members(row, f, b)) + 0
          BY <1>4, <4>2
      <4> QED
          BY <2>1, <3>1, <3>2, <4>3
    <3>3. CASE g # f
        BY <1>5, <3>1, <3>3
    <3> QED
        BY <3>2, <3>3
  <2> QED
      BY <2>2, <2>3 DEF CountsInv, FilesCounted
<1> QED
    BY <1>6, <1>7

LEMMA ReplaceCounts ==
  ASSUME CountsInv, row \in [Entries -> Row \union {Absent}],
         NEW f \in Files, NEW uploaded, ReplaceFile(f, uploaded)
  PROVE  CountsInv'
<1> DEFINE S == {e \in Entries : ReplacedRows(f, uploaded)[e] # row[e]}
           delta == Minus(Sum(row', S), Sum(row, S))
<1>1. /\ row' = ReplacedRows(f, uploaded) /\ f \in active /\ Counted(f, delta)
      /\ UNCHANGED <<active, strayed>>
    BY DEF ReplaceFile
<1>2. \A e \in Entries : FileOf[e] # f => row'[e] = row[e]
    BY <1>1 DEF ReplacedRows
<1>3. /\ S \in SUBSET Entries /\ \A e \in S : FileOf[e] = f
      /\ \A e \in Entries : e \notin S => row'[e] = row[e]
    BY <1>1, <1>2
<1> HIDE DEF S
<1>4. /\ delta \in [Buckets -> Int]
      /\ \A b \in Buckets : delta[b] = Cardinality(Hits(row', S, b))
                                       - Cardinality(Hits(row, S, b))
  <2>1. /\ Sum(row', S) \in [Buckets -> Int] /\ Sum(row, S) \in [Buckets -> Int]
        /\ \A b \in Buckets :
             /\ Sum(row', S)[b] = Cardinality(Hits(row', S, b))
             /\ Sum(row, S)[b] = Cardinality(Hits(row, S, b))
      BY <1>3, SumOfWeights
  <2> QED
      BY <2>1 DEF Minus
<1> HIDE DEF delta
<1>5. /\ StatsTyped' /\ ProjectCounted'
      /\ \A b \in Buckets : fileStats'[f][b] = fileStats[f][b] + delta[b]
      /\ \A g \in Files \ {f} : fileStats'[g] = fileStats[g]
    BY <1>1, <1>4, CountedStep DEF CountsInv
<1>6. ASSUME NEW g \in Files \ strayed', NEW b \in Buckets
      PROVE  fileStats'[g][b] = Cardinality(Members(row', g, b))
  <2>1. fileStats[g][b] = Cardinality(Members(row, g, b))
      BY <1>1 DEF CountsInv, FilesCounted
  <2>2. CASE g = f
    <3>1. Cardinality(Members(row', f, b))
            = Cardinality(Members(row, f, b))
              + (Cardinality(Hits(row', S, b))
                 - Cardinality(Hits(row, S, b)))
        BY <1>3, ChangedMembers
    <3> QED
        BY <1>4, <1>5, <2>1, <2>2, <3>1
  <2>3. CASE g # f
    <3>1. Members(row', g, b) = Members(row, g, b)
        BY <1>2, <1>3, <2>3 DEF Members
    <3> QED
        BY <1>5, <2>1, <2>3, <3>1
  <2> QED
      BY <2>2, <2>3
<1> QED
    BY <1>5, <1>6 DEF CountsInv, FilesCounted

LEMMA FileStateCounts ==
  ASSUME CountsInv, NEW f \in Files, DeleteFile(f) \/ RestoreFile(f)
  PROVE  CountsInv'
<1>1. UNCHANGED <<row, fileStats, strayed>>
    BY DEF DeleteFile, RestoreFile
<1>2. FilesCounted' /\ \A b : Column(b)' = Column(b)
    BY <1>1 DEF CountsInv, FilesCounted, Column
<1>3. \A g \in Files, b \in Buckets : Column(b)[g] = fileStats[g][b] /\ Column(b)[g] \in Int
    BY DEF CountsInv, StatsTyped, Column
<1>4. IsFiniteSet(active) /\ IsFiniteSet(active') /\ active' \subseteq Files /\ active \subseteq Files
    BY FiniteParts DEF CountsInv, StatsTyped, DeleteFile, RestoreFile
<1>5. projectStats' \in [Buckets -> Int]
    BY DEF CountsInv, StatsTyped, DeleteFile, RestoreFile, Minus, Plus
<1>6. ASSUME NEW b \in Buckets PROVE projectStats'[b] = SumFunctionOnSet(Column(b), active')
  <2> DEFINE c == Column(b)
  <2>1. /\ projectStats[b] = SumFunctionOnSet(c, active)
        /\ \A g \in Files : c[g] = fileStats[g][b] /\ c[g] \in Int
      BY <1>3 DEF CountsInv, ProjectCounted
  <2> HIDE DEF c
  <2>2. CASE DeleteFile(f)
    <3>1. /\ f \in active /\ active' = active \ {f}
          /\ projectStats'[b] = projectStats[b] - fileStats[f][b]
        BY <2>2 DEF DeleteFile, Minus
    <3>2. \A g \in active : c[g] \in Int
        BY <1>4, <2>1
    <3>3. SumFunctionOnSet(c, active) = c[f] + SumFunctionOnSet(c, active \ {f})
        BY ONLY <1>4, <3>1, <3>2, SumStep
    <3>4. \A g \in active \ {f} : c[g] \in Int
        BY <3>2
    <3>5. SumFunctionOnSet(c, active \ {f}) \in Int
        BY ONLY <1>4, <3>1, <3>4, SumStep
    <3> QED
        BY <2>1, <3>1, <3>3, <3>5 DEF c
  <2>3. CASE RestoreFile(f)
    <3>1. /\ f \notin active /\ active' = active \union {f}
          /\ projectStats'[b] = projectStats[b] + fileStats[f][b]
        BY <2>3 DEF RestoreFile, Plus
    <3>2. /\ \A g \in active : c[g] \in Int /\ c[g] = c[g]
          /\ c[f] \in Int
        BY <1>4, <2>1
    <3>3. SumFunctionOnSet(c, active \union {f}) = SumFunctionOnSet(c, active) + c[f]
        BY ONLY <1>4, <3>1, <3>2, SumMore
    <3> QED
        BY <2>1, <3>1, <3>3 DEF c
  <2> QED
      BY <2>2, <2>3
<1> QED
    BY <1>1, <1>2, <1>4, <1>5, <1>6 DEF CountsInv, StatsTyped, ProjectCounted

LEMMA CountsInit == Init => CountsInv
<1> SUFFICES ASSUME Init PROVE CountsInv
    OBVIOUS
<1>1. /\ row = [e \in Entries |-> Absent] /\ active = Files
      /\ fileStats = [f \in Files |-> Zero] /\ projectStats = Zero
    BY DEF Init
<1>2. Cardinality({}) = 0
    BY FS_EmptySet
<1>3. StatsTyped
    BY <1>1 DEF StatsTyped, Zero
<1>4. FilesCounted
  <2>1. \A f, b : Members(row, f, b) = {}
      BY <1>1 DEF Members, InBucket
  <2> QED
      BY <1>1, <1>2, <2>1 DEF FilesCounted, Zero
<1>5. ASSUME NEW b \in Buckets PROVE projectStats[b] = SumFunctionOnSet(Column(b), active)
  <2> DEFINE c == Column(b)
  <2>1. IsFiniteSet(active) /\ \A f \in active : c[f] \in {0, 1}
      BY <1>1, FiniteParts DEF Column, Zero
  <2>2. {f \in active : c[f] = 1} = {}
      BY <1>1 DEF Column, Zero
  <2> HIDE DEF c
  <2>3. SumFunctionOnSet(c, active) = Cardinality({f \in active : c[f] = 1})
      BY ONLY <2>1, SumOfOnes
  <2>4. SumFunctionOnSet(c, active) = 0
      BY ONLY <1>2, <2>2, <2>3
  <2> QED
      BY <1>1, <2>4 DEF c, Zero
<1> QED
    BY <1>3, <1>4, <1>5 DEF CountsInv, ProjectCounted

LEMMA CountsNext == Inv /\ CountsInv /\ [Next]_vars => CountsInv'
<1> SUFFICES ASSUME Inv, CountsInv, [Next]_vars PROVE CountsInv'
    OBVIOUS
<1>1. row \in [Entries -> Row \union {Absent}]
    BY DEF Inv, Rows
<1>2. CASE UNCHANGED <<row, active, fileStats, projectStats, strayed>>
    BY <1>2 DEF CountsInv, StatsTyped, FilesCounted, ProjectCounted, Column
<1>3. ASSUME NEW u \in Users, NEW e \in Edited[u], OpenEntry(u, e) PROVE CountsInv'
    BY <1>2, <1>3 DEF OpenEntry
<1>4. ASSUME NEW u \in Users, NEW r \in SaveRequests[u], Save(u, r.text, r.state, r.tag)
      PROVE  CountsInv'
  <2>1. PICK e, new, kind : e = draft[u].entry /\ Written(e, new, kind)
      BY <1>4 DEF Save
  <2>2. draft[u] # Closed /\ active' = active
      BY <1>4 DEF Save
  <2>3. e \in Entries
      BY <2>1, <2>2 DEF Inv, Drafts
  <2> QED
      BY <1>1, <2>1, <2>2, <2>3, WrittenCounts
<1>5. ASSUME NEW u \in Users, NEW e \in Entries, NEW flags \in FlagRequests, SetFlags(u, e, flags)
      PROVE  CountsInv'
  <2>1. PICK new, kind : Written(e, new, kind)
      BY <1>5 DEF SetFlags
  <2>2. active' = active
      BY <1>5 DEF SetFlags
  <2> QED
      BY <1>1, <2>1, <2>2, WrittenCounts
<1>6. ASSUME NEW f \in Files, NEW uploaded \in Uploads(f), ReplaceFile(f, uploaded)
      PROVE  CountsInv'
    BY <1>1, <1>6, ReplaceCounts
<1>7. ASSUME NEW f \in Files, DeleteFile(f) \/ RestoreFile(f) PROVE CountsInv'
    BY <1>7, FileStateCounts
<1>8. ASSUME NEW u \in Users, NEW t \in Tasks, NEW files \in TaskFiles,
             CreateTask(u, t, files) \/ UpdateTask(u, t, files)
      PROVE  CountsInv'
    BY <1>2, <1>8 DEF CreateTask, UpdateTask, SetTaskFiles
<1>9. ASSUME NEW u \in Users, NEW t \in Tasks, DeleteTask(u, t) PROVE CountsInv'
    BY <1>2, <1>9 DEF DeleteTask
<1>10. ASSUME NEW u \in Users, Leave(u) \/ Rejoin(u) PROVE CountsInv'
    BY <1>2, <1>10 DEF Leave, Rejoin
<1>11. CASE UNCHANGED vars
    BY <1>2, <1>11 DEF vars
<1> QED
    BY <1>3, <1>4, <1>5, <1>6, <1>7, <1>8, <1>9, <1>10, <1>11 DEF Next

-----------------------------------------------------------------------------
(* From counts to the number of listed rows *)

(* Entry e is on the side of the hidden or the visible rows that q counts. *)
Shown(e, q, hidden) ==
  /\ row[e] # Absent /\ ~row[e].tomb /\ row[e].hidden = hidden
  /\ q.states # {} => row[e].state \in q.states
  /\ q.questioned # "any" => row[e].questioned = (q.questioned = "yes")

Matches(e, q) ==
  /\ row[e] # Absent /\ ~row[e].tomb
  /\ row[e].hidden => q.hidden
  /\ q.states # {} => row[e].state \in q.states
  /\ q.questioned # "any" => row[e].questioned = (q.questioned = "yes")

Side(s, q, hidden) ==
  CASE q.states # {} -> SumFunction([l \in q.states |-> s[[hidden |-> hidden, label |-> l]]])
    [] q.states = {} /\ q.questioned = "any" -> TotalOf(s, hidden)
    [] q.states = {} /\ q.questioned = "yes" -> s[[hidden |-> hidden, label |-> "questioned"]]
    [] OTHER -> TotalOf(s, hidden) - s[[hidden |-> hidden, label |-> "questioned"]]

LEMMA SidesAdd ==
  ASSUME NEW s, NEW q
  PROVE  StatsExpression(s, q) = Side(s, q, FALSE) + (IF q.hidden THEN Side(s, q, TRUE) ELSE 0)
BY DEF StatsExpression, Side

LEMMA QueryOf ==
  ASSUME NEW q \in CountQueries
  PROVE  /\ q.states \in SUBSET States /\ q.hidden \in BOOLEAN /\ q.scope \in Scopes
         /\ q.questioned \in {"any", "yes", "no"}
         /\ q.states = {} \/ q.questioned = "any"
BY DEF CountQueries, StateFilters

(* The rows of E on one side with one of the labels. *)
Labelled(E, h, labels) ==
  {e \in E : row[e] # Absent /\ ~row[e].tomb /\ row[e].hidden = h /\ row[e].state \in labels}

LEMMA SideOfLabels ==
  ASSUME Rows, NEW E \in SUBSET Entries, NEW s, NEW h \in BOOLEAN,
         \A b \in Buckets : s[b] = Cardinality(Hits(row, E, b)), NEW labels \in SUBSET States
  PROVE  SumFunction([l \in labels |-> s[[hidden |-> h, label |-> l]]])
           = Cardinality(Labelled(E, h, labels))
<1> DEFINE F == {e \in E : row[e] # Absent /\ ~row[e].tomb /\ row[e].hidden = h}
           class == [e \in Entries |-> row[e].state]
           c == [l \in labels |-> s[[hidden |-> h, label |-> l]]]
<1>1. IsFiniteSet(F) /\ IsFiniteSet(labels)
  <2>1. IsFiniteSet(States)
    <3>1. IsFiniteSet({"untranslated"})
        BY FS_Singleton
    <3>2. IsFiniteSet({"untranslated"} \union {"translated"})
        BY ONLY <3>1, FS_AddElement
    <3>3. IsFiniteSet(({"untranslated"} \union {"translated"}) \union {"checked"})
        BY ONLY <3>2, FS_AddElement
    <3>4. IsFiniteSet((({"untranslated"} \union {"translated"}) \union {"checked"})
                         \union {"reviewed"})
        BY ONLY <3>3, FS_AddElement
    <3>5. States = (({"untranslated"} \union {"translated"}) \union {"checked"})
                      \union {"reviewed"}
        BY DEF States
    <3> QED
        BY ONLY <3>4, <3>5
  <2> QED
      BY <2>1, FiniteParts, FS_Subset
<1>2. ASSUME NEW l \in labels PROVE c[l] = Cardinality(ClassOf(F, class, l))
  <2> DEFINE b == [hidden |-> h, label |-> l]
  <2>1. b \in Buckets /\ l # "questioned"
      BY DEF Buckets, States
  <2>2. ASSUME NEW e \in E, row[e] # Absent
        PROVE  b \in BucketsOf(row[e]) <=> row[e].hidden = h /\ row[e].state = l
    <3>1. b = [hidden |-> row[e].hidden, label |-> row[e].state]
            <=> row[e].hidden = h /\ row[e].state = l
        OBVIOUS
    <3>2. b # [hidden |-> row[e].hidden, label |-> "questioned"]
        BY <2>1
    <3> HIDE DEF b
    <3> QED
        BY <3>1, <3>2 DEF BucketsOf
  <2>3. \A e \in E : class[e] = row[e].state
      OBVIOUS
  <2> HIDE DEF class
  <2>4. Hits(row, E, b) = ClassOf(F, class, l)
      BY <2>2, <2>3 DEF Hits, InBucket, ClassOf
  <2>5. s[b] = Cardinality(Hits(row, E, b))
      BY <2>1
  <2> QED
      BY <2>4, <2>5
<1>3. ClassesOf(F, class, labels) = Labelled(E, h, labels)
    BY DEF ClassesOf, Labelled
<1>4. SumFunction(c) = SumFunctionOnSet(c, labels)
    BY DEF SumFunction
<1> HIDE DEF F, class, c
<1>5. SumFunctionOnSet(c, labels) = Cardinality(ClassesOf(F, class, labels))
    BY ONLY <1>1, <1>2, SumOfClasses
<1> QED
    BY <1>3, <1>4, <1>5 DEF c

LEMMA SideIsRows ==
  ASSUME Rows, NEW E \in SUBSET Entries, NEW s, NEW q \in CountQueries, NEW h \in BOOLEAN,
         \A b \in Buckets : s[b] = Cardinality(Hits(row, E, b))
  PROVE  Side(s, q, h) = Cardinality({e \in E : Shown(e, q, h)})
<1> DEFINE All == {e \in E : row[e] # Absent /\ ~row[e].tomb /\ row[e].hidden = h}
           Asked == {e \in E : row[e] # Absent /\ ~row[e].tomb /\ row[e].hidden = h
                               /\ row[e].questioned}
           b == [hidden |-> h, label |-> "questioned"]
<1>1. \A e \in E : row[e] # Absent => row[e].state \in States /\ row[e].questioned \in BOOLEAN
    BY DEF Rows, Row
<1>2. TotalOf(s, h) = Cardinality(All)
  <2>1. Labelled(E, h, States) = All
      BY <1>1 DEF Labelled
  <2>2. SumFunction([l \in States |-> s[[hidden |-> h, label |-> l]]])
          = Cardinality(Labelled(E, h, States))
      BY SideOfLabels
  <2> HIDE DEF All
  <2> QED
      BY <2>1, <2>2 DEF TotalOf
<1>3. s[b] = Cardinality(Asked)
  <2>1. b \in Buckets
      BY DEF Buckets
  <2>2. ASSUME NEW e \in E, row[e] # Absent
        PROVE  b \in BucketsOf(row[e]) <=> row[e].hidden = h /\ row[e].questioned
    <3>1. "questioned" \notin States
        BY DEF States
    <3>2. b # [hidden |-> row[e].hidden, label |-> row[e].state]
        BY <1>1, <2>2, <3>1
    <3>3. b = [hidden |-> row[e].hidden, label |-> "questioned"] <=> row[e].hidden = h
        OBVIOUS
    <3> HIDE DEF b
    <3> QED
        BY <3>2, <3>3 DEF BucketsOf
  <2>3. Hits(row, E, b) = Asked
      BY <2>2 DEF Hits, InBucket
  <2> QED
      BY <2>1, <2>3
<1>4. CASE q.states # {}
  <2>1. q.questioned = "any" /\ q.states \in SUBSET States
      BY <1>4, QueryOf
  <2>2. Side(s, q, h) = SumFunction([l \in q.states |-> s[[hidden |-> h, label |-> l]]])
      BY <1>4 DEF Side
  <2>3. {e \in E : Shown(e, q, h)} = Labelled(E, h, q.states)
      BY <1>4, <2>1 DEF Shown, Labelled
  <2> QED
      BY <2>1, <2>2, <2>3, SideOfLabels
<1>5. CASE q.states = {} /\ q.questioned = "any"
  <2>1. Side(s, q, h) = TotalOf(s, h)
      BY <1>5 DEF Side
  <2>2. {e \in E : Shown(e, q, h)} = All
      BY <1>5 DEF Shown
  <2> QED
      BY <1>2, <2>1, <2>2
<1>6. CASE q.states = {} /\ q.questioned = "yes"
  <2>1. Side(s, q, h) = s[b]
      BY <1>6 DEF Side
  <2>2. {e \in E : Shown(e, q, h)} = Asked
      BY <1>1, <1>6 DEF Shown
  <2> QED
      BY <1>3, <2>1, <2>2
<1>7. CASE q.states = {} /\ q.questioned = "no"
  <2>1. Side(s, q, h) = TotalOf(s, h) - s[b]
      BY <1>7 DEF Side
  <2>2. {e \in E : Shown(e, q, h)} = All \ Asked
      BY <1>1, <1>7 DEF Shown
  <2>3. Asked \in SUBSET All /\ IsFiniteSet(All)
      BY FiniteParts
  <2> HIDE DEF All, Asked, b
  <2>4. /\ Cardinality(All) \in Nat /\ Cardinality(Asked) \in Nat /\ Cardinality(All \ Asked) \in Nat
        /\ Cardinality(All) = Cardinality(Asked) + Cardinality(All \ Asked)
      BY ONLY <2>3, Disjoint
  <2>5. Cardinality(All \ Asked) = TotalOf(s, h) - s[b]
      BY ONLY <1>2, <1>3, <2>4
  <2> QED
      BY <2>1, <2>2, <2>5
<1> QED
    BY <1>4, <1>5, <1>6, <1>7, QueryOf

LEMMA StatsAreRows ==
  ASSUME Rows, NEW E \in SUBSET Entries, NEW s, NEW q \in CountQueries,
         \A b \in Buckets : s[b] = Cardinality(Hits(row, E, b))
  PROVE  StatsExpression(s, q) = Cardinality({e \in E : Matches(e, q)})
<1> DEFINE A == {e \in E : Shown(e, q, FALSE)}
           B == {e \in E : Shown(e, q, TRUE)}
           M == {e \in E : Matches(e, q)}
<1>1. Side(s, q, FALSE) = Cardinality(A) /\ Side(s, q, TRUE) = Cardinality(B)
    BY SideIsRows
<1>2. \A e \in E : row[e] # Absent => row[e].hidden \in BOOLEAN
    BY DEF Rows, Row
<1>3. IsFiniteSet(M)
    BY FiniteParts
<1>4. CASE q.hidden
  <2>1. A \in SUBSET M /\ B = M \ A
      BY <1>2, <1>4 DEF Matches, Shown
  <2> HIDE DEF A, B, M
  <2>2. Cardinality(M) = Cardinality(A) + Cardinality(M \ A)
      BY <1>3, <2>1, Disjoint
  <2>3. StatsExpression(s, q) = Cardinality(M)
      BY <1>1, <1>4, <2>1, <2>2, SidesAdd
  <2> QED
      BY <2>3 DEF M
<1>5. CASE ~q.hidden
  <2>1. A = M
      BY <1>2, <1>5 DEF Matches, Shown
  <2>2. Cardinality(A) \in Nat
      BY FiniteParts
  <2> HIDE DEF A, B, M
  <2>3. StatsExpression(s, q) = Side(s, q, FALSE) + 0
    <3>1. StatsExpression(s, q)
            = Side(s, q, FALSE) + (IF q.hidden THEN Side(s, q, TRUE) ELSE 0)
        BY ONLY SidesAdd
    <3>2. (IF q.hidden THEN Side(s, q, TRUE) ELSE 0) = 0
        BY ONLY <1>5
    <3> QED
        BY ONLY <3>1, <3>2
  <2>4. \A k \in Nat : k + 0 = k
      OBVIOUS
  <2>5. StatsExpression(s, q) = Cardinality(M)
      BY ONLY <1>1, <2>1, <2>2, <2>3, <2>4, Zenon
  <2> QED
      BY <2>5 DEF M
<1> QED
    BY <1>4, <1>5

(* The number of pages fits the list. *)
LEMMA TotalsAreRows ==
  ASSUME Rows, CountsInv, NEW q \in CountQueries, \A f \in strayed : ~InScope(f, q.scope)
  PROVE  EntryTotal(q) = Cardinality(ListEntries(q))
<1>1. /\ active \subseteq Files /\ IsFiniteSet(active) /\ IsFiniteSet(Entries)
    BY FiniteParts, EntryEditingAssumption DEF CountsInv, StatsTyped
<1>2. CASE q.scope.kind = "project"
  <2> DEFINE E == {e \in Entries : FileOf[e] \in active}
  <2>1. strayed = {} /\ \A f : InScope(f, q.scope)
      BY <1>2 DEF InScope
  <2>2. ASSUME NEW b \in Buckets PROVE projectStats[b] = Cardinality(Hits(row, E, b))
    <3> DEFINE D == {e \in Entries : InBucket(row[e], b)}
               c == Column(b)
    <3>1. \A f \in active : c[f] = Cardinality(ClassOf(D, FileOf, f))
      <4> SUFFICES ASSUME NEW f \in active PROVE c[f] = Cardinality(ClassOf(D, FileOf, f))
          OBVIOUS
      <4>1. f \in Files \ strayed
          BY <1>1, <2>1
      <4>2. c[f] = Cardinality(Members(row, f, b))
          BY <4>1 DEF Column, CountsInv, FilesCounted
      <4>3. Members(row, f, b) = ClassOf(D, FileOf, f)
          BY DEF Members, ClassOf
      <4> QED
          BY <4>2, <4>3
    <3>2. IsFiniteSet(D)
        BY FiniteParts
    <3>3. ClassesOf(D, FileOf, active) = Hits(row, E, b)
        BY DEF ClassesOf, Hits
    <3> HIDE DEF D, c, E
    <3>4. SumFunctionOnSet(c, active) = Cardinality(ClassesOf(D, FileOf, active))
        BY ONLY <1>1, <3>1, <3>2, SumOfClasses
    <3>5. projectStats[b] = SumFunctionOnSet(c, active)
        BY DEF c, CountsInv, ProjectCounted
    <3> QED
        BY <3>3, <3>4, <3>5
  <2>3. E \in SUBSET Entries
      OBVIOUS
  <2>4. ListEntries(q) = {e \in E : Matches(e, q)}
      BY <2>1 DEF ListEntries, Matches, Exists
  <2> HIDE DEF E
  <2>5. StatsExpression(projectStats, q) = Cardinality({e \in E : Matches(e, q)})
      BY <2>2, <2>3, StatsAreRows
  <2> QED
      BY <1>2, <2>4, <2>5 DEF EntryTotal
<1>3. CASE q.scope.kind # "project"
  <2> DEFINE S == {f \in active : InScope(f, q.scope)}
             c == [f \in S |-> StatsExpression(fileStats[f], q)]
             L == {e \in Entries : Matches(e, q)}
  <2>1. ASSUME NEW f \in S PROVE c[f] = Cardinality(ClassOf(L, FileOf, f))
    <3> DEFINE E == {e \in Entries : FileOf[e] = f}
    <3>1. f \in Files \ strayed
        BY <1>1
    <3>2. \A b \in Buckets : fileStats[f][b] = Cardinality(Hits(row, E, b))
      <4>1. \A b : Members(row, f, b) = Hits(row, E, b)
          BY DEF Members, Hits
      <4> HIDE DEF E
      <4> QED
          BY <3>1, <4>1 DEF CountsInv, FilesCounted
    <3>3. E \in SUBSET Entries /\ {e \in E : Matches(e, q)} = ClassOf(L, FileOf, f)
        BY DEF ClassOf
    <3> HIDE DEF E, L
    <3>4. StatsExpression(fileStats[f], q) = Cardinality({e \in E : Matches(e, q)})
        BY <3>2, <3>3, StatsAreRows
    <3> QED
        BY <3>3, <3>4
  <2>2. IsFiniteSet(S) /\ IsFiniteSet(L)
      BY <1>1, FiniteParts, FS_Subset
  <2>3. ListEntries(q) = ClassesOf(L, FileOf, S)
      BY DEF ListEntries, Matches, ClassesOf, Exists
  <2>4. EntryTotal(q) = SumFunctionOnSet(c, S)
      BY <1>3 DEF EntryTotal, SumFunction
  <2> HIDE DEF S, c, L
  <2>5. SumFunctionOnSet(c, S) = Cardinality(ClassesOf(L, FileOf, S))
      BY ONLY <2>1, <2>2, SumOfClasses
  <2> QED
      BY <2>3, <2>4, <2>5
<1> QED
    BY <1>2, <1>3

-----------------------------------------------------------------------------
(* Tasks *)

TaskRow == [files: SUBSET Files, baseline: SUBSET Entries, progress: Int \X Int]

Live(B, rows, files) == {e \in B : Visible(e, rows, files)}
Done(B, rows, files) == {e \in B : Visible(e, rows, files) /\ rows[e].state # "untranslated"}

(* The progress of t is what counting its baseline gives. *)
Measured(t, rows, files) ==
  t.progress = <<Cardinality(Live(t.baseline, rows, files)),
                 Cardinality(Done(t.baseline, rows, files))>>

TaskInv ==
  /\ task \in [Tasks -> TaskRow]
  /\ \A t \in Tasks : \A e \in task[t].baseline : FileOf[e] \in task[t].files
  /\ \A t \in Tasks : task[t] # NoTask => Measured(task[t], row, active)

LEMMA NoTaskRow == NoTask \in TaskRow /\ NoTask.baseline = {} /\ NoTask.files = {}
<1>1. -1 \in Int
    OBVIOUS
<1> QED
    BY <1>1 DEF NoTask, TaskRow

LEMMA FiniteBaselines ==
  ASSUME NEW B \in SUBSET Entries, NEW rows, NEW files
  PROVE  /\ IsFiniteSet(Live(B, rows, files)) /\ IsFiniteSet(Done(B, rows, files))
         /\ Cardinality(Live(B, rows, files)) \in Nat /\ Cardinality(Done(B, rows, files)) \in Nat
<1>1. Live(B, rows, files) \subseteq Entries /\ Done(B, rows, files) \subseteq Entries
    BY DEF Live, Done
<1>2. IsFiniteSet(Entries)
    BY EntryEditingAssumption
<1> QED
    BY <1>1, <1>2, FS_Subset, FS_CardinalityType

(* What a recomputed task is. *)
LEMMA RecomputedTask ==
  ASSUME NEW t \in TaskRow, NEW rows, NEW files
  PROVE  /\ Recomputed(t, rows, files) \in TaskRow
         /\ Recomputed(t, rows, files).files = t.files
         /\ Recomputed(t, rows, files).baseline = t.baseline
         /\ Measured(Recomputed(t, rows, files), rows, files)
         /\ Measured(t, rows, files) => Recomputed(t, rows, files) = t
<1> DEFINE l == Cardinality(Live(t.baseline, rows, files))
           d == Cardinality(Done(t.baseline, rows, files))
           p == <<l, d>>
<1>1. l \in Nat /\ d \in Nat
    BY FiniteBaselines DEF TaskRow
<1>2. p \in Int \X Int
    BY <1>1
<1>3. Recomputed(t, rows, files) = [t EXCEPT !.progress = p]
  <2>1. {e \in t.baseline : Visible(e, rows, files)} = Live(t.baseline, rows, files)
      BY DEF Live
  <2>2. {e \in Live(t.baseline, rows, files) : rows[e].state # "untranslated"}
          = Done(t.baseline, rows, files)
      BY DEF Live, Done
  <2> QED
      BY <2>1, <2>2 DEF Recomputed
<1>4. t = [files |-> t.files, baseline |-> t.baseline, progress |-> t.progress]
    BY DEF TaskRow
<1> HIDE DEF p
<1>5. [t EXCEPT !.progress = p] = [files |-> t.files, baseline |-> t.baseline, progress |-> p]
    BY <1>4
<1>6. t.files \in SUBSET Files /\ t.baseline \in SUBSET Entries
    BY DEF TaskRow
<1>7. Measured([files |-> t.files, baseline |-> t.baseline, progress |-> p], rows, files)
    BY DEF Measured, p
<1>8. ASSUME Measured(t, rows, files)
      PROVE  [files |-> t.files, baseline |-> t.baseline, progress |-> p] = t
  <2>1. t.progress = p
      BY <1>8 DEF Measured, p
  <2> QED
      BY <1>4, <2>1
<1>9. [files |-> t.files, baseline |-> t.baseline, progress |-> p] \in TaskRow
    BY <1>2, <1>6 DEF TaskRow
<1> QED
    BY <1>3, <1>5, <1>7, <1>8, <1>9

(* Writing elsewhere does not move a task. *)
LEMMA MeasuredElsewhere ==
  ASSUME NEW t, NEW rows, NEW other, NEW files, Measured(t, rows, files),
         \A e \in t.baseline : other[e] = rows[e]
  PROVE  Measured(t, other, files)
<1>1. Live(t.baseline, other, files) = Live(t.baseline, rows, files)
    BY DEF Live, Visible
<1>2. Done(t.baseline, other, files) = Done(t.baseline, rows, files)
    BY DEF Done, Visible
<1> QED
    BY <1>1, <1>2 DEF Measured

(* What one entry contributes to a count. *)
LEMMA OneMore ==
  ASSUME NEW S, NEW T, NEW e, IsFiniteSet(T), e \notin T, NEW n,
         (S = T /\ n = 0) \/ (S = T \union {e} /\ n = 1)
  PROVE  Cardinality(S) = Cardinality(T) + n
<1>1. Cardinality(T) \in Nat
    BY FS_CardinalityType
<1>2. CASE S = T /\ n = 0
    BY <1>1, <1>2
<1>3. CASE S = T \union {e} /\ n = 1
  <2>1. Cardinality(T \union {e}) = Cardinality(T) + 1
      BY FS_AddElement
  <2> QED
      BY <1>3, <2>1
<1> QED
    BY <1>2, <1>3

LEMMA Contributes ==
  ASSUME NEW B \in SUBSET Entries, NEW e \in B, NEW rows, NEW files
  PROVE  /\ Progress(e, rows, files)[1] \in Int /\ Progress(e, rows, files)[2] \in Int
         /\ Cardinality(Live(B, rows, files))
              = Cardinality(Live(B \ {e}, rows, files)) + Progress(e, rows, files)[1]
         /\ Cardinality(Done(B, rows, files))
              = Cardinality(Done(B \ {e}, rows, files)) + Progress(e, rows, files)[2]
<1> DEFINE p == Progress(e, rows, files)
           vis == Visible(e, rows, files)
           done == vis /\ rows[e].state # "untranslated"
<1>1. p[1] = IF vis THEN 1 ELSE 0
    BY DEF Progress
<1>2. p[2] = IF done THEN 1 ELSE 0
    BY DEF Progress
<1>3. Live(B, rows, files)
        = IF vis THEN Live(B \ {e}, rows, files) \union {e} ELSE Live(B \ {e}, rows, files)
    BY DEF Live
<1>4. Done(B, rows, files)
        = IF done THEN Done(B \ {e}, rows, files) \union {e} ELSE Done(B \ {e}, rows, files)
    BY DEF Done
<1>5. /\ IsFiniteSet(Live(B \ {e}, rows, files)) /\ e \notin Live(B \ {e}, rows, files)
      /\ IsFiniteSet(Done(B \ {e}, rows, files)) /\ e \notin Done(B \ {e}, rows, files)
  <2>1. B \ {e} \in SUBSET Entries
      OBVIOUS
  <2> QED
      BY <2>1, FiniteBaselines DEF Live, Done
<1> HIDE DEF p, vis, done
<1>6. p[1] \in Int /\ p[2] \in Int
    BY ONLY <1>1, <1>2
<1>7. Cardinality(Live(B, rows, files)) = Cardinality(Live(B \ {e}, rows, files)) + p[1]
  <2> DEFINE S == Live(B, rows, files)
             T == Live(B \ {e}, rows, files)
             n == p[1]
  <2>1. (S = T /\ n = 0) \/ (S = T \union {e} /\ n = 1)
      BY ONLY <1>1, <1>3
  <2>2. IsFiniteSet(T) /\ e \notin T
      BY ONLY <1>5
  <2> HIDE DEF S, T, n
  <2>3. Cardinality(S) = Cardinality(T) + n
      BY ONLY <2>1, <2>2, OneMore
  <2> QED
      BY <2>3 DEF S, T, n
<1>8. Cardinality(Done(B, rows, files)) = Cardinality(Done(B \ {e}, rows, files)) + p[2]
  <2> DEFINE S == Done(B, rows, files)
             T == Done(B \ {e}, rows, files)
             n == p[2]
  <2>1. (S = T /\ n = 0) \/ (S = T \union {e} /\ n = 1)
      BY ONLY <1>2, <1>4
  <2>2. IsFiniteSet(T) /\ e \notin T
      BY ONLY <1>5
  <2> HIDE DEF S, T, n
  <2>3. Cardinality(S) = Cardinality(T) + n
      BY ONLY <2>1, <2>2, OneMore
  <2> QED
      BY <2>3 DEF S, T, n
<1> QED
    BY <1>6, <1>7, <1>8 DEF p

(* The differences that the trigger adds are those of a new count. *)
LEMMA MovedTask ==
  ASSUME NEW t \in TaskRow, NEW e \in t.baseline, NEW old, NEW rows, NEW files,
         \A x \in Entries : x # e => rows[x] = old[x], Measured(t, old, files), NEW d,
         d[1] = Progress(e, rows, files)[1] - Progress(e, old, files)[1],
         d[2] = Progress(e, rows, files)[2] - Progress(e, old, files)[2],
         NEW new, new = [t EXCEPT !.progress = <<@[1] + d[1], @[2] + d[2]>>]
  PROVE  /\ new \in TaskRow /\ new.files = t.files /\ new.baseline = t.baseline
         /\ Measured(new, rows, files)
<1> DEFINE B == t.baseline
           p == Progress(e, old, files)
           q == Progress(e, rows, files)
           l == Cardinality(Live(B \ {e}, old, files))
           k == Cardinality(Done(B \ {e}, old, files))
<1>1. B \in SUBSET Entries /\ B \ {e} \in SUBSET Entries /\ t.files \in SUBSET Files
    BY DEF TaskRow
<1>2. l \in Nat /\ k \in Nat
    BY <1>1, FiniteBaselines
<1>3. Live(B \ {e}, rows, files) = Live(B \ {e}, old, files)
    BY <1>1 DEF Live, Visible
<1>4. Done(B \ {e}, rows, files) = Done(B \ {e}, old, files)
    BY <1>1 DEF Done, Visible
<1>5. /\ t.progress[1] = Cardinality(Live(B, old, files))
      /\ t.progress[2] = Cardinality(Done(B, old, files))
    BY DEF Measured
<1>6. e \in B
    OBVIOUS
<1> HIDE DEF B, p, q, l, k
<1>7. ASSUME NEW r
      PROVE  /\ Progress(e, r, files)[1] \in Int /\ Progress(e, r, files)[2] \in Int
             /\ Cardinality(Live(B, r, files))
                  = Cardinality(Live(B \ {e}, r, files)) + Progress(e, r, files)[1]
             /\ Cardinality(Done(B, r, files))
                  = Cardinality(Done(B \ {e}, r, files)) + Progress(e, r, files)[2]
  <2>1. B \in SUBSET Entries
      BY ONLY <1>1
  <2> QED
      BY ONLY <1>6, <2>1, Contributes
<1>8. /\ p[1] \in Int /\ p[2] \in Int
      /\ Cardinality(Live(B, old, files)) = l + p[1]
      /\ Cardinality(Done(B, old, files)) = k + p[2]
    BY ONLY <1>7 DEF p, l, k
<1>9. /\ q[1] \in Int /\ q[2] \in Int
      /\ Cardinality(Live(B, rows, files)) = l + q[1]
      /\ Cardinality(Done(B, rows, files)) = k + q[2]
    BY ONLY <1>3, <1>4, <1>7 DEF q, l, k
<1>10. t.progress[1] = l + p[1] /\ t.progress[2] = k + p[2]
    BY ONLY <1>5, <1>8
<1>11. new = [files |-> t.files, baseline |-> B,
             progress |-> <<t.progress[1] + d[1], t.progress[2] + d[2]>>]
  <2>1. t = [files |-> t.files, baseline |-> B, progress |-> t.progress]
      BY DEF B, TaskRow
  <2> QED
      BY <2>1
<1>12. /\ t.progress[1] + d[1] = l + q[1]
      /\ t.progress[2] + d[2] = k + q[2]
  <2>1. d[1] = q[1] - p[1] /\ d[2] = q[2] - p[2]
      BY DEF p, q
  <2>2. \A a \in Nat : \A x, y \in Int : (a + x) + (y - x) = a + y
      OBVIOUS
  <2>3. /\ (l + p[1]) + (q[1] - p[1]) = l + q[1]
        /\ (k + p[2]) + (q[2] - p[2]) = k + q[2]
      BY ONLY <1>2, <1>8, <1>9, <2>2, Zenon
  <2> QED
      BY ONLY <1>10, <2>1, <2>3, Zenon
<1>13. new = [files |-> t.files, baseline |-> B, progress |-> <<l + q[1], k + q[2]>>]
    BY ONLY <1>11, <1>12
<1>14. l + q[1] \in Int /\ k + q[2] \in Int
    BY ONLY <1>2, <1>9
<1>15. new \in TaskRow
    BY ONLY <1>1, <1>13, <1>14 DEF TaskRow
<1>16. new.files = t.files /\ new.baseline = B /\ new.progress = <<l + q[1], k + q[2]>>
    BY ONLY <1>13
<1>17. Measured(new, rows, files)
    BY ONLY <1>9, <1>16 DEF Measured
<1> QED
    BY <1>15, <1>16, <1>17 DEF B

LEMMA WrittenTasks ==
  ASSUME TaskInv, Rows, NEW e \in Entries, NEW new, NEW kind, Written(e, new, kind), active' = active
  PROVE  TaskInv'
<1> DEFINE rows == [row EXCEPT ![e] = new]
           d == ProgressDelta(e, rows)
<1>1. row' = rows /\ task' = Moved(e, rows)
    BY DEF Written
<1>2. \A x \in Entries : x # e => rows[x] = row[x]
    BY DEF Rows
<1>3. /\ d[1] = Progress(e, rows, active)[1] - Progress(e, row, active)[1]
      /\ d[2] = Progress(e, rows, active)[2] - Progress(e, row, active)[2]
    BY DEF ProgressDelta
<1>4. \A t \in Tasks : task[t] \in TaskRow
    BY DEF TaskInv
<1> HIDE DEF rows
<1>5. ASSUME NEW t \in Tasks
      PROVE  /\ task'[t] \in TaskRow /\ task'[t].files = task[t].files
             /\ task'[t].baseline = task[t].baseline
             /\ task'[t] # NoTask => Measured(task'[t], rows, active)
  <2>1. CASE e \in task[t].baseline
    <3>1. task'[t] = [task[t] EXCEPT !.progress = <<@[1] + d[1], @[2] + d[2]>>]
        BY <1>1, <2>1 DEF Moved
    <3>2. Measured(task[t], row, active)
        BY <2>1, NoTaskRow DEF TaskInv
    <3> HIDE DEF d
    <3>3. /\ task'[t] \in TaskRow /\ task'[t].files = task[t].files
          /\ task'[t].baseline = task[t].baseline
          /\ Measured(task'[t], rows, active)
        BY ONLY <1>2, <1>3, <1>4, <2>1, <3>1, <3>2, MovedTask
    <3> QED
        BY <3>3
  <2>2. CASE e \notin task[t].baseline
    <3>1. task'[t] = task[t]
        BY <1>1, <2>2 DEF Moved
    <3>2. \A x \in task[t].baseline : rows[x] = row[x]
        BY <1>2, <1>4, <2>2 DEF TaskRow
    <3>3. task[t] # NoTask => Measured(task[t], rows, active)
        BY <3>2, MeasuredElsewhere DEF TaskInv
    <3> QED
        BY <1>4, <3>1, <3>3
  <2> QED
      BY <2>1, <2>2
<1>6. task' \in [Tasks -> TaskRow]
  <2>1. task' = [t \in Tasks |-> task'[t]]
      BY <1>1 DEF Moved
  <2> QED
      BY <1>5, <2>1
<1> QED
    BY <1>1, <1>5, <1>6 DEF TaskInv

(* Every step that recomputes tasks leaves them measured. *)
LEMMA RecomputedTasks ==
  ASSUME TaskInv, task' = [t \in Tasks |-> task'[t]],
         \A t \in Tasks :
           \/ task'[t] = Recomputed(task[t], row', active')
           \/ task'[t] = task[t] /\ (task[t] # NoTask => Measured(task[t], row', active'))
  PROVE  TaskInv'
<1>1. ASSUME NEW t \in Tasks
      PROVE  /\ task'[t] \in TaskRow /\ task'[t].files = task[t].files
             /\ task'[t].baseline = task[t].baseline
             /\ task'[t] # NoTask => Measured(task'[t], row', active')
  <2>1. task[t] \in TaskRow
      BY DEF TaskInv
  <2> QED
      BY <2>1, RecomputedTask
<1>2. task' \in [Tasks -> TaskRow]
    BY <1>1
<1> QED
    BY <1>1, <1>2 DEF TaskInv

LEMMA SetTaskFilesTasks ==
  ASSUME TaskInv, NEW t \in Tasks, NEW files \in TaskFiles, SetTaskFiles(t, files)
  PROVE  TaskInv'
<1> DEFINE w == WithFiles(task[t], files)
           new == Recomputed(w, row, active)
<1>1. files \in SUBSET Files /\ task[t] \in TaskRow
    BY EntryEditingAssumption DEF TaskInv
<1>2. w.files = files /\ \A e \in w.baseline : FileOf[e] \in files
    BY DEF WithFiles, BaselineOf
<1>3. w \in TaskRow
    BY <1>1 DEF WithFiles, BaselineOf, TaskRow
<1>4. task' = [task EXCEPT ![t] = new] /\ row' = row /\ active' = active
    BY DEF SetTaskFiles
<1> HIDE DEF w
<1>5. /\ new \in TaskRow /\ new.files = w.files /\ new.baseline = w.baseline
      /\ Measured(new, row, active)
    BY <1>3, RecomputedTask
<1> HIDE DEF new
<1>6. \A x \in Tasks : task'[x] = IF x = t THEN new ELSE task[x]
    BY <1>4 DEF TaskInv
<1>7. task' \in [Tasks -> TaskRow]
    BY <1>4, <1>5 DEF TaskInv
<1> QED
    BY <1>2, <1>4, <1>5, <1>6, <1>7 DEF TaskInv

LEMMA TaskInit == Init => TaskInv
BY NoTaskRow DEF Init, TaskInv

LEMMA TaskNext == Inv /\ TaskInv /\ [Next]_vars => TaskInv'
<1> SUFFICES ASSUME Inv, TaskInv, [Next]_vars PROVE TaskInv'
    OBVIOUS
<1>1. Rows
    BY DEF Inv
<1>2. CASE UNCHANGED <<row, active, task>>
    BY <1>2 DEF TaskInv, Measured, Live, Done, Visible
<1>3. ASSUME NEW u \in Users, NEW e \in Edited[u], OpenEntry(u, e) PROVE TaskInv'
    BY <1>2, <1>3 DEF OpenEntry
<1>4. ASSUME NEW u \in Users, NEW r \in SaveRequests[u], Save(u, r.text, r.state, r.tag)
      PROVE  TaskInv'
  <2>1. PICK e, new, kind : e = draft[u].entry /\ Written(e, new, kind)
      BY <1>4 DEF Save
  <2>2. draft[u] # Closed /\ active' = active
      BY <1>4 DEF Save
  <2>3. e \in Entries
      BY <2>1, <2>2 DEF Inv, Drafts
  <2> QED
      BY <1>1, <2>1, <2>2, <2>3, WrittenTasks
<1>5. ASSUME NEW u \in Users, NEW e \in Entries, NEW flags \in FlagRequests, SetFlags(u, e, flags)
      PROVE  TaskInv'
  <2>1. PICK new, kind : Written(e, new, kind)
      BY <1>5 DEF SetFlags
  <2>2. active' = active
      BY <1>5 DEF SetFlags
  <2> QED
      BY <1>1, <2>1, <2>2, WrittenTasks
<1>6. ASSUME NEW f \in Files, NEW uploaded \in Uploads(f), ReplaceFile(f, uploaded)
      PROVE  TaskInv'
  <2>1. /\ task' = RecomputedFor(f, row', active') /\ active' = active
        /\ \A e \in Entries : FileOf[e] # f => row'[e] = row[e]
      BY <1>6 DEF ReplaceFile, ReplacedRows
  <2>2. \A t \in Tasks :
          task'[t] = IF f \in task[t].files THEN Recomputed(task[t], row', active') ELSE task[t]
      BY <2>1 DEF RecomputedFor
  <2>3. task' = [t \in Tasks |-> task'[t]]
      BY <2>1 DEF RecomputedFor
  <2>4. ASSUME NEW t \in Tasks, f \notin task[t].files, task[t] # NoTask
        PROVE  Measured(task[t], row', active')
    <3>1. \A e \in task[t].baseline : row'[e] = row[e]
      <4>1. \A e \in task[t].baseline : e \in Entries /\ FileOf[e] # f
          BY <2>4 DEF TaskInv, TaskRow
      <4> QED
          BY <2>1, <4>1
    <3>2. Measured(task[t], row, active)
        BY <2>4 DEF TaskInv
    <3> QED
        BY <2>1, <3>1, <3>2, MeasuredElsewhere
  <2> QED
      BY <2>2, <2>3, <2>4, RecomputedTasks
<1>7. ASSUME NEW f \in Files, DeleteFile(f) \/ RestoreFile(f) PROVE TaskInv'
  <2>1. task' = RecomputedAll(row', active')
      BY <1>7 DEF DeleteFile, RestoreFile
  <2>2. /\ task' = [t \in Tasks |-> task'[t]]
        /\ \A t \in Tasks : task'[t] = IF task[t] = NoTask THEN NoTask
                                       ELSE Recomputed(task[t], row', active')
      BY <2>1 DEF RecomputedAll
  <2> QED
      BY <2>2, RecomputedTasks
<1>8. ASSUME NEW u \in Users, NEW t \in Tasks, NEW files \in TaskFiles,
             CreateTask(u, t, files) \/ UpdateTask(u, t, files)
      PROVE  TaskInv'
    BY <1>8, SetTaskFilesTasks DEF CreateTask, UpdateTask
<1>9. ASSUME NEW u \in Users, NEW t \in Tasks, DeleteTask(u, t) PROVE TaskInv'
    BY <1>9, NoTaskRow DEF DeleteTask, TaskInv
<1>10. ASSUME NEW u \in Users, Leave(u) \/ Rejoin(u) PROVE TaskInv'
    BY <1>2, <1>10 DEF Leave, Rejoin
<1>11. CASE UNCHANGED vars
    BY <1>2, <1>11 DEF vars
<1> QED
    BY <1>3, <1>4, <1>5, <1>6, <1>7, <1>8, <1>9, <1>10, <1>11 DEF Next

-----------------------------------------------------------------------------
(* Theorems *)

(* The save that a version lets through overwrites nothing its editor has
   not seen, whatever uploads, flags and other editors wrote since. *)
THEOREM VersionsNameContent == Spec => []VersionNamesContent
<1>1. Inv => VersionNamesContent
    BY DEF Inv
<1> QED
    BY <1>1, InvHolds, PTL

(* Each row of the history explains how the entry differs from the row
   before it, although not every version has a row. *)
THEOREM HistoryAttributes == Spec => []Attributed
<1>1. Inv => Attributed
    BY DEF Inv, Histories, Fits, Told, Explains, Attributed
<1> QED
    BY <1>1, InvHolds, PTL

(* The totals of users and memberships are the sums of the ledger, whoever
   saves, leaves and comes back. *)
THEOREM LedgerAgreesHolds == Spec => []LedgerAgrees
<1>1. LedgerInv => LedgerAgrees
    BY DEF LedgerInv
<1> QED
    BY <1>1, LedgerInit, LedgerNext, PTL DEF Spec

(* Counted by differences, numbers and progress are what counting again
   would give: the page number of every query of the editor's list is the
   number of rows it lists, except where entries of a deleted file were
   written to, and the progress of every task is that of its baseline. *)
THEOREM CountsExactHolds == Spec => []CountsExact
<1>1. Inv /\ CountsInv /\ TaskInv => CountsExact
  <2> SUFFICES ASSUME Inv, CountsInv, TaskInv PROVE CountsExact
      OBVIOUS
  <2>1. ASSUME NEW t \in Tasks, task[t] # NoTask PROVE Recomputed(task[t], row, active) = task[t]
      BY <2>1, RecomputedTask DEF TaskInv
  <2>2. Rows
      BY DEF Inv
  <2>3. ASSUME NEW q \in CountQueries, \A f \in strayed : ~InScope(f, q.scope)
        PROVE  EntryTotal(q) = Cardinality(ListEntries(q))
      BY ONLY CountsInv, <2>2, <2>3, TotalsAreRows
  <2> QED
      BY <2>1, <2>3 DEF CountsExact
<1> QED
    BY <1>1, InvHolds, CountsInit, CountsNext, TaskInit, TaskNext, PTL DEF Spec

=============================================================================
