--------------------------- MODULE ImportsProofs ---------------------------
(***************************************************************************)
(* Proofs about Imports: for every file tree, what is merged is what the   *)
(* program needs, in an order in which it can be used.                     *)
(*                                                                         *)
(* The load is a depth-first search of the files and directories: those on *)
(* the stack are each below the ones under them, and whatever the imports  *)
(* of a merged file stand for is merged or on the stack.                   *)
(***************************************************************************)
EXTENDS Imports, FiniteSetTheorems, FunctionTheorems, SequenceTheorems, TLAPS

Imps == [kind : {"name", "at", "std"}, name : STRING]

\* The tree stays, and what is defined by it.
LEMMA TreeStays ==
    ASSUME tree' = tree
    PROVE  /\ Imports' = Imports /\ Needed' = Needed
           /\ NamesAreFiles' = NamesAreFiles
           /\ \A dir : FilesIn(dir)' = FilesIn(dir) /\ Entries(dir)' = Entries(dir)
           /\ \A S : Closure(S)' = Closure(S)
           /\ \A p : Below(p)' = Below(p)
           /\ \A x : Target(x)' = Target(x) /\ Import(x)' = Import(x)
<1>1. \A dir : FilesIn(dir)' = FilesIn(dir)
  BY DEF FilesIn
<1>2. \A imp, base : ResolvePath(imp, base)' = ResolvePath(imp, base)
  BY DEF ResolvePath, FirstFile, IsFile
<1>3. \A p : Uses(p)' = Uses(p)
  BY <1>1, <1>2 DEF Uses
<1>4. \A S : Closure(S)' = Closure(S)
  BY <1>3 DEF Closure, Closed
<1>5. Needed' = Needed /\ \A p : Below(p)' = Below(p)
  BY <1>3, <1>4 DEF Needed, Below
<1>6. Imports' = Imports
  BY <1>5 DEF Imports
<1>7. \A x : Target(x)' = Target(x) /\ Import(x)' = Import(x)
  BY <1>2 DEF Target, Import
<1>8. NamesAreFiles' = NamesAreFiles
  BY <1>6, <1>7 DEF NamesAreFiles
<1>9. \A dir : Entries(dir)' = Entries(dir)
  BY <1>1 DEF Entries
<1>10. QED
  BY <1>1, <1>4, <1>5, <1>6, <1>7, <1>8, <1>9

LEMMA BrokenStays ==
    ASSUME tree' = tree, broken' = broken
    PROVE  Imports' = Imports /\ \A x : Unloadable(Target(x))' <=> Unloadable(Target(x))
<1>1. /\ Imports' = Imports /\ (\A x : Target(x)' = Target(x))
      /\ \A d : FilesIn(d)' = FilesIn(d)
  BY TreeStays
<1>2. ASSUME NEW x PROVE Unloadable(Target(x))' <=> Unloadable(Target(x))
  <2> PICK t : t = Target(x)
    OBVIOUS
  <2>1. Target(x)' = t /\ FilesIn(t.dir)' = FilesIn(t.dir)
    BY <1>1
  <2>2. QED
    BY <2>1 DEF Unloadable, Fails, FilesIn
<1>3. QED
  BY <1>1, <1>2

LEMMA TreeTypes ==
    ASSUME TreesAssumption, tree \in Trees
    PROVE  /\ Main \in DOMAIN tree /\ IsFiniteSet(DOMAIN tree)
           /\ DOMAIN tree \subseteq STRING \X STRING
           /\ \A p \in DOMAIN tree : tree[p] \in Seq(Imps)
BY DEF TreesAssumption, Imps

-----------------------------------------------------------------------------
(* What an import stands for.                                                *)

\* The candidate that is chosen is a file of the tree.
LEMMA ChosenIsFile ==
    ASSUME NEW s, Len(s) \in {2, 3}, NEW k, k = SelectInSeq(s, IsFile), k # 0
    PROVE  s[k] \in DOMAIN tree
<1> DEFINE I == {i \in 1..Len(s) : IsFile(s[i])}
<1>1. k = IF I # {} THEN Min(I) ELSE 0
  BY DEF SelectInSeq
<1>2. I # {} /\ k = Min(I)
  BY <1>1
<1>3. \E i \in I : \A j \in I : i <= j
  <2>1. I \subseteq 1..3
    OBVIOUS
  <2>2. CASE 1 \in I
    BY <2>1, <2>2
  <2>3. CASE 1 \notin I /\ 2 \in I
    BY <2>1, <2>3
  <2>4. CASE 1 \notin I /\ 2 \notin I
    BY <1>2, <2>1, <2>4
  <2>5. QED
    BY <2>2, <2>3, <2>4
<1>4. Min(I) \in I
  BY <1>3 DEF Min
<1>5. QED
  BY <1>2, <1>4 DEF IsFile

LEMMA FirstFileIs ==
    ASSUME NEW s, Len(s) \in {2, 3}
    PROVE  /\ FirstFile(s).is \in {"file", "error"}
           /\ FirstFile(s).is = "file" => FirstFile(s).path \in DOMAIN tree
<1> DEFINE k == SelectInSeq(s, IsFile)
<1>1. k # 0 => s[k] \in DOMAIN tree
  BY ChosenIsFile
<1>2. FirstFile(s) = IF k = 0 THEN [is |-> "error"] ELSE [is |-> "file", path |-> s[k]]
  BY DEF FirstFile
<1> HIDE DEF k
<1>3. QED
  BY <1>1, <1>2

\* An @-import stands for the same wherever it is.
LEMMA SameAnywhere ==
    ASSUME NEW imp, imp.kind = "at", NEW b, NEW c
    PROVE  ResolvePath(imp, b) = ResolvePath(imp, c)
BY DEF ResolvePath

LEMMA Resolved ==
    ASSUME TreesAssumption, tree \in Trees, NEW p \in DOMAIN tree, NEW i \in DOMAIN tree[p]
    PROVE  LET imp == tree[p][i]
               r   == Target(<<p, i>>)
           IN /\ imp \in Imps /\ imp = Import(<<p, i>>) /\ r = ResolvePath(imp, p[1])
              /\ r.is \in {"file", "dir", "nothing", "error"}
              /\ r.is = "file" => imp.kind \in {"name", "at"} /\ r.path \in DOMAIN tree
              /\ r.is = "dir" => imp.kind = "at" /\ r.dir = imp.name
              /\ imp.kind = "name" => r.is \in {"file", "error"}
<1> DEFINE imp == tree[p][i]
           r == ResolvePath(imp, p[1])
<1>1. imp \in Imps
  BY TreeTypes, ElementOfSeq
<1>2. imp = Import(<<p, i>>) /\ Target(<<p, i>>) = r
  BY DEF Import, Target
<1>3. CASE imp.kind = "std"
  <2>1. r = [is |-> IF StdlibEnabled THEN "nothing" ELSE "error"]
    BY <1>3 DEF ResolvePath
  <2>2. QED
    BY <1>1, <1>2, <1>3, <2>1
<1>4. CASE imp.kind = "at"
  <2> DEFINE c == <<Exact(imp.name), WithRt(imp.name)>>
  <2>1. r = IF imp.name \in Dirs THEN [is |-> "dir", dir |-> imp.name] ELSE FirstFile(c)
    BY <1>4 DEF ResolvePath
  <2>2. /\ FirstFile(c).is \in {"file", "error"}
        /\ FirstFile(c).is = "file" => FirstFile(c).path \in DOMAIN tree
    <3>1. Len(c) \in {2, 3}
      OBVIOUS
    <3>2. QED
      BY <3>1, FirstFileIs
  <2> HIDE DEF c
  <2>3. CASE imp.name \in Dirs
    BY <1>1, <1>2, <1>4, <2>1, <2>3
  <2>4. CASE imp.name \notin Dirs
    BY <1>1, <1>2, <1>4, <2>1, <2>2, <2>4
  <2>5. QED
    BY <2>3, <2>4
<1>5. CASE imp.kind = "name"
  <2> DEFINE c == <<Join(p[1], imp.name), Join(Root, imp.name), Join(PkgRoot, imp.name)>>
  <2>1. r = FirstFile(c)
    BY <1>5 DEF ResolvePath
  <2>2. /\ FirstFile(c).is \in {"file", "error"}
        /\ FirstFile(c).is = "file" => FirstFile(c).path \in DOMAIN tree
    <3>1. Len(c) \in {2, 3}
      OBVIOUS
    <3>2. QED
      BY <3>1, FirstFileIs
  <2> HIDE DEF c
  <2>3. QED
    BY <1>1, <1>2, <1>5, <2>1, <2>2
<1>6. QED
  BY <1>1, <1>3, <1>4, <1>5 DEF Imps

\* The files that an import brings.
LEMMA UsesAre ==
    ASSUME TreesAssumption, tree \in Trees, NEW p \in DOMAIN tree, NEW q
    PROVE  q \in Uses(p) <=>
             \E i \in DOMAIN tree[p] :
                LET r == Target(<<p, i>>)
                IN \/ r.is = "file" /\ q = r.path
                   \/ r.is = "dir" /\ q \in FilesIn(r.dir)
<1> DEFINE r(i) == ResolvePath(tree[p][i], p[1])
           brings(i) == CASE r(i).is = "file" -> {r(i).path}
                          [] r(i).is = "dir"  -> FilesIn(r(i).dir)
                          [] OTHER            -> {}
<1>1. \A i \in DOMAIN tree[p] : Target(<<p, i>>) = r(i)
  BY Resolved
<1>2. Uses(p) = UNION {brings(i) : i \in DOMAIN tree[p]}
  BY DEF Uses
<1>3. \A i \in DOMAIN tree[p] :
         q \in brings(i) <=> \/ r(i).is = "file" /\ q = r(i).path
                             \/ r(i).is = "dir" /\ q \in FilesIn(r(i).dir)
  <2> HIDE DEF r
  <2>1. QED
    OBVIOUS
<1> HIDE DEF brings, r
<1>4. q \in Uses(p) <=> \E i \in DOMAIN tree[p] : q \in brings(i)
  BY <1>2
<1>5. QED
  BY <1>1, <1>3, <1>4

LEMMA UsesInTree ==
    ASSUME TreesAssumption, tree \in Trees, NEW p \in DOMAIN tree
    PROVE  Uses(p) \subseteq DOMAIN tree
<1>1. \A d : FilesIn(d) \subseteq DOMAIN tree
  BY DEF FilesIn
<1>2. \A i \in DOMAIN tree[p] : Target(<<p, i>>).is = "file" => Target(<<p, i>>).path \in DOMAIN tree
  BY Resolved
<1>3. ASSUME NEW q \in Uses(p) PROVE q \in DOMAIN tree
  <2>1. PICK i \in DOMAIN tree[p] :
           LET r == Target(<<p, i>>)
           IN \/ r.is = "file" /\ q = r.path
              \/ r.is = "dir" /\ q \in FilesIn(r.dir)
    BY <1>3, UsesAre
  <2>2. QED
    BY <1>1, <1>2, <2>1
<1>4. QED
  BY <1>3

-----------------------------------------------------------------------------
(* What is needed.                                                           *)

\* The closure of a set is the least closed set with it.
LEMMA ClosureLeast ==
    ASSUME TreesAssumption, tree \in Trees, NEW F \in SUBSET DOMAIN tree
    PROVE  /\ Closure(F) \in SUBSET DOMAIN tree /\ F \subseteq Closure(F)
           /\ \A p \in Closure(F) : Uses(p) \subseteq Closure(F)
           /\ \A S : F \subseteq S /\ (\A p \in S \cap Closure(F) : Uses(p) \subseteq S) => Closure(F) \subseteq S
<1> DEFINE C == Closure(F)
           closed == {S \in SUBSET DOMAIN tree : Closed(S)}
<1>1. C = {q \in DOMAIN tree : \A S \in closed : F \subseteq S => q \in S}
  BY DEF Closure
<1>2. C \in SUBSET DOMAIN tree /\ F \subseteq C
  BY <1>1
<1>3. ASSUME NEW p \in C, NEW q \in Uses(p) PROVE q \in C
  <2>1. q \in DOMAIN tree
    BY <1>2, <1>3, UsesInTree
  <2>2. ASSUME NEW S \in closed, F \subseteq S PROVE q \in S
    <3>1. p \in S
      BY <1>1, <2>2
    <3>2. QED
      BY <1>3, <3>1 DEF Closed
  <2>3. QED
    BY <1>1, <2>1, <2>2
<1>4. ASSUME NEW S, F \subseteq S, \A p \in S \cap C : Uses(p) \subseteq S PROVE C \subseteq S
  <2> DEFINE T == S \cap C
  <2>1. T \in SUBSET DOMAIN tree /\ F \subseteq T
    BY <1>2, <1>4
  <2>2. \A p \in T : Uses(p) \subseteq T
    BY <1>3, <1>4
  <2>3. T \in closed
    BY <2>1, <2>2 DEF Closed
  <2> HIDE DEF T
  <2>4. C \subseteq T
    BY <1>1, <2>1, <2>3
  <2>5. QED
    BY <2>4 DEF T
<1>5. QED
  BY <1>2, <1>3, <1>4

LEMMA BelowLeast ==
    ASSUME TreesAssumption, tree \in Trees, NEW p \in DOMAIN tree
    PROVE  /\ Below(p) \in SUBSET DOMAIN tree /\ Uses(p) \subseteq Below(p)
           /\ \A q \in Below(p) : Uses(q) \subseteq Below(p)
           /\ \A S : Uses(p) \subseteq S /\ (\A q \in S \cap Below(p) : Uses(q) \subseteq S) => Below(p) \subseteq S
BY UsesInTree, ClosureLeast DEF Below

LEMMA BelowBelow ==
    ASSUME TreesAssumption, tree \in Trees, NEW p \in DOMAIN tree, NEW q \in Below(p)
    PROVE  Below(q) \subseteq Below(p)
<1>1. q \in DOMAIN tree
  BY BelowLeast
<1> DEFINE S == Below(p)
<1>2. Uses(q) \subseteq S /\ \A x \in S : Uses(x) \subseteq S
  BY BelowLeast
<1> HIDE DEF S
<1>3. Below(q) \subseteq S
  BY <1>1, <1>2, BelowLeast
<1>4. QED
  BY <1>3 DEF S

\* The program needs itself and what it imports.
LEMMA NeededIs ==
    ASSUME TreesAssumption, tree \in Trees
    PROVE  Needed = {Main} \cup Below(Main) /\ Needed \in SUBSET DOMAIN tree
<1> DEFINE S == {Main} \cup Below(Main)
<1>1. Main \in DOMAIN tree
  BY TreeTypes
<1>2. /\ Below(Main) \in SUBSET DOMAIN tree /\ Uses(Main) \subseteq Below(Main)
      /\ \A q \in Below(Main) : Uses(q) \subseteq Below(Main)
      /\ \A T : Uses(Main) \subseteq T /\ (\A q \in T \cap Below(Main) : Uses(q) \subseteq T) => Below(Main) \subseteq T
  BY <1>1, BelowLeast
<1>3. /\ Needed \in SUBSET DOMAIN tree /\ Main \in Needed
      /\ \A p \in Needed : Uses(p) \subseteq Needed
      /\ \A T : {Main} \subseteq T /\ (\A p \in T \cap Needed : Uses(p) \subseteq T) => Needed \subseteq T
  BY <1>1, ClosureLeast DEF Needed
<1>4. \A p \in S : Uses(p) \subseteq S
  BY <1>2
<1>5. {Main} \subseteq S
  OBVIOUS
<1> HIDE DEF S
<1>6. Needed \subseteq S
  BY <1>3, <1>4, <1>5
<1>7. Uses(Main) \subseteq Needed
  BY <1>3
<1>8. Below(Main) \subseteq Needed
  BY <1>2, <1>3, <1>7
<1>9. QED
  BY <1>3, <1>6, <1>8 DEF S

\* An import is a place in a file that is needed.
LEMMA ImportsAre ==
    /\ \A p, i : p \in Needed /\ i \in DOMAIN tree[p] => <<p, i>> \in Imports
    /\ \A x \in Imports : x[1] \in Needed /\ x[2] \in DOMAIN tree[x[1]] /\ x = <<x[1], x[2]>>
BY DEF Imports

-----------------------------------------------------------------------------
(* The files of a directory in the order of their names.                     *)

Sorts(F, R, s) == \A i, j \in 1..Cardinality(F) : i < j => <<s[i], s[j]>> \in R

LEMMA SortExists ==
    ASSUME NEW F, IsFiniteSet(F), NEW R,
           \A x, y \in F : x = y \/ <<x, y>> \in R \/ <<y, x>> \in R,
           \A x, y \in F : <<x, y>> \in R => <<y, x>> \notin R,
           \A x, y, z \in F : <<x, y>> \in R /\ <<y, z>> \in R => <<x, z>> \in R
    PROVE  /\ Cardinality(F) \in Nat
           /\ \E s \in [1..Cardinality(F) -> F] : Sorts(F, R, s)
           /\ \A s \in [1..Cardinality(F) -> F] :
                 Sorts(F, R, s) => \A x \in F : \E i \in 1..Cardinality(F) : s[i] = x
<1> DEFINE n == Cardinality(F)
           D == 1..n
           Upto(x) == {y \in F : y = x \/ <<y, x>> \in R}
           rank == [x \in F |-> Cardinality(Upto(x))]
<1>1. n \in Nat /\ IsFiniteSet(D) /\ Cardinality(D) = n
  BY FS_CardinalityType, FS_Interval
<1>2. ASSUME NEW x \in F
      PROVE  IsFiniteSet(Upto(x)) /\ Cardinality(Upto(x)) \in D
  <2>1. IsFiniteSet(Upto(x)) /\ Cardinality(Upto(x)) <= n
    BY FS_Subset
  <2>2. Cardinality(Upto(x)) \in Nat
    BY <2>1, FS_CardinalityType
  <2>3. x \in Upto(x)
    OBVIOUS
  <2>4. Cardinality(Upto(x)) # 0
    BY <2>1, <2>3, FS_EmptySet
  <2> HIDE DEF Upto
  <2>5. QED
    BY <1>1, <2>1, <2>2, <2>4
<1>3. ASSUME NEW x \in F, NEW y \in F, <<x, y>> \in R
      PROVE  Cardinality(Upto(x)) < Cardinality(Upto(y))
  <2>1. Upto(x) \subseteq Upto(y)
    BY <1>3
  <2>2. y \in Upto(y) /\ y \notin Upto(x)
    BY <1>3
  <2>3. Cardinality(Upto(x)) <= Cardinality(Upto(y)) /\ Cardinality(Upto(x)) # Cardinality(Upto(y))
    BY <1>2, <2>1, <2>2, FS_Subset
  <2>4. Cardinality(Upto(x)) \in Nat /\ Cardinality(Upto(y)) \in Nat
    BY <1>2, FS_CardinalityType
  <2> HIDE DEF Upto
  <2>5. QED
    BY <2>3, <2>4
<1>4. rank \in [F -> D] /\ \A x, y \in F : <<x, y>> \in R => rank[x] < rank[y]
  BY <1>2, <1>3
<1> HIDE DEF rank, Upto
<1>5. \A x, y \in F : rank[x] = rank[y] => x = y
  <2>1. \A x \in F : rank[x] \in D
    BY <1>4
  <2>2. \A x, y \in F : <<x, y>> \in R => rank[x] # rank[y]
    BY <1>1, <1>4, <2>1
  <2>3. QED
    BY <2>2
<1>6. \A k \in D : \E x \in F : rank[x] = k
  <2>1. rank \in Injection(F, D)
    BY <1>4, <1>5, Fun_IsInj
  <2>2. rank \in Surjection(F, D)
    BY <1>1, <2>1, FS_Injection
  <2>3. QED
    BY <2>2, Fun_SurjectionProperties
<1>7. \E s \in [D -> F] : Sorts(F, R, s)
  <2> DEFINE s == [k \in D |-> CHOOSE x \in F : rank[x] = k]
  <2>1. s \in [D -> F] /\ \A k \in D : rank[s[k]] = k
    BY <1>6
  <2> HIDE DEF s
  <2>2. ASSUME NEW i \in D, NEW j \in D, i < j PROVE <<s[i], s[j]>> \in R
    <3>1. s[i] \in F /\ s[j] \in F /\ rank[s[i]] = i /\ rank[s[j]] = j
      BY <2>1
    <3>2. i \in Int /\ j \in Int
      BY <1>1
    <3>3. s[i] # s[j] /\ <<s[j], s[i]>> \notin R
      BY <1>4, <2>2, <3>1, <3>2
    <3>4. QED
      BY <3>1, <3>3
  <2>3. QED
    BY <2>1, <2>2 DEF Sorts
<1>8. ASSUME NEW s \in [D -> F], Sorts(F, R, s), NEW x \in F PROVE \E i \in D : s[i] = x
  <2>1. \A i, j \in D : s[i] = s[j] => i = j
    <3>1. \A i, j \in D : i < j => s[i] # s[j]
      BY <1>8 DEF Sorts
    <3>2. D \subseteq Int /\ \A i, j \in D : i = j \/ i < j \/ j < i
      BY <1>1
    <3>3. QED
      BY <3>1, <3>2
  <2>2. s \in Injection(D, F)
    BY <2>1, Fun_IsInj
  <2>3. s \in Surjection(D, F)
    BY <1>1, <2>2, FS_Injection
  <2>4. QED
    BY <2>3 DEF Surjection
<1>9. QED
  BY <1>1, <1>7, <1>8

\* Entries lists the files of a directory, every one.
LEMMA EntriesList ==
    ASSUME TreesAssumption, EarlierAssumption, tree \in Trees, NEW dir
    PROVE  /\ Entries(dir) \in Seq(DOMAIN tree)
           /\ \A i \in DOMAIN Entries(dir) : Entries(dir)[i] \in FilesIn(dir)
           /\ \A p \in FilesIn(dir) : \E i \in DOMAIN Entries(dir) : Entries(dir)[i] = p
<1> DEFINE F == FilesIn(dir)
           R == {x \in F \X F : Earlier(x[1][2], x[2][2])}
           n == Cardinality(F)
<1>1. F \subseteq DOMAIN tree /\ \A p \in F : p[1] = dir
  BY DEF FilesIn
<1>2. IsFiniteSet(F)
  BY <1>1, TreeTypes, FS_Subset
<1>3. \A x, y \in F : <<x, y>> \in R <=> Earlier(x[2], y[2])
  OBVIOUS
<1>4. \A x \in F : x[2] \in NamesIn(tree)
  BY <1>1 DEF NamesIn
<1>5. \A x, y \in F : x[2] = y[2] => x = y
  <2>1. \A x \in F : x = <<dir, x[2]>>
    <3> SUFFICES ASSUME NEW x \in F PROVE x = <<dir, x[2]>>
      OBVIOUS
    <3>1. x \in STRING \X STRING /\ x[1] = dir
      BY <1>1, TreeTypes
    <3>2. QED
      BY <3>1
  <2>2. QED
    BY <2>1
<1>6. \A x, y \in NamesIn(tree) :
        /\ x = y \/ Earlier(x, y) \/ Earlier(y, x)
        /\ Earlier(x, y) => /\ ~Earlier(y, x)
                            /\ \A z \in NamesIn(tree) : Earlier(y, z) => Earlier(x, z)
  BY DEF EarlierAssumption
<1> HIDE DEF R
<1>7. /\ \A x, y \in F : x = y \/ <<x, y>> \in R \/ <<y, x>> \in R
      /\ \A x, y \in F : <<x, y>> \in R => <<y, x>> \notin R
      /\ \A x, y, z \in F : <<x, y>> \in R /\ <<y, z>> \in R => <<x, z>> \in R
  <2>1. ASSUME NEW x \in F, NEW y \in F
        PROVE  /\ x = y \/ Earlier(x[2], y[2]) \/ Earlier(y[2], x[2])
               /\ Earlier(x[2], y[2]) => ~Earlier(y[2], x[2])
    BY <1>4, <1>5, <1>6
  <2>2. ASSUME NEW x \in F, NEW y \in F, NEW z \in F
        PROVE  Earlier(x[2], y[2]) /\ Earlier(y[2], z[2]) => Earlier(x[2], z[2])
    BY <1>4, <1>6
  <2>3. QED
    BY <1>3, <2>1, <2>2
<1> HIDE DEF F
<1> HIDE DEF n
<1>8. /\ n \in Nat
      /\ \E s \in [1..n -> F] : Sorts(F, R, s)
      /\ \A s \in [1..n -> F] : Sorts(F, R, s) => \A x \in F : \E i \in 1..n : s[i] = x
  BY <1>2, <1>7, SortExists DEF n
<1>9. \A s \in [1..n -> F] : DOMAIN s = 1..n /\ \A i \in 1..n : s[i] \in F
  OBVIOUS
<1>10. Entries(dir) = CHOOSE s \in [1..n -> F] : Sorts(F, R, s)
  <2>1. \A s \in [1..n -> F] :
          Sorts(F, R, s) <=> \A i, j \in DOMAIN s : i < j => Earlier(s[i][2], s[j][2])
    BY <1>3, <1>9 DEF Sorts, n
  <2>2. QED
    BY <2>1 DEF Entries, F, n
<1>11. Entries(dir) \in [1..n -> F] /\ Sorts(F, R, Entries(dir))
  BY <1>8, <1>10
<1> DEFINE e == Entries(dir)
<1> HIDE DEF e
<1>12. DOMAIN e = 1..n /\ \A i \in 1..n : e[i] \in F
  BY <1>11 DEF e
<1>13. e \in Seq(DOMAIN tree)
  <2>1. e \in [1..n -> DOMAIN tree]
    BY <1>1, <1>11, <1>12 DEF e, F
  <2>2. QED
    BY <1>8, <2>1
<1>14. \A x \in F : \E i \in 1..n : e[i] = x
  BY <1>8, <1>11 DEF e
<1>15. QED
  BY <1>12, <1>13, <1>14 DEF e, F

-----------------------------------------------------------------------------
(* The invariant of a load.                                                  *)

\* The frame of a directory has a path without a name.
Paths == STRING \X (STRING \cup {""})
Frames == [is : {"file", "dir"}, path : Paths, files : Seq(DOMAIN tree), at : Nat \ {0}]

TypeOK ==
    /\ tree \in Trees /\ stack \in Seq(Frames) /\ merged \in Seq(DOMAIN tree)
    /\ outcome \in {"loading", "done", "failed"}

\* The files a frame is there for, and those below it.
Heads(f) == IF f.is = "file" THEN {f.path} ELSE FilesIn(f.path[1])
Under(f) == IF f.is = "file" THEN Below(f.path) ELSE Closure(FilesIn(f.path[1]))

\* A frame is of a file or of an imported directory, and what it has come past
\* is among the keys.
FrameOK(f) ==
    \/ /\ f.is = "file" /\ f.path \in DOMAIN tree \ broken
       /\ \A i \in DOMAIN tree[f.path] : i < f.at => Key(tree[f.path][i]) \in loaded
    \/ /\ f.is = "dir" /\ f.files = Entries(f.path[1])
       /\ \E x \in Imports : Target(x).is = "dir" /\ Target(x).dir = f.path[1]
       /\ \A i \in DOMAIN f.files : i < f.at => FileKey(f.files[i]) \in loaded

StackOK ==
    /\ Len(stack) > 0 /\ stack[1].is = "file" /\ stack[1].path = Main
    /\ \A k \in 1..Len(stack) : FrameOK(stack[k])
    /\ \A j, k \in 1..Len(stack) : j < k => Heads(stack[k]) \subseteq Under(stack[j])

\* What is merged is below the program, not broken, and its imports are among
\* the keys.
MergedOK ==
    \A p \in ToSet(merged) :
        /\ p \in Below(Main) \ broken
        /\ \A i \in DOMAIN tree[p] : Key(tree[p][i]) \in loaded

\* Loaded or being loaded because of an import.
Reached(p) == \/ p \in ToSet(merged)
              \/ \E k \in 2..Len(stack) : stack[k].is = "file" /\ stack[k].path = p
OnStack(d) == \E k \in 2..Len(stack) : stack[k].is = "dir" /\ stack[k].path[1] = d

\* A key is there for what was reached, and what was reached has a key.
KeysOK ==
    /\ \A x \in Imports : Key(Import(x)) \in loaded /\ Target(x).is = "dir" =>
           OnStack(Target(x).dir) \/ \A p \in FilesIn(Target(x).dir) : FileKey(p) \in loaded
    /\ \A p : FileKey(p) \in loaded => Reached(p)
    /\ \A p : Reached(p) =>
           \/ \E x \in Imports : /\ Target(x).is = "file" /\ Target(x).path = p
                                 /\ Key(Import(x)) \in loaded
           \/ /\ FileKey(p) \in loaded
              /\ \E x \in Imports : Target(x).is = "dir" /\ Target(x).dir = p[1]

\* If names are files, what an import with a key stands for was reached, and
\* nothing is reached twice.
NamesOK ==
    \A x \in Imports : Key(Import(x)) \in loaded /\ Target(x).is = "file" => Reached(Target(x).path)
ReachedOnce ==
    /\ \A j, k \in 2..Len(stack) :
          stack[j].is = "file" /\ stack[k].is = "file" /\ stack[j].path = stack[k].path => j = k
    /\ \A k \in 2..Len(stack) : stack[k].is = "file" => stack[k].path \notin ToSet(merged)
    /\ \A i, j \in 1..Len(merged) : merged[i] = merged[j] => i = j
MergedAfter ==
    \A i \in 1..Len(merged) : merged[i] \notin Below(merged[i]) =>
        \A q \in Below(merged[i]) : \E j \in 1..Len(merged) : j < i /\ merged[j] = q

Loading == /\ StackOK /\ MergedOK /\ KeysOK
           /\ NamesAreFiles => NamesOK /\ ReachedOnce /\ MergedAfter
ImportsInv == /\ TypeOK
              /\ outcome = "loading" => Loading
              /\ outcome # "loading" => MergedOnceInOrder

-----------------------------------------------------------------------------
(* The stack.                                                                *)

LEMMA TopFrame ==
    ASSUME TypeOK, StackOK
    PROVE  /\ Len(stack) \in Nat /\ Len(stack) > 0 /\ DOMAIN stack = 1..Len(stack)
           /\ \A k \in 1..Len(stack) : stack[k] \in Frames
           /\ Top = stack[Len(stack)] /\ Top \in Frames /\ FrameOK(Top)
<1>1. Len(stack) \in Nat /\ DOMAIN stack = 1..Len(stack)
  BY LenProperties DEF TypeOK
<1>2. \A k \in 1..Len(stack) : stack[k] \in Frames
  BY <1>1, ElementOfSeq DEF TypeOK
<1>3. Len(stack) \in 1..Len(stack)
  BY <1>1 DEF StackOK
<1>4. QED
  BY <1>1, <1>2, <1>3 DEF StackOK, Top

\* The top has come past one import or file more.
LEMMA AdvancedIs ==
    ASSUME TypeOK, StackOK
    PROVE  /\ Advanced \in Seq(Frames) /\ Len(Advanced) = Len(stack)
           /\ \A k \in 1..Len(stack) :
                 /\ Advanced[k].is = stack[k].is /\ Advanced[k].path = stack[k].path
                 /\ Advanced[k].files = stack[k].files
                 /\ Advanced[k].at = IF k = Len(stack) THEN stack[k].at + 1 ELSE stack[k].at
<1> DEFINE n == Len(stack)
           g == [stack[n] EXCEPT !.at = @ + 1]
<1>1. n \in Nat /\ n > 0 /\ DOMAIN stack = 1..n /\ \A k \in 1..n : stack[k] \in Frames
  BY TopFrame
<1>2. stack[n] \in Frames
  BY <1>1
<1>3. g \in Frames /\ g.is = stack[n].is /\ g.path = stack[n].path /\ g.files = stack[n].files /\ g.at = stack[n].at + 1
  <2>1. stack[n].at + 1 \in Nat \ {0}
    <3>1. stack[n].at \in Nat
      BY <1>2 DEF Frames
    <3>2. stack[n].at + 1 \in Nat /\ stack[n].at + 1 # 0
      BY <3>1
    <3>3. QED
      BY <3>2
  <2>2. QED
    BY <1>2, <2>1 DEF Frames
<1>4. Advanced = [stack EXCEPT ![n] = g]
  BY DEF Advanced
<1> HIDE DEF g
<1>5. Advanced \in Seq(Frames) /\ Len(Advanced) = n
  <2>1. stack \in [1..n -> Frames]
    BY <1>1 DEF TypeOK
  <2>2. Advanced \in [1..n -> Frames]
    BY <1>1, <1>3, <1>4, <2>1
  <2>3. QED
    BY <1>1, <2>2, LenProperties
<1>6. \A k \in 1..n : Advanced[k] = IF k = n THEN g ELSE stack[k]
  BY <1>1, <1>4
<1>7. QED
  BY <1>3, <1>5, <1>6

\* A frame stays in order when the load goes on.
LEMMA FrameKept ==
    ASSUME tree' = tree, broken' = broken, loaded \subseteq loaded', NEW f \in Frames, NEW g, FrameOK(f),
           g.is = f.is, g.path = f.path, g.files = f.files,
           \/ g.at = f.at
           \/ /\ g.at = f.at + 1
              /\ f.is = "file" /\ f.at \in DOMAIN tree[f.path] => Key(tree[f.path][f.at]) \in loaded'
              /\ f.is = "dir" /\ f.at \in DOMAIN f.files => FileKey(f.files[f.at]) \in loaded',
           f.is = "file" => DOMAIN tree[f.path] \subseteq Int,
           f.is = "dir" => DOMAIN f.files \subseteq Int
    PROVE  FrameOK(g)'
<1>1. f.at \in Int
  BY DEF Frames
<1>2. CASE f.is = "file"
  <2>1. f.path \in DOMAIN tree \ broken /\ \A i \in DOMAIN tree[f.path] : i < f.at => Key(tree[f.path][i]) \in loaded
    BY <1>2 DEF FrameOK
  <2>2. \A i \in DOMAIN tree[f.path] : i < g.at => i < f.at \/ (i = f.at /\ g.at = f.at + 1)
    BY <1>1, <1>2
  <2>3. \A i \in DOMAIN tree[f.path] : i < g.at => Key(tree[f.path][i]) \in loaded'
    BY <1>2, <2>1, <2>2
  <2>4. QED
    BY <1>2, <2>1, <2>3 DEF FrameOK, Key
<1>3. CASE f.is = "dir"
  <2>1. /\ f.files = Entries(f.path[1])
        /\ \E x \in Imports : Target(x).is = "dir" /\ Target(x).dir = f.path[1]
        /\ \A i \in DOMAIN f.files : i < f.at => FileKey(f.files[i]) \in loaded
    BY <1>3 DEF FrameOK
  <2>2. \A i \in DOMAIN f.files : i < g.at => i < f.at \/ (i = f.at /\ g.at = f.at + 1)
    BY <1>1, <1>3
  <2>3. \A i \in DOMAIN f.files : i < g.at => FileKey(f.files[i]) \in loaded'
    BY <1>3, <2>1, <2>2
  <2>4. QED
    BY <1>3, <2>1, <2>3, TreeStays DEF FrameOK, FileKey
<1>4. QED
  BY <1>2, <1>3 DEF Frames

\* What is below a frame is closed, and least.
LEMMA UnderWithin ==
    ASSUME TreesAssumption, tree \in Trees, NEW f \in Frames, FrameOK(f)
    PROVE  /\ Under(f) \in SUBSET DOMAIN tree
           /\ \A p \in Under(f) : Uses(p) \subseteq Under(f)
           /\ f.is = "file" => Uses(f.path) \subseteq Under(f)
           /\ f.is = "dir" => Heads(f) \subseteq Under(f)
           /\ \A S : Heads(f) \subseteq S /\ (\A p \in S : Uses(p) \subseteq S) => Under(f) \subseteq S
<1>1. CASE f.is = "file"
  <2>1. f.path \in DOMAIN tree
    BY <1>1 DEF FrameOK
  <2>2. Heads(f) = {f.path} /\ Under(f) = Below(f.path)
    BY <1>1 DEF Heads, Under
  <2>3. QED
    BY <1>1, <2>1, <2>2, BelowLeast
<1>2. CASE f.is = "dir"
  <2>1. FilesIn(f.path[1]) \in SUBSET DOMAIN tree
    BY DEF FilesIn
  <2>2. Heads(f) = FilesIn(f.path[1]) /\ Under(f) = Closure(FilesIn(f.path[1]))
    BY <1>2 DEF Heads, Under
  <2>3. QED
    BY <1>2, <2>1, <2>2, ClosureLeast
<1>3. QED
  BY <1>1, <1>2 DEF Frames

\* How the load goes on: past the current import or file, and perhaps into one.
Pushed(f) == /\ f \in Frames /\ f.at = 1 /\ FrameOK(f)' /\ Heads(f) \subseteq Under(Top)
             /\ stack' = Append(Advanced, f)
Goes ==
    /\ tree' = tree /\ broken' = broken /\ merged' = merged /\ loaded \subseteq loaded'
    /\ Top.is = "file" => Key(tree[Top.path][Top.at]) \in loaded'
    /\ Top.is = "dir" => FileKey(Top.files[Top.at]) \in loaded'
    /\ stack' = Advanced \/ \E f : Pushed(f)

\* The frames after such a step.
LEMMA GoesFrames ==
    ASSUME TypeOK, StackOK, Goes
    PROVE  /\ stack' \in Seq(Frames) /\ Len(stack') \in Nat /\ Len(stack') >= Len(stack)
           /\ \A k \in 1..Len(stack) :
                 /\ stack'[k].is = stack[k].is /\ stack'[k].path = stack[k].path
                 /\ stack'[k].files = stack[k].files
                 /\ stack'[k].at = IF k = Len(stack) THEN stack[k].at + 1 ELSE stack[k].at
           /\ stack' = Advanced => Len(stack') = Len(stack)
           /\ \A f : Pushed(f) => Len(stack') = Len(stack) + 1 /\ stack'[Len(stack) + 1] = f
<1> DEFINE n == Len(stack)
           A == Advanced
<1>1. n \in Nat /\ n > 0
  BY TopFrame
<1>2. A \in Seq(Frames) /\ Len(A) = n
  BY AdvancedIs
<1>3. \A k \in 1..n : /\ A[k].is = stack[k].is /\ A[k].path = stack[k].path
                      /\ A[k].files = stack[k].files
                      /\ A[k].at = IF k = n THEN stack[k].at + 1 ELSE stack[k].at
  BY AdvancedIs
<1> HIDE DEF A
<1>4. \A f \in Frames : /\ Append(A, f) \in Seq(Frames) /\ Len(Append(A, f)) = n + 1
                        /\ \A k \in 1..n : Append(A, f)[k] = A[k]
                        /\ Append(A, f)[n + 1] = f
  BY <1>1, <1>2, AppendProperties
<1>5. CASE stack' = A
  <2>1. ASSUME NEW f, Pushed(f) PROVE FALSE
    <3>1. f \in Frames /\ stack' = Append(A, f)
      BY <2>1 DEF Pushed, A
    <3>2. Len(stack') = n + 1 /\ Len(stack') = n
      BY <1>2, <1>4, <1>5, <3>1
    <3>3. QED
      BY <1>1, <3>2
  <2>2. QED
    BY <1>1, <1>2, <1>3, <1>5, <2>1 DEF A
<1>6. ASSUME NEW f, Pushed(f) PROVE f \in Frames /\ stack' = Append(A, f)
  BY <1>6 DEF Pushed, A
<1>7. CASE \E f : Pushed(f)
  <2>1. PICK f : Pushed(f)
    BY <1>7
  <2>2. f \in Frames /\ stack' = Append(A, f)
    BY <2>1 DEF Pushed, A
  <2>3. Len(stack') = n + 1 /\ stack' \in Seq(Frames) /\ \A k \in 1..n : stack'[k] = A[k]
    BY <1>4, <2>2
  <2>4. stack' # A
    BY <1>1, <1>2, <2>3
  <2>5. \A g : Pushed(g) => stack'[n + 1] = g
    BY <1>4, <1>6
  <2>6. QED
    BY <1>1, <1>3, <2>3, <2>4, <2>5 DEF A
<1>8. QED
  BY <1>5, <1>7 DEF Goes, A

\* Below each frame are the frames above it.
LEMMA GoesStack ==
    ASSUME TreesAssumption, TypeOK, StackOK, Goes
    PROVE  StackOK'
<1> DEFINE n == Len(stack)
<1>1. n \in Nat /\ n > 0 /\ (\A k \in 1..n : stack[k] \in Frames) /\ Top = stack[n]
  BY TopFrame
<1>2. /\ stack' \in Seq(Frames) /\ Len(stack') \in Nat /\ Len(stack') >= n
      /\ \A k \in 1..n : /\ stack'[k].is = stack[k].is /\ stack'[k].path = stack[k].path
                         /\ stack'[k].files = stack[k].files
                         /\ stack'[k].at = IF k = n THEN stack[k].at + 1 ELSE stack[k].at
      /\ stack' = Advanced => Len(stack') = n
      /\ \A f : Pushed(f) => Len(stack') = n + 1 /\ stack'[n + 1] = f
  BY GoesFrames
<1>3. tree \in Trees /\ tree' = tree /\ broken' = broken
  BY DEF TypeOK, Goes
<1>4. \A p : Below(p)' = Below(p)
  BY <1>3, TreeStays
<1>5. \A S : Closure(S)' = Closure(S)
  BY <1>3, TreeStays
<1>6. \A d : FilesIn(d)' = FilesIn(d)
  BY <1>3, TreeStays
<1>7. \A k \in 1..n : Heads(stack[k])' = Heads(stack[k]) /\ Under(stack[k])' = Under(stack[k])
  BY <1>2, <1>4, <1>5, <1>6 DEF Heads, Under
<1>8. ASSUME NEW k \in 1..n PROVE FrameOK(stack[k])'
  <2>1. stack[k] \in Frames /\ FrameOK(stack[k])
    BY <1>1, <1>8 DEF StackOK
  <2>2. stack[k].is = "file" => DOMAIN tree[stack[k].path] \subseteq Int
    <3>1. SUFFICES ASSUME stack[k].is = "file" PROVE DOMAIN tree[stack[k].path] \subseteq Int
      OBVIOUS
    <3>2. tree[stack[k].path] \in Seq(Imps)
      BY <1>3, <2>1, <3>1, TreeTypes DEF FrameOK
    <3>3. QED
      BY <3>2, LenProperties
  <2>3. DOMAIN stack[k].files \subseteq Int
    <3>1. stack[k].files \in Seq(DOMAIN tree)
      BY <2>1 DEF Frames
    <3>2. QED
      BY <3>1, LenProperties
  <2>4. loaded \subseteq loaded'
    BY DEF Goes
  <2>5. \/ stack'[k].at = stack[k].at
        \/ /\ stack'[k].at = stack[k].at + 1
           /\ stack[k].is = "file" => Key(tree[stack[k].path][stack[k].at]) \in loaded'
           /\ stack[k].is = "dir" => FileKey(stack[k].files[stack[k].at]) \in loaded'
    BY <1>1, <1>2 DEF Goes
  <2>6. \A f \in Frames : \A g :
          /\ FrameOK(f) /\ g.is = f.is /\ g.path = f.path /\ g.files = f.files
          /\ \/ g.at = f.at
             \/ /\ g.at = f.at + 1
                /\ f.is = "file" => Key(tree[f.path][f.at]) \in loaded'
                /\ f.is = "dir" => FileKey(f.files[f.at]) \in loaded'
          /\ f.is = "file" => DOMAIN tree[f.path] \subseteq Int
          /\ DOMAIN f.files \subseteq Int
          => FrameOK(g)'
    BY <1>3, <2>4, FrameKept
  <2>7. stack'[k].is = stack[k].is /\ stack'[k].path = stack[k].path /\ stack'[k].files = stack[k].files
    BY <1>2
  <2>8. QED
    BY <2>1, <2>2, <2>3, <2>5, <2>6, <2>7
<1>9. \A j, k \in 1..n : j < k => Heads(stack[k])' \subseteq Under(stack[j])'
  BY <1>7 DEF StackOK
<1>10. 1 \in 1..n
  BY <1>1
<1>11. stack'[1].is = "file" /\ stack'[1].path = Main
  BY <1>2, <1>10 DEF StackOK
<1>12. CASE Len(stack') = n
  BY <1>1, <1>8, <1>9, <1>11, <1>12 DEF StackOK
<1>13. ASSUME NEW f, Pushed(f) PROVE StackOK'
  <2>1. Len(stack') = n + 1 /\ stack'[n + 1] = f /\ f \in Frames /\ FrameOK(f)' /\ Heads(f) \subseteq Under(Top)
    BY <1>2, <1>13 DEF Pushed
  <2> PICK m \in Nat : m = n + 1
    BY <1>1
  <2>2. FrameOK(stack[m])'
    BY <2>1
  <2>3. Heads(stack[m])' = Heads(f)
    BY <1>6, <2>1 DEF Heads
  <2>4. ASSUME NEW j \in 1..n PROVE Heads(f) \subseteq Under(stack[j])
    <3>1. CASE j = n
      BY <1>1, <2>1, <3>1
    <3>2. CASE j # n
      <4>1. j < n /\ n \in 1..n
        BY <1>1, <3>2
      <4>2. Heads(Top) \subseteq Under(stack[j])
        BY <1>1, <4>1 DEF StackOK
      <4>3. stack[j] \in Frames /\ FrameOK(stack[j]) /\ Top \in Frames /\ FrameOK(Top)
        BY <1>1, <4>1 DEF StackOK
      <4>4. \A p \in Under(stack[j]) : Uses(p) \subseteq Under(stack[j])
        BY <1>3, <4>3, UnderWithin
      <4>5. Under(Top) \subseteq Under(stack[j])
        BY <1>3, <4>2, <4>3, <4>4, UnderWithin
      <4>6. QED
        BY <2>1, <4>5
    <3>3. QED
      BY <3>1, <3>2
  <2>5. ASSUME NEW j \in 1..m, NEW k \in 1..m, j < k
        PROVE  Heads(stack[k])' \subseteq Under(stack[j])'
    <3>1. j \in 1..n
      BY <1>1, <2>5
    <3>2. CASE k \in 1..n
      BY <1>9, <2>5, <3>1, <3>2
    <3>3. CASE k = m
      BY <1>7, <2>3, <2>4, <3>1, <3>3
    <3>4. QED
      BY <1>1, <3>2, <3>3
  <2>6. \A k \in 1..m : FrameOK(stack[k])'
    BY <1>1, <1>8, <2>2
  <2>7. Len(stack') > 0
    BY <1>1, <2>1
  <2>8. QED
    BY <1>11, <2>1, <2>5, <2>6, <2>7 DEF StackOK
<1>14. QED
  BY <1>2, <1>12, <1>13 DEF Goes

LEMMA GoesMerged ==
    ASSUME MergedOK, Goes
    PROVE  MergedOK'
<1>1. tree' = tree /\ broken' = broken /\ merged' = merged /\ loaded \subseteq loaded'
  BY DEF Goes
<1>2. Below(Main)' = Below(Main)
  BY <1>1, TreeStays
<1>3. ToSet(merged)' = ToSet(merged)
  BY <1>1 DEF ToSet
<1>4. QED
  BY <1>1, <1>2, <1>3 DEF MergedOK, Key

\* What was reached stays so, and what is pushed is reached.
LEMMA GoesReached ==
    ASSUME TypeOK, StackOK, Goes
    PROVE  /\ \A p : Reached(p)' <=> Reached(p) \/ \E f : Pushed(f) /\ f.is = "file" /\ f.path = p
           /\ \A d : OnStack(d)' <=> OnStack(d) \/ \E f : Pushed(f) /\ f.is = "dir" /\ f.path[1] = d
<1> DEFINE n == Len(stack)
<1>1. n \in Nat /\ n > 0
  BY TopFrame
<1>2. /\ Len(stack') \in Nat /\ Len(stack') >= n
      /\ \A k \in 1..n : stack'[k].is = stack[k].is /\ stack'[k].path = stack[k].path
      /\ stack' = Advanced => Len(stack') = n
      /\ \A f : Pushed(f) => Len(stack') = n + 1 /\ stack'[n + 1] = f
  BY GoesFrames
<1>3. ToSet(merged)' = ToSet(merged)
  BY DEF ToSet, Goes
<1>4. CASE Len(stack') = n
  <2>1. \A f : ~Pushed(f)
    BY <1>1, <1>2, <1>4
  <2>2. \A k \in 2..n : stack'[k].is = stack[k].is /\ stack'[k].path = stack[k].path
    BY <1>2
  <2>3. QED
    BY <1>3, <1>4, <2>1, <2>2 DEF Reached, OnStack
<1>5. ASSUME NEW g, Pushed(g)
      PROVE  /\ \A p : Reached(p)' <=> Reached(p) \/ \E f : Pushed(f) /\ f.is = "file" /\ f.path = p
             /\ \A d : OnStack(d)' <=> OnStack(d) \/ \E f : Pushed(f) /\ f.is = "dir" /\ f.path[1] = d
  <2>1. Len(stack') = n + 1 /\ stack'[n + 1] = g /\ \A f : Pushed(f) <=> f = g
    BY <1>2, <1>5
  <2>2. \A k : k \in 2..(n + 1) <=> k \in 2..n \/ k = n + 1
    BY <1>1
  <2>3. \A k \in 2..n : stack'[k].is = stack[k].is /\ stack'[k].path = stack[k].path
    BY <1>2
  <2>4. ASSUME NEW p PROVE Reached(p)' <=> Reached(p) \/ (g.is = "file" /\ g.path = p)
    BY <1>3, <2>1, <2>2, <2>3 DEF Reached
  <2>5. ASSUME NEW d PROVE OnStack(d)' <=> OnStack(d) \/ (g.is = "dir" /\ g.path[1] = d)
    BY <2>1, <2>2, <2>3 DEF OnStack
  <2>6. QED
    BY <2>1, <2>4, <2>5
<1>6. QED
  BY <1>2, <1>4, <1>5 DEF Goes

\* If what is pushed was not reached before, nothing is reached twice.
LEMMA GoesOnce ==
    ASSUME TypeOK, StackOK, Goes, ReachedOnce,
           \A f : Pushed(f) /\ f.is = "file" => ~Reached(f.path)
    PROVE  ReachedOnce'
<1> DEFINE n == Len(stack)
<1>1. n \in Nat /\ n > 0
  BY TopFrame
<1>2. /\ Len(stack') \in Nat /\ Len(stack') >= n
      /\ \A k \in 1..n : stack'[k].is = stack[k].is /\ stack'[k].path = stack[k].path
      /\ stack' = Advanced => Len(stack') = n
      /\ \A f : Pushed(f) => Len(stack') = n + 1 /\ stack'[n + 1] = f
  BY GoesFrames
<1>3. merged' = merged /\ ToSet(merged)' = ToSet(merged)
  BY DEF ToSet, Goes
<1>4. \A k \in 2..n : stack'[k].is = stack[k].is /\ stack'[k].path = stack[k].path
  BY <1>2
<1>5. CASE Len(stack') = n
  BY <1>3, <1>4, <1>5 DEF ReachedOnce
<1>6. ASSUME NEW f, Pushed(f) PROVE ReachedOnce'
  <2>1. Len(stack') = n + 1 /\ stack'[n + 1] = f
    BY <1>2, <1>6
  <2>2. \A k : k \in 2..(n + 1) <=> k \in 2..n \/ k = n + 1
    BY <1>1
  <2>3. f.is = "file" =>
          f.path \notin ToSet(merged) /\ \A k \in 2..n : stack[k].is = "file" => stack[k].path # f.path
    BY <1>6 DEF Reached
  <2>4. \A j, k \in 2..(n + 1) :
          stack'[j].is = "file" /\ stack'[k].is = "file" /\ stack'[j].path = stack'[k].path => j = k
    BY <1>4, <2>1, <2>2, <2>3 DEF ReachedOnce
  <2>5. \A k \in 2..(n + 1) : stack'[k].is = "file" => stack'[k].path \notin ToSet(merged)
    BY <1>4, <2>1, <2>2, <2>3 DEF ReachedOnce
  <2>6. QED
    BY <1>3, <2>1, <2>4, <2>5 DEF ReachedOnce
<1>7. QED
  BY <1>2, <1>5, <1>6 DEF Goes

LEMMA GoesAfter ==
    ASSUME MergedAfter, Goes
    PROVE  MergedAfter'
<1>1. merged' = merged /\ \A p : Below(p)' = Below(p)
  BY TreeStays DEF Goes
<1>2. QED
  BY <1>1 DEF MergedAfter

\* Keys of imports and of files do not meet.
LEMMA KeysDiffer ==
    /\ \A x, y : Key(x) = Key(y) <=> x.kind = y.kind /\ x.name = y.name
    /\ \A p, q : FileKey(p) = FileKey(q) <=> p = q
    /\ \A x \in Imps : \A p : Key(x) # FileKey(p)
BY DEF Key, FileKey, Imps

\* The imports of a program are well formed, and so is what they stand for.
LEMMA ImportsResolved ==
    ASSUME TreesAssumption, tree \in Trees, NEW x \in Imports
    PROVE  /\ Import(x) \in Imps
           /\ Target(x).is \in {"file", "dir", "nothing", "error"}
           /\ Target(x).is = "file" => Import(x).kind \in {"name", "at"} /\ Target(x).path \in DOMAIN tree
           /\ Target(x).is = "dir" => Import(x).kind = "at" /\ Target(x).dir = Import(x).name
           /\ Import(x).kind = "name" => Target(x).is \in {"file", "error"}
<1>1. x[1] \in DOMAIN tree /\ x[2] \in DOMAIN tree[x[1]] /\ x = <<x[1], x[2]>>
  BY ImportsAre, NeededIs
<1>2. \A p \in DOMAIN tree : \A i \in DOMAIN tree[p] :
         LET imp == tree[p][i]
             r   == Target(<<p, i>>)
         IN /\ imp \in Imps /\ imp = Import(<<p, i>>)
            /\ r.is \in {"file", "dir", "nothing", "error"}
            /\ r.is = "file" => imp.kind \in {"name", "at"} /\ r.path \in DOMAIN tree
            /\ r.is = "dir" => imp.kind = "at" /\ r.dir = imp.name
            /\ imp.kind = "name" => r.is \in {"file", "error"}
  BY Resolved
<1>3. QED
  BY <1>1, <1>2

\* What is loaded under a key is what every import with the key stands for, if
\* the key is of an @-import; under a name it is a file or nothing.
LEMMA SameKey ==
    ASSUME TreesAssumption, tree \in Trees, NEW x \in Imports, NEW y \in Imports,
           Key(Import(x)) = Key(Import(y)), Target(y).is # "error"
    PROVE  /\ Target(x).is = "dir" => Target(y) = Target(x)
           /\ Target(x).is = "file" => Target(y).is = "file"
<1>1. /\ Import(x) \in Imps /\ Import(y) \in Imps
      /\ Import(x).kind = Import(y).kind /\ Import(x).name = Import(y).name
  BY ImportsResolved, KeysDiffer
<1>2. Import(x) = Import(y)
  BY <1>1 DEF Imps
<1>3. Import(x).kind = "at" => Target(y) = Target(x)
  BY <1>2, SameAnywhere DEF Target
<1>4. Import(x).kind = "name" => Target(y).is = "file"
  BY <1>1, ImportsResolved
<1>5. Target(x).is \in {"dir", "file"} => Import(x).kind \in {"name", "at"}
  BY ImportsResolved
<1>6. Target(x).is = "dir" => Import(x).kind = "at"
  BY ImportsResolved
<1>7. QED
  BY <1>3, <1>4, <1>5, <1>6

\* The file on top of the stack is needed.
LEMMA TopNeeded ==
    ASSUME TreesAssumption, TypeOK, StackOK, NEW k \in 1..Len(stack), stack[k].is = "file"
    PROVE  stack[k].path \in Needed /\ (k > 1 => stack[k].path \in Below(Main))
<1>1. Needed = {Main} \cup Below(Main) /\ Len(stack) \in Nat
  BY NeededIs, TopFrame DEF TypeOK
<1>2. CASE k = 1
  BY <1>1, <1>2 DEF StackOK
<1>3. CASE k > 1
  <2>1. 1 \in 1..Len(stack) /\ 1 < k
    BY <1>1, <1>3
  <2>2. Heads(stack[k]) \subseteq Under(stack[1])
    BY <2>1 DEF StackOK
  <2>3. QED
    BY <1>1, <2>2 DEF StackOK, Heads, Under
<1>4. QED
  BY <1>1, <1>2, <1>3

\* Nothing new: the import or file has its key already.
LEMMA SkipKeys ==
    ASSUME TypeOK, Loading, Goes, loaded' = loaded, \A f : ~Pushed(f)
    PROVE  /\ KeysOK'
           /\ NamesAreFiles' => NamesOK' /\ ReachedOnce' /\ MergedAfter'
<1>1. tree' = tree /\ merged' = merged
  BY DEF Goes
<1>2. (\A p : Reached(p)' <=> Reached(p)) /\ (\A d : OnStack(d)' <=> OnStack(d))
  BY GoesReached DEF Loading
<1>3. /\ Imports' = Imports /\ \A x : Target(x)' = Target(x) /\ Import(x)' = Import(x)
      /\ \A d : FilesIn(d)' = FilesIn(d)
      /\ NamesAreFiles' = NamesAreFiles
  BY <1>1, TreeStays
<1>4. KeysOK'
  BY <1>2, <1>3 DEF Loading, KeysOK, Key, FileKey
<1>5. NamesAreFiles => NamesOK'
  BY <1>2, <1>3 DEF Loading, NamesOK, Key
<1>6. NamesAreFiles => ReachedOnce' /\ MergedAfter'
  BY GoesOnce, GoesAfter DEF Loading
<1>7. QED
  BY <1>3, <1>4, <1>5, <1>6

\* An import that is new: what it stands for is pushed.
LEMMA ImportKeys ==
    ASSUME TreesAssumption, TypeOK, Loading, Goes, NEW y \in Imports,
           loaded' = loaded \cup {Key(Import(y))}, Key(Import(y)) \notin loaded,
           Target(y).is # "error",
           Target(y).is = "file" => \E f : Pushed(f) /\ f.is = "file" /\ f.path = Target(y).path,
           Target(y).is = "dir" => \E f : Pushed(f) /\ f.is = "dir" /\ f.path[1] = Target(y).dir,
           \A f : Pushed(f) => \/ Target(y).is = "file" /\ f.is = "file" /\ f.path = Target(y).path
                               \/ Target(y).is = "dir" /\ f.is = "dir" /\ f.path[1] = Target(y).dir
    PROVE  /\ KeysOK'
           /\ NamesAreFiles' => NamesOK' /\ ReachedOnce' /\ MergedAfter'
<1> DEFINE imp == Import(y)
           r == Target(y)
<1>1. tree' = tree /\ merged' = merged /\ tree \in Trees
  BY DEF Goes, TypeOK
<1>2. /\ \A p : Reached(p)' <=> Reached(p) \/ \E f : Pushed(f) /\ f.is = "file" /\ f.path = p
      /\ \A d : OnStack(d)' <=> OnStack(d) \/ \E f : Pushed(f) /\ f.is = "dir" /\ f.path[1] = d
  BY GoesReached DEF Loading
<1>3. /\ Imports' = Imports /\ \A x : Target(x)' = Target(x) /\ Import(x)' = Import(x)
      /\ \A d : FilesIn(d)' = FilesIn(d)
      /\ NamesAreFiles' = NamesAreFiles
  BY <1>1, TreeStays
<1>5. /\ \A p : Reached(p)' <=> Reached(p) \/ (r.is = "file" /\ p = r.path)
      /\ \A d : OnStack(d)' <=> OnStack(d) \/ (r.is = "dir" /\ d = r.dir)
  BY <1>2
<1>6. \A x \in Imports :
        /\ Import(x) \in Imps
        /\ Key(Import(x)) = Key(imp) => /\ Target(x).is = "dir" => r = Target(x)
                                        /\ Target(x).is = "file" => r.is = "file"
  BY <1>1, ImportsResolved, SameKey
<1>7. \A p : FileKey(p) \in loaded' <=> FileKey(p) \in loaded
  BY <1>6, KeysDiffer
<1>8. KeysOK'
  <2>1. ASSUME NEW x \in Imports, Key(Import(x)) \in loaded', Target(x).is = "dir"
        PROVE  OnStack(Target(x).dir)' \/ \A p \in FilesIn(Target(x).dir) : FileKey(p) \in loaded'
    <3>1. CASE Key(Import(x)) \in loaded
      <4>1. OnStack(Target(x).dir) \/ \A p \in FilesIn(Target(x).dir) : FileKey(p) \in loaded
        BY <2>1, <3>1 DEF Loading, KeysOK
      <4> DEFINE d == Target(x).dir
      <4>2. OnStack(d) => OnStack(d)'
        BY <1>1, <1>3, <1>5
      <4>3. QED
        BY <1>7, <4>1, <4>2
    <3>2. CASE Key(Import(x)) = Key(imp)
      <4>1. r.is = "dir" /\ r.dir = Target(x).dir
        BY <1>6, <2>1, <3>2
      <4>2. QED
        BY <1>3, <1>5, <4>1
    <3>3. QED
      BY <2>1, <3>1, <3>2
  <2>2. ASSUME NEW p, FileKey(p) \in loaded' PROVE Reached(p)'
    BY <1>5, <1>7, <2>2 DEF Loading, KeysOK
  <2>3. ASSUME NEW p, Reached(p)'
        PROVE  \/ \E x \in Imports : /\ Target(x).is = "file" /\ Target(x).path = p
                                     /\ Key(Import(x)) \in loaded'
               \/ /\ FileKey(p) \in loaded'
                  /\ \E x \in Imports : Target(x).is = "dir" /\ Target(x).dir = p[1]
    <3>1. CASE Reached(p)
      BY <1>7, <3>1 DEF Loading, KeysOK
    <3>2. CASE r.is = "file" /\ p = r.path
      BY <3>2
    <3>3. QED
      BY <1>5, <2>3, <3>1, <3>2
  <2>4. QED
    BY <1>3, <2>1, <2>2, <2>3 DEF KeysOK, Key, FileKey
<1>9. ASSUME NamesAreFiles PROVE NamesOK' /\ ReachedOnce' /\ MergedAfter'
  <2>1. ASSUME NEW x \in Imports, Key(Import(x)) \in loaded', Target(x).is = "file"
        PROVE  \A p : p = Target(x).path => Reached(p)'
    <3>1. CASE Key(Import(x)) \in loaded
      <4>1. Reached(Target(x).path)
        BY <1>9, <2>1, <3>1 DEF Loading, NamesOK
      <4>2. QED
        BY <1>5, <4>1
    <3>2. CASE Key(Import(x)) = Key(imp)
      <4>1. r.is = "file"
        BY <1>6, <2>1, <3>2
      <4>2. r.path = Target(x).path
        BY <1>9, <2>1, <3>2, <4>1 DEF NamesAreFiles
      <4>3. QED
        BY <1>5, <4>1, <4>2
    <3>3. QED
      BY <2>1, <3>1, <3>2
  <2>2. NamesOK'
    BY <1>3, <2>1 DEF NamesOK, Key
  <2>3. ASSUME r.is = "file" PROVE ~Reached(r.path)
    <3>1. ASSUME NEW x \in Imports, Target(x).is = "file", Target(x).path = r.path,
                 Key(Import(x)) \in loaded
          PROVE  FALSE
      <4>1. Key(Import(x)) = Key(imp)
        BY <1>9, <2>3, <3>1 DEF NamesAreFiles
      <4>2. QED
        BY <3>1, <4>1
    <3>2. ASSUME NEW x \in Imports, Target(x).is = "dir", Target(x).dir = r.path[1]
          PROVE  FALSE
      BY <1>9, <2>3, <3>2 DEF NamesAreFiles
    <3>3. QED
      BY <3>1, <3>2 DEF Loading, KeysOK
  <2>4. \A f : Pushed(f) /\ f.is = "file" => ~Reached(f.path)
    BY <2>3
  <2>5. ReachedOnce'
    BY <1>9, <2>4, GoesOnce DEF Loading
  <2>6. MergedAfter'
    BY <1>9, GoesAfter DEF Loading
  <2>7. QED
    BY <2>2, <2>5, <2>6
<1>10. QED
  BY <1>3, <1>8, <1>9

\* A file of a directory that is new is pushed.
LEMMA EntryKeys ==
    ASSUME TreesAssumption, TypeOK, Loading, Goes, NEW q,
           loaded' = loaded \cup {FileKey(q)}, FileKey(q) \notin loaded,
           \A f : Pushed(f) => f.is = "file" /\ f.path = q,
           \E f : Pushed(f),
           \E x \in Imports : Target(x).is = "dir" /\ Target(x).dir = q[1]
    PROVE  /\ KeysOK'
           /\ NamesAreFiles' => NamesOK' /\ ReachedOnce' /\ MergedAfter'
<1>1. tree' = tree /\ merged' = merged /\ tree \in Trees
  BY DEF Goes, TypeOK
<1>2. /\ \A p : Reached(p)' <=> Reached(p) \/ \E f : Pushed(f) /\ f.is = "file" /\ f.path = p
      /\ \A d : OnStack(d)' <=> OnStack(d) \/ \E f : Pushed(f) /\ f.is = "dir" /\ f.path[1] = d
  BY GoesReached DEF Loading
<1>3. /\ Imports' = Imports /\ \A x : Target(x)' = Target(x) /\ Import(x)' = Import(x)
      /\ \A d : FilesIn(d)' = FilesIn(d)
      /\ NamesAreFiles' = NamesAreFiles
  BY <1>1, TreeStays
<1>5. (\A p : Reached(p)' <=> Reached(p) \/ p = q) /\ (\A d : OnStack(d)' <=> OnStack(d))
  BY <1>2
<1>6. \A x \in Imports : Import(x) \in Imps
  BY <1>1, ImportsResolved
<1>7. /\ \A x \in Imports : Key(Import(x)) \in loaded' <=> Key(Import(x)) \in loaded
      /\ \A p : FileKey(p) \in loaded' <=> FileKey(p) \in loaded \/ p = q
  BY <1>6, KeysDiffer
<1>8. KeysOK'
  <2>1. ASSUME NEW x \in Imports, Key(Import(x)) \in loaded', Target(x).is = "dir"
        PROVE  \A d : d = Target(x).dir => OnStack(d)' \/ \A p \in FilesIn(d) : FileKey(p) \in loaded'
    <3>1. OnStack(Target(x).dir) \/ \A p \in FilesIn(Target(x).dir) : FileKey(p) \in loaded
      BY <1>7, <2>1 DEF Loading, KeysOK
    <3>2. QED
      BY <1>5, <1>7, <3>1
  <2>2. ASSUME NEW p, FileKey(p) \in loaded' PROVE Reached(p)'
    BY <1>5, <1>7, <2>2 DEF Loading, KeysOK
  <2>3. ASSUME NEW p, Reached(p)'
        PROVE  \/ \E x \in Imports : /\ Target(x).is = "file" /\ Target(x).path = p
                                     /\ Key(Import(x)) \in loaded'
               \/ /\ FileKey(p) \in loaded'
                  /\ \E x \in Imports : Target(x).is = "dir" /\ Target(x).dir = p[1]
    <3>1. CASE Reached(p)
      BY <1>7, <3>1 DEF Loading, KeysOK
    <3>2. CASE p = q
      BY <1>7, <3>2
    <3>3. QED
      BY <1>5, <2>3, <3>1, <3>2
  <2>4. QED
    BY <1>3, <2>1, <2>2, <2>3 DEF KeysOK, Key, FileKey
<1>9. ASSUME NamesAreFiles PROVE NamesOK' /\ ReachedOnce' /\ MergedAfter'
  <2>1. ASSUME NEW x \in Imports, Key(Import(x)) \in loaded', Target(x).is = "file"
        PROVE  \A p : p = Target(x).path => Reached(p)'
    BY <1>5, <1>7, <1>9, <2>1 DEF Loading, NamesOK
  <2>2. NamesOK'
    BY <1>3, <2>1 DEF NamesOK, Key
  <2>3. ~Reached(q)
    <3>1. ASSUME NEW x \in Imports, Target(x).is = "file", Target(x).path = q PROVE FALSE
      BY <1>9, <3>1 DEF NamesAreFiles
    <3>2. QED
      BY <3>1 DEF Loading, KeysOK
  <2>4. \A f : Pushed(f) /\ f.is = "file" => ~Reached(f.path)
    BY <2>3
  <2>5. ReachedOnce'
    BY <1>9, <2>4, GoesOnce DEF Loading
  <2>6. MergedAfter'
    BY <1>9, GoesAfter DEF Loading
  <2>7. QED
    BY <2>2, <2>5, <2>6
<1>10. QED
  BY <1>3, <1>8, <1>9

-----------------------------------------------------------------------------
(* The steps of a load.                                                      *)

LEMMA GoesLoading ==
    ASSUME TreesAssumption, TypeOK, Loading, Goes, outcome' = "loading",
           KeysOK', NamesAreFiles' => NamesOK' /\ ReachedOnce' /\ MergedAfter'
    PROVE  ImportsInv'
<1>1. StackOK' /\ MergedOK'
  BY GoesStack, GoesMerged DEF Loading
<1>2. stack' \in Seq(Frames) /\ tree' = tree /\ merged' = merged
  BY GoesFrames DEF Loading, Goes
<1>3. TypeOK'
  <2>1. Frames' = Frames
    BY <1>2 DEF Frames
  <2>2. QED
    BY <1>2, <2>1 DEF TypeOK
<1>4. QED
  BY <1>1, <1>3 DEF ImportsInv, Loading

\* Nothing is pushed by a step that only goes past an import.
LEMMA NothingPushed ==
    ASSUME TypeOK, StackOK, Goes, stack' = Advanced
    PROVE  \A f : ~Pushed(f)
<1>1. ASSUME NEW f, Pushed(f) PROVE FALSE
  <2>1. Len(stack') = Len(stack) /\ Len(stack') = Len(stack) + 1 /\ Len(stack) \in Nat
    BY <1>1, GoesFrames, TopFrame
  <2>2. QED
    BY <2>1
<1>2. QED
  BY <1>1

\* What can be pushed is one frame.
LEMMA OnePushed ==
    ASSUME TypeOK, StackOK, Goes, NEW g, Pushed(g)
    PROVE  \A f : Pushed(f) => f = g
BY GoesFrames

\* A file or directory is pushed by one that uses it.
LEMMA PushFile ==
    ASSUME TreesAssumption, TypeOK, StackOK, tree' = tree, broken' = broken,
           NEW q, q \in DOMAIN tree \ broken,
           q \in Under(Top), NEW f, f = FileFrame(q), stack' = Append(Advanced, f)
    PROVE  Pushed(f) /\ f.is = "file" /\ f.path = q
<1>1. f.is = "file" /\ f.path = q /\ f.at = 1
  BY DEF FileFrame
<1>2. f \in Frames
  <2>1. q \in Paths
    BY TreeTypes DEF TypeOK, Paths
  <2>2. <<>> \in Seq(DOMAIN tree) /\ 1 \in Nat \ {0}
    BY EmptySeq
  <2>3. QED
    BY <2>1, <2>2 DEF FileFrame, Frames
<1>3. Heads(f) = {q}
  BY <1>1 DEF Heads
<1>4. FrameOK(f)'
  <2>1. \A i \in DOMAIN tree[q] : ~(i < 1)
    <3>1. tree[q] \in Seq(Imps)
      BY TreeTypes DEF TypeOK
    <3>2. QED
      BY <3>1, LenProperties
  <2>2. QED
    BY <1>1, <2>1 DEF FrameOK
<1>5. QED
  BY <1>1, <1>2, <1>3, <1>4 DEF Pushed

LEMMA PushDir ==
    ASSUME TreesAssumption, EarlierAssumption, TypeOK, StackOK, tree' = tree, NEW d \in STRING,
           FilesIn(d) \subseteq Under(Top), NEW f, f = DirFrame(d), stack' = Append(Advanced, f),
           \E x \in Imports : Target(x).is = "dir" /\ Target(x).dir = d
    PROVE  Pushed(f) /\ f.is = "dir" /\ f.path[1] = d
<1>1. f.is = "dir" /\ f.path = <<d, "">> /\ f.path[1] = d /\ f.at = 1 /\ f.files = Entries(d)
  BY DEF DirFrame
<1>2. Entries(d) \in Seq(DOMAIN tree)
  BY EntriesList DEF TypeOK
<1>3. f \in Frames
  <2>1. <<d, "">> \in Paths
    BY DEF Paths
  <2>2. 1 \in Nat \ {0}
    OBVIOUS
  <2>3. QED
    BY <1>1, <1>2, <2>1, <2>2 DEF DirFrame, Frames
<1>4. Heads(f) = FilesIn(d)
  BY <1>1 DEF Heads
<1>5. FrameOK(f)'
  <2>1. \A i \in DOMAIN Entries(d) : ~(i < 1)
    BY <1>2, LenProperties
  <2>2. Entries(d)' = Entries(d) /\ Imports' = Imports /\ \A x : Target(x)' = Target(x)
    BY TreeStays
  <2>3. QED
    BY <1>1, <2>1, <2>2 DEF FrameOK
<1>6. QED
  BY <1>1, <1>3, <1>4, <1>5 DEF Pushed

\* load_import for the next import of a file.
LEMMA LoadImportInv ==
    ASSUME TreesAssumption, EarlierAssumption, TypeOK, Loading, LoadImport
    PROVE  ImportsInv'
<1> DEFINE y == <<Top.path, Top.at>>
           imp == tree[Top.path][Top.at]
           r == ResolvePath(imp, Top.path[1])
<1>1. /\ Top.is = "file" /\ Top.at <= Len(tree[Top.path]) /\ tree' = tree /\ broken' = broken /\ merged' = merged
      /\ outcome = "loading" /\ tree \in Trees /\ StackOK
  BY DEF LoadImport, TypeOK, Loading
<1>2. Top \in Frames /\ FrameOK(Top) /\ Len(stack) \in Nat /\ Len(stack) > 0 /\ Top = stack[Len(stack)]
  BY <1>1, TopFrame
<1>3. Top.path \in DOMAIN tree /\ Top.at \in DOMAIN tree[Top.path]
  <2>1. Top.path \in DOMAIN tree /\ Top.at \in Nat \ {0}
    BY <1>1, <1>2 DEF FrameOK, Frames
  <2>2. tree[Top.path] \in Seq(Imps)
    BY <1>1, <2>1, TreeTypes
  <2>3. QED
    BY <1>1, <2>1, <2>2, LenProperties
<1>4. Top.path \in Needed
  <2>1. Len(stack) \in 1..Len(stack)
    BY <1>2
  <2>2. QED
    BY <1>1, <1>2, <2>1, TopNeeded
<1>5. y \in Imports /\ imp = Import(y) /\ r = Target(y)
  BY <1>3, <1>4, ImportsAre DEF Import, Target
<1>6. IF Key(imp) \in loaded
      THEN stack' = Advanced /\ loaded' = loaded /\ outcome' = outcome
      ELSE /\ loaded' = loaded \cup {Key(imp)}
           /\ stack' = IF Fails(r) THEN Advanced
                       ELSE CASE r.is = "file" -> Append(Advanced, FileFrame(r.path))
                              [] r.is = "dir"  -> Append(Advanced, DirFrame(r.dir))
                              [] OTHER         -> Advanced
           /\ outcome' = IF Fails(r) THEN "failed" ELSE outcome
  BY DEF LoadImport
<1>17. Key(imp) \notin loaded /\ ~Fails(r) =>
         /\ r.is = "file" => stack' = Append(Advanced, FileFrame(r.path))
         /\ r.is = "dir" => stack' = Append(Advanced, DirFrame(r.dir))
         /\ r.is = "nothing" => stack' = Advanced
  <2> HIDE DEF r
  <2>1. QED
    BY <1>6
<1>7. /\ imp \in Imps /\ r.is \in {"file", "dir", "nothing", "error"}
      /\ r.is = "file" => r.path \in DOMAIN tree
      /\ r.is = "dir" => r.dir = imp.name
  BY <1>1, <1>5, ImportsResolved
<1>8. Under(Top) = Below(Top.path) /\ Uses(Top.path) \subseteq Under(Top)
  BY <1>1, <1>3, BelowLeast DEF Under
<1>9. /\ r.is = "file" => r.path \in Uses(Top.path)
      /\ r.is = "dir" => FilesIn(r.dir) \subseteq Uses(Top.path)
  BY <1>1, <1>3, <1>5, UsesAre
<1> HIDE DEF r, imp, y
<1>10. Key(imp) \in loaded' /\ loaded \subseteq loaded'
  BY <1>6
<1>11. stack' = Advanced \/ (\E f : Pushed(f)) => Goes
  BY <1>1, <1>10 DEF Goes, imp
<1>12. CASE Key(imp) \in loaded
  <2>1. Goes /\ stack' = Advanced /\ loaded' = loaded /\ outcome' = "loading"
    BY <1>1, <1>6, <1>11, <1>12
  <2>2. KeysOK' /\ (NamesAreFiles' => NamesOK' /\ ReachedOnce' /\ MergedAfter')
    BY <1>1, <2>1, NothingPushed, SkipKeys
  <2>3. QED
    BY <2>1, <2>2, GoesLoading
<1>13. CASE Key(imp) \notin loaded /\ Fails(r)
  <2>1. outcome' = "failed" /\ stack' = Advanced /\ Goes
    BY <1>6, <1>11, <1>13
  <2>2. TypeOK'
    <3>1. stack' \in Seq(Frames)
      BY <1>1, <2>1, GoesFrames
    <3>2. Frames' = Frames
      BY <1>1 DEF Frames
    <3>3. QED
      BY <1>1, <2>1, <3>1, <3>2 DEF TypeOK
  <2>3. \E x \in Imports : Unloadable(Target(x))
    BY <1>5, <1>13 DEF Unloadable
  <2>4. Imports' = Imports /\ \A x : Unloadable(Target(x))' <=> Unloadable(Target(x))
    BY <1>1, BrokenStays
  <2>5. MergedOnceInOrder'
    BY <2>1, <2>3, <2>4 DEF MergedOnceInOrder
  <2>6. QED
    BY <2>1, <2>2, <2>5 DEF ImportsInv
<1>14. CASE Key(imp) \notin loaded /\ ~Fails(r)
  <2>0. r.is # "error" /\ (r.is = "file" => r.path \notin broken)
    BY <1>14 DEF Fails
  <2>1. loaded' = loaded \cup {Key(imp)} /\ outcome' = "loading"
    BY <1>1, <1>6, <1>14
  <2>2. r.is = "file" => \E f : Pushed(f) /\ f.is = "file" /\ f.path = r.path
    <3>1. SUFFICES ASSUME r.is = "file" PROVE \E f : Pushed(f) /\ f.is = "file" /\ f.path = r.path
      OBVIOUS
    <3>2. PICK q, f : q = r.path /\ f = FileFrame(q)
      OBVIOUS
    <3>3. stack' = Append(Advanced, f)
      BY <1>14, <1>17, <3>1, <3>2
    <3>4. QED
      BY <1>1, <1>7, <1>8, <1>9, <2>0, <3>1, <3>2, <3>3, PushFile
  <2>3. r.is = "dir" => \E f : Pushed(f) /\ f.is = "dir" /\ f.path[1] = r.dir
    <3>1. SUFFICES ASSUME r.is = "dir" PROVE \E f : Pushed(f) /\ f.is = "dir" /\ f.path[1] = r.dir
      OBVIOUS
    <3>2. PICK d, f : d = r.dir /\ f = DirFrame(d)
      OBVIOUS
    <3>3. stack' = Append(Advanced, f)
      BY <1>14, <1>17, <3>1, <3>2
    <3>4. d \in STRING
      BY <1>7, <3>1, <3>2 DEF Imps
    <3>5. FilesIn(d) \subseteq Under(Top) /\ \E x \in Imports : Target(x).is = "dir" /\ Target(x).dir = d
      BY <1>5, <1>8, <1>9, <3>1, <3>2
    <3>6. QED
      BY <1>1, <3>2, <3>3, <3>4, <3>5, PushDir
  <2>4. r.is = "nothing" => stack' = Advanced
    BY <1>14, <1>17
  <2>5. Goes
    BY <1>7, <1>11, <1>14, <2>0, <2>2, <2>3, <2>4
  <2>6. \A f : Pushed(f) => \/ r.is = "file" /\ f.is = "file" /\ f.path = r.path
                            \/ r.is = "dir" /\ f.is = "dir" /\ f.path[1] = r.dir
    BY <1>1, <1>7, <1>14, <2>0, <2>2, <2>3, <2>4, <2>5, NothingPushed, OnePushed
  <2>7. KeysOK' /\ (NamesAreFiles' => NamesOK' /\ ReachedOnce' /\ MergedAfter')
    <3> PICK z : z = y
      OBVIOUS
    <3>1. QED
      BY <1>5, <1>14, <2>0, <2>1, <2>2, <2>3, <2>5, <2>6, ImportKeys
  <2>8. QED
    BY <2>1, <2>5, <2>7, GoesLoading
<1>15. QED
  BY <1>12, <1>13, <1>14

\* The next file of a directory.
LEMMA LoadEntryInv ==
    ASSUME TreesAssumption, EarlierAssumption, TypeOK, Loading, LoadEntry
    PROVE  ImportsInv'
<1> PICK q, d : q = Top.files[Top.at] /\ d = Top.path[1]
  OBVIOUS
<1>1. /\ Top.is = "dir" /\ Top.at <= Len(Top.files) /\ tree' = tree /\ broken' = broken /\ merged' = merged
      /\ outcome = "loading" /\ tree \in Trees /\ StackOK
  BY DEF LoadEntry, TypeOK, Loading
<1>2. Top \in Frames /\ FrameOK(Top)
  BY <1>1, TopFrame
<1>3. Top.files = Entries(d) /\ \E x \in Imports : Target(x).is = "dir" /\ Target(x).dir = d
  BY <1>1, <1>2 DEF FrameOK
<1>4. q \in FilesIn(d)
  <2>1. Top.files \in Seq(DOMAIN tree) /\ Top.at \in Nat \ {0}
    BY <1>2 DEF Frames
  <2>2. Top.at \in DOMAIN Top.files
    BY <1>1, <2>1, LenProperties
  <2>3. QED
    BY <1>1, <1>3, <2>2, EntriesList
<1>5. q \in DOMAIN tree /\ q[1] = d
  BY <1>4 DEF FilesIn
<1>6. q \in Under(Top)
  BY <1>1, <1>2, <1>4, UnderWithin DEF Heads
<1>7. IF FileKey(q) \in loaded THEN stack' = Advanced /\ loaded' = loaded /\ outcome' = outcome
      ELSE /\ loaded' = loaded \cup {FileKey(q)}
           /\ IF q \in broken THEN stack' = Advanced /\ outcome' = "failed"
              ELSE stack' = Append(Advanced, FileFrame(q)) /\ outcome' = outcome
  BY DEF LoadEntry
<1>8. FileKey(q) \in loaded' /\ loaded \subseteq loaded'
  BY <1>7
<1>9. stack' = Advanced \/ (\E f : Pushed(f)) => Goes
  BY <1>1, <1>8 DEF Goes
<1>10. CASE FileKey(q) \in loaded
  <2>1. Goes /\ stack' = Advanced /\ loaded' = loaded /\ outcome' = "loading"
    BY <1>1, <1>7, <1>9, <1>10
  <2>2. KeysOK' /\ (NamesAreFiles' => NamesOK' /\ ReachedOnce' /\ MergedAfter')
    BY <1>1, <2>1, NothingPushed, SkipKeys
  <2>3. QED
    BY <2>1, <2>2, GoesLoading
<1>13. CASE FileKey(q) \notin loaded /\ q \in broken
  <2>1. outcome' = "failed" /\ stack' = Advanced /\ Goes
    BY <1>7, <1>9, <1>13
  <2>2. TypeOK'
    <3>1. stack' \in Seq(Frames)
      BY <1>1, <2>1, GoesFrames
    <3>2. Frames' = Frames
      BY <1>1 DEF Frames
    <3>3. QED
      BY <1>1, <2>1, <3>1, <3>2 DEF TypeOK
  <2>3. \E x \in Imports : Unloadable(Target(x))
    <3>1. PICK x \in Imports : Target(x).is = "dir" /\ Target(x).dir = d
      BY <1>3
    <3>2. q \in FilesIn(d) \cap broken
      BY <1>4, <1>13
    <3>3. QED
      BY <3>1, <3>2 DEF Unloadable
  <2>4. Imports' = Imports /\ \A x : Unloadable(Target(x))' <=> Unloadable(Target(x))
    BY <1>1, BrokenStays
  <2>5. MergedOnceInOrder'
    BY <1>1, <2>1, <2>3, <2>4 DEF MergedOnceInOrder
  <2>6. QED
    BY <2>1, <2>2, <2>5 DEF ImportsInv
<1>11. CASE FileKey(q) \notin loaded /\ q \notin broken
  <2>1. loaded' = loaded \cup {FileKey(q)} /\ stack' = Append(Advanced, FileFrame(q)) /\ outcome' = "loading"
    BY <1>1, <1>7, <1>11
  <2> PICK f : f = FileFrame(q)
    OBVIOUS
  <2>2. Pushed(f) /\ f.is = "file" /\ f.path = q
    BY <1>1, <1>5, <1>6, <1>11, <2>1, PushFile
  <2>3. Goes
    BY <1>9, <2>2
  <2>4. \A g : Pushed(g) => g.is = "file" /\ g.path = q
    BY <1>1, <2>2, <2>3, OnePushed
  <2>5. \E x \in Imports : Target(x).is = "dir" /\ Target(x).dir = q[1]
    BY <1>3, <1>5
  <2>6. KeysOK' /\ (NamesAreFiles' => NamesOK' /\ ReachedOnce' /\ MergedAfter')
    BY <1>11, <2>1, <2>2, <2>3, <2>4, <2>5, EntryKeys
  <2>7. QED
    BY <2>1, <2>3, <2>6, GoesLoading
<1>12. QED
  BY <1>10, <1>11, <1>13

\* What a file with all its keys uses is merged, or being loaded with it.
LEMMA AllUsed ==
    ASSUME TreesAssumption, TypeOK, Loading, NamesAreFiles,
           NEW x \in Needed, \A i \in DOMAIN tree[x] : Key(tree[x][i]) \in loaded,
           NEW y \in Uses(x)
    PROVE  \/ y \in ToSet(merged)
           \/ \E k \in 2..Len(stack) : Heads(stack[k]) \subseteq Uses(x)
<1>1. tree \in Trees /\ x \in DOMAIN tree
  BY NeededIs DEF TypeOK
<1>2. PICK i \in DOMAIN tree[x] : \E t :
         /\ t = <<x, i>>
         /\ \/ Target(t).is = "file" /\ y = Target(t).path
            \/ Target(t).is = "dir" /\ y \in FilesIn(Target(t).dir)
  BY <1>1, UsesAre
<1> PICK t : t = <<x, i>>
  OBVIOUS
<1>3. t \in Imports /\ Import(t) = tree[x][i] /\ Key(Import(t)) \in loaded
  BY <1>2, ImportsAre DEF Import
<1>4. \A q \in FilesIn(Target(t).dir) : Target(t).is = "dir" => q \in Uses(x)
  BY <1>1, <1>2, UsesAre
<1>5. Reached(y) => \/ y \in ToSet(merged)
                    \/ \E k \in 2..Len(stack) : Heads(stack[k]) \subseteq Uses(x)
  BY DEF Reached, Heads
<1>6. CASE Target(t).is = "file" /\ y = Target(t).path
  BY <1>3, <1>5, <1>6 DEF Loading, NamesOK
<1>7. CASE Target(t).is = "dir" /\ y \in FilesIn(Target(t).dir)
  <2>1. CASE OnStack(Target(t).dir)
    <3>1. PICK k \in 2..Len(stack) : stack[k].is = "dir" /\ stack[k].path[1] = Target(t).dir
      BY <2>1 DEF OnStack
    <3>2. Heads(stack[k]) = FilesIn(Target(t).dir)
      BY <3>1 DEF Heads
    <3>3. QED
      BY <1>4, <1>7, <3>2
  <2>2. CASE \A p \in FilesIn(Target(t).dir) : FileKey(p) \in loaded
    BY <1>5, <1>7, <2>2 DEF Loading, KeysOK
  <2>3. QED
    BY <1>3, <1>7, <2>1, <2>2 DEF Loading, KeysOK
<1>8. QED
  BY <1>2, <1>6, <1>7

\* When the file on top has all its keys, what is below it is merged: what is
\* still being loaded needs the file, and would be on a cycle with it.
LEMMA BelowMerged ==
    ASSUME TreesAssumption, TypeOK, Loading, NamesAreFiles, Top.is = "file", NEW p, p = Top.path,
           Len(stack) = 1 \/ p \notin Below(p),
           \A i \in DOMAIN tree[p] : Key(tree[p][i]) \in loaded
    PROVE  Below(p) \subseteq ToSet(merged)
<1> PICK n \in Nat : n = Len(stack)
  BY TopFrame DEF Loading
<1>1. /\ n > 0 /\ Top = stack[n] /\ \A k \in 1..n : stack[k] \in Frames /\ FrameOK(stack[k])
      /\ tree \in Trees /\ MergedOK
  BY TopFrame DEF Loading, StackOK, TypeOK
<1>2. p \in Needed /\ p \in DOMAIN tree
  <2>1. n \in 1..Len(stack)
    BY <1>1
  <2>2. QED
    BY <1>1, <2>1, TopNeeded, NeededIs DEF Loading
<1> DEFINE S == ToSet(merged)
<1>3. Below(p) \in SUBSET DOMAIN tree /\ Uses(p) \subseteq Below(p) /\ \A q \in Below(p) : Uses(q) \subseteq Below(p)
  BY <1>1, <1>2, BelowLeast
<1>4. ASSUME NEW x \in {p} \cup (S \cap Below(p)) PROVE Uses(x) \subseteq S
  <2>1. x \in Needed /\ \A i \in DOMAIN tree[x] : Key(tree[x][i]) \in loaded
    BY <1>1, <1>2, NeededIs DEF MergedOK
  <2>2. Uses(x) \subseteq Below(p)
    BY <1>3
  <2>3. ASSUME NEW k \in 2..n, Heads(stack[k]) \subseteq Uses(x) PROVE FALSE
    <3>1. k \in 1..n /\ n \in 1..n /\ n # 1
      OBVIOUS
    <3>2. p \notin Below(p)
      BY <3>1
    <3>3. CASE k = n
      <4>1. Heads(stack[k]) = {p}
        BY <1>1, <3>3 DEF Heads
      <4>2. QED
        BY <2>2, <2>3, <3>2, <4>1
    <3>4. CASE k # n
      <4>1. Heads(stack[n]) \subseteq Under(stack[k])
        BY <3>1, <3>4 DEF Loading, StackOK
      <4>2. p \in Under(stack[k])
        BY <1>1, <4>1 DEF Heads
      <4>3. stack[k] \in Frames /\ FrameOK(stack[k])
        BY <1>1, <3>1
      <4>4. Heads(stack[k]) \subseteq Below(p)
        BY <2>2, <2>3
      <4>5. \A T : Heads(stack[k]) \subseteq T /\ (\A q \in T : Uses(q) \subseteq T) => Under(stack[k]) \subseteq T
        BY <1>1, <4>3, UnderWithin
      <4>6. Under(stack[k]) \subseteq Below(p)
        BY <1>3, <4>4, <4>5
      <4>7. QED
        BY <3>2, <4>2, <4>6
    <3>5. QED
      BY <3>3, <3>4
  <2>4. QED
    BY <2>1, <2>3, AllUsed
<1> HIDE DEF S
<1>5. Uses(p) \subseteq S /\ \A q \in S \cap Below(p) : Uses(q) \subseteq S
  BY <1>4
<1>6. \A T : Uses(p) \subseteq T /\ (\A q \in T \cap Below(p) : Uses(q) \subseteq T) => Below(p) \subseteq T
  BY <1>1, <1>2, BelowLeast
<1>7. QED
  BY <1>5, <1>6 DEF S

\* A frame is left.
LEMMA Popped ==
    ASSUME TypeOK, StackOK, Merge
    PROVE  /\ Len(stack) > 1 => outcome' = outcome /\ Len(stack') = Len(stack) - 1
           /\ stack' \in Seq(Frames) /\ \A k \in 1..(Len(stack) - 1) : stack'[k] = stack[k]
           /\ Len(stack) = 1 => outcome' = "done"
           /\ tree' = tree /\ broken' = broken /\ loaded' = loaded
<1>1. Len(stack) \in Nat /\ Len(stack) > 0 /\ \A k \in 1..Len(stack) : stack[k] \in Frames
  BY TopFrame
<1> DEFINE n == Len(stack)
           m == n - 1
<1>2. n \in Nat /\ m \in Nat
  BY <1>1
<1>3. stack' = SubSeq(stack, 1, m) /\ outcome' = IF n = 1 THEN "done" ELSE outcome
  BY DEF Merge
<1>4. \A k \in 1..m : stack[k] \in Frames
  BY <1>1
<1> HIDE DEF n, m
<1>5. /\ SubSeq(stack, 1, m) \in Seq(Frames)
      /\ Len(SubSeq(stack, 1, m)) = IF 1 <= m THEN m - 1 + 1 ELSE 0
      /\ \A k \in 1..(m - 1 + 1) : SubSeq(stack, 1, m)[k] = stack[1 + k - 1]
  BY <1>2, <1>4, SubSeqProperties
<1>6. /\ Len(SubSeq(stack, 1, m)) = m
      /\ \A k \in 1..m : SubSeq(stack, 1, m)[k] = stack[k]
  BY <1>2, <1>5
<1>7. tree' = tree /\ broken' = broken /\ loaded' = loaded
  BY DEF Merge
<1>8. QED
  BY <1>1, <1>3, <1>5, <1>6, <1>7 DEF n, m

\* What is merged when a file is done.
LEMMA AppendIs ==
    ASSUME tree \in Trees, merged \in Seq(DOMAIN tree), NEW p \in DOMAIN tree,
           merged' = Append(merged, p)
    PROVE  /\ Len(merged) \in Nat /\ Len(merged') = Len(merged) + 1 /\ merged' \in Seq(DOMAIN tree)
           /\ DOMAIN merged = 1..Len(merged) /\ DOMAIN merged' = 1..(Len(merged) + 1)
           /\ \A i \in 1..Len(merged) : merged'[i] = merged[i]
           /\ merged'[Len(merged) + 1] = p
           /\ ToSet(merged)' = ToSet(merged) \cup {p}
           /\ \A q : q \in ToSet(merged) <=> \E i \in 1..Len(merged) : merged[i] = q
<1>1. Len(merged) \in Nat /\ DOMAIN merged = 1..Len(merged)
  BY LenProperties
<1> DEFINE m == Append(merged, p)
<1>2. /\ m \in Seq(DOMAIN tree) /\ Len(m) = Len(merged) + 1
      /\ \A i \in 1..Len(merged) : m[i] = merged[i]
      /\ m[Len(merged) + 1] = p
  BY AppendProperties
<1> HIDE DEF m
<1>3. DOMAIN m = 1..(Len(merged) + 1)
  BY <1>2, LenProperties
<1>4. merged' = m
  BY DEF m
<1>5. \A i : i \in 1..(Len(merged) + 1) <=> i \in 1..Len(merged) \/ i = Len(merged) + 1
  BY <1>1
<1>6. ToSet(merged)' = ToSet(merged) \cup {p}
  BY <1>1, <1>2, <1>3, <1>4, <1>5 DEF ToSet
<1>7. QED
  BY <1>1, <1>2, <1>3, <1>4, <1>6 DEF ToSet

\* A file that something imported is done.
LEMMA MergeFileInv ==
    ASSUME TreesAssumption, TypeOK, Loading, outcome = "loading", Merge, Top.is = "file", Len(stack) > 1
    PROVE  ImportsInv'
<1> PICK n, p : n \in Nat /\ n = Len(stack) /\ p = Top.path
  BY TopFrame DEF Loading
<1>1. /\ n > 1 /\ Top = stack[n] /\ (\A k \in 1..n : stack[k] \in Frames) /\ FrameOK(Top)
      /\ tree \in Trees /\ StackOK /\ MergedOK /\ n \in 1..n /\ n \in 2..n
  BY TopFrame DEF Loading, TypeOK
<1>2. /\ tree' = tree /\ broken' = broken /\ loaded' = loaded /\ outcome' = "loading" /\ merged' = Append(merged, p)
      /\ Top.at > Len(tree[p])
  BY <1>1, Popped DEF Merge
<1> PICK m \in Nat : m = n - 1
  BY <1>1
<1>3. /\ stack' \in Seq(Frames) /\ Len(stack') = m /\ m > 0
      /\ \A k \in 1..m : k \in 1..n /\ k # n /\ stack'[k] = stack[k]
      /\ \A k : k \in 1..n <=> k \in 1..m \/ k = n
      /\ \A k : k \in 2..n <=> k \in 2..m \/ k = n
      /\ \A k : k \in 2..m => k \in 1..m
  BY <1>1, Popped
<1>4. p \in DOMAIN tree /\ p \in Below(Main) /\ p \in Needed /\ p \notin broken
  BY <1>1, TopNeeded, NeededIs DEF FrameOK
<1>5. \A i \in DOMAIN tree[p] : Key(tree[p][i]) \in loaded
  <2>1. tree[p] \in Seq(Imps) /\ Top.at \in Nat
    BY <1>1, <1>4, TreeTypes DEF Frames
  <2>2. \A i \in DOMAIN tree[p] : i < Top.at
    BY <1>2, <2>1, LenProperties
  <2>3. QED
    BY <1>1, <2>2 DEF FrameOK
<1> PICK w \in Nat : w = Len(merged)
  BY LenProperties DEF TypeOK
<1>6. /\ Len(merged') = w + 1 /\ merged' \in Seq(DOMAIN tree)
      /\ \A i \in 1..w : merged'[i] = merged[i]
      /\ merged'[w + 1] = p
      /\ ToSet(merged)' = ToSet(merged) \cup {p}
      /\ \A q : q \in ToSet(merged) <=> \E i \in 1..w : merged[i] = q
  BY <1>1, <1>2, <1>4, AppendIs DEF TypeOK
<1>7. /\ Imports' = Imports /\ (\A x : Target(x)' = Target(x) /\ Import(x)' = Import(x))
      /\ (\A d : FilesIn(d)' = FilesIn(d) /\ Entries(d)' = Entries(d))
      /\ NamesAreFiles' = NamesAreFiles /\ (\A q : Below(q)' = Below(q)) /\ \A S : Closure(S)' = Closure(S)
  BY <1>2, TreeStays
<1>8. TypeOK'
  <2>1. Frames' = Frames
    BY <1>2 DEF Frames
  <2>2. QED
    BY <1>1, <1>2, <1>3, <1>6, <2>1 DEF TypeOK
<1>9. StackOK'
  <2>1. \A k \in 1..m : FrameOK(stack[k])'
    <3>1. ASSUME NEW k \in 1..m PROVE FrameOK(stack[k])'
      <4>1. FrameOK(stack[k]) /\ stack'[k] = stack[k]
        BY <1>1, <1>3 DEF StackOK
      <4>2. QED
        BY <1>2, <1>7, <4>1 DEF FrameOK, Key, FileKey
    <3>2. QED
      BY <3>1
  <2>2. \A k \in 1..m : Heads(stack[k])' = Heads(stack[k]) /\ Under(stack[k])' = Under(stack[k])
    BY <1>3, <1>7 DEF Heads, Under
  <2>3. ASSUME NEW j \in 1..m, NEW k \in 1..m, j < k
        PROVE  Heads(stack[k])' \subseteq Under(stack[j])'
    <3>1. j \in 1..n /\ k \in 1..n
      BY <1>3
    <3>2. Heads(stack[k]) \subseteq Under(stack[j])
      BY <1>1, <2>3, <3>1 DEF StackOK
    <3>3. QED
      BY <2>2, <3>2
  <2>4. stack'[1].is = "file" /\ stack'[1].path = Main
    BY <1>1, <1>3 DEF StackOK
  <2>5. QED
    BY <1>3, <2>1, <2>3, <2>4 DEF StackOK
<1>10. MergedOK'
  <2>1. ASSUME NEW q \in ToSet(merged) \cup {p}
        PROVE  q \in Below(Main) \ broken /\ \A i \in DOMAIN tree[q] : Key(tree[q][i]) \in loaded
    BY <1>1, <1>4, <1>5 DEF MergedOK
  <2>2. QED
    BY <1>2, <1>6, <1>7, <2>1 DEF MergedOK, Key
<1>11. (\A q : Reached(q)' <=> Reached(q)) /\ (\A d : OnStack(d)' <=> OnStack(d))
  <2>1. \A q : Reached(q)' <=> Reached(q)
    BY <1>1, <1>3, <1>6 DEF Reached
  <2>2. \A d : OnStack(d)' <=> OnStack(d)
    BY <1>1, <1>3 DEF OnStack
  <2>3. QED
    BY <2>1, <2>2
<1>12. KeysOK'
  BY <1>2, <1>7, <1>11 DEF Loading, KeysOK, Key, FileKey
<1>13. ASSUME NamesAreFiles PROVE NamesOK' /\ ReachedOnce' /\ MergedAfter'
  <2>1. NamesOK'
    BY <1>2, <1>7, <1>11, <1>13 DEF Loading, NamesOK, Key
  <2>2. ReachedOnce'
    <3>1. /\ \A j, k \in 2..n :
               stack[j].is = "file" /\ stack[k].is = "file" /\ stack[j].path = stack[k].path => j = k
          /\ \A k \in 2..n : stack[k].is = "file" => stack[k].path \notin ToSet(merged)
          /\ \A i, j \in 1..w : merged[i] = merged[j] => i = j
      BY <1>13 DEF Loading, ReachedOnce
    <3>2. \A k \in 2..m : k \in 2..n /\ k # n /\ stack'[k] = stack[k]
      BY <1>3
    <3>3. p \notin ToSet(merged) /\ \A k \in 2..m : stack[k].is = "file" => stack[k].path # p
      BY <1>1, <3>1, <3>2
    <3>4. \A i \in 1..(w + 1) : i \in 1..w \/ i = w + 1
      OBVIOUS
    <3>5. \A i, j \in 1..(w + 1) : merged'[i] = merged'[j] => i = j
      BY <1>6, <3>1, <3>3, <3>4
    <3>6. ASSUME NEW j \in 2..m, NEW k \in 2..m,
                 stack'[j].is = "file", stack'[k].is = "file", stack'[j].path = stack'[k].path
          PROVE  j = k
      <4>1. j \in 2..n /\ k \in 2..n /\ stack'[j] = stack[j] /\ stack'[k] = stack[k]
        BY <3>2
      <4>2. QED
        BY <3>1, <3>6, <4>1
    <3>7. \A k \in 2..m : stack'[k].is = "file" => stack'[k].path \notin ToSet(merged)'
      BY <1>6, <3>1, <3>2, <3>3
    <3>8. QED
      BY <1>3, <1>6, <3>5, <3>6, <3>7 DEF ReachedOnce
  <2>3. MergedAfter'
    <3>1. ASSUME NEW i \in 1..(w + 1), merged'[i] \notin Below(merged'[i]), NEW q \in Below(merged'[i])
          PROVE  \E j \in 1..(w + 1) : j < i /\ merged'[j] = q
      <4>1. CASE i \in 1..w
        <5>1. merged'[i] = merged[i]
          BY <1>6, <4>1
        <5>2. PICK j \in 1..w : j < i /\ merged[j] = q
          BY <1>13, <3>1, <4>1, <5>1 DEF Loading, MergedAfter
        <5>3. QED
          BY <1>6, <5>2
      <4>2. CASE i = w + 1
        <5>1. p \notin Below(p) /\ q \in Below(p)
          BY <1>6, <3>1, <4>2
        <5>2. q \in ToSet(merged)
          BY <1>1, <1>5, <1>13, <5>1, BelowMerged
        <5>3. QED
          BY <1>6, <4>2, <5>2
      <4>3. QED
        BY <4>1, <4>2
    <3>2. \A i \in 1..(w + 1) : Below(merged[i])' = Below(merged'[i])
      BY <1>7
    <3>3. QED
      BY <1>6, <3>1, <3>2 DEF MergedAfter
  <2>4. QED
    BY <2>1, <2>2, <2>3
<1>14. QED
  BY <1>2, <1>7, <1>8, <1>9, <1>10, <1>12, <1>13 DEF ImportsInv, Loading

\* A directory is done.
LEMMA MergeDirInv ==
    ASSUME TreesAssumption, EarlierAssumption, TypeOK, Loading, outcome = "loading", Merge, Top.is # "file"
    PROVE  ImportsInv'
<1> PICK n, c : n \in Nat /\ n = Len(stack) /\ c = Top.path[1]
  BY TopFrame DEF Loading
<1>1. /\ Top = stack[n] /\ (\A k \in 1..n : stack[k] \in Frames) /\ FrameOK(Top) /\ Top.is = "dir"
      /\ tree \in Trees /\ StackOK /\ n > 0
  BY TopFrame DEF Loading, TypeOK, Frames
<1>2. n > 1 /\ n \in 1..n /\ n \in 2..n
  <2>1. stack[1].is # "dir"
    BY <1>1 DEF StackOK
  <2>2. n # 1
    BY <1>1, <2>1
  <2>3. QED
    BY <1>1, <2>2
<1>3. /\ tree' = tree /\ broken' = broken /\ loaded' = loaded /\ outcome' = "loading" /\ merged' = merged
      /\ Top.at > Len(Top.files)
  BY <1>1, <1>2, Popped DEF Merge
<1> PICK m \in Nat : m = n - 1
  BY <1>2
<1>4. /\ stack' \in Seq(Frames) /\ Len(stack') = m /\ m > 0
      /\ \A k \in 1..m : k \in 1..n /\ k # n /\ stack'[k] = stack[k]
      /\ \A k : k \in 2..n <=> k \in 2..m \/ k = n
      /\ \A k \in 2..m : k \in 1..m
  BY <1>1, <1>2, Popped
<1>5. /\ Imports' = Imports /\ (\A x : Target(x)' = Target(x) /\ Import(x)' = Import(x))
      /\ (\A d : FilesIn(d)' = FilesIn(d) /\ Entries(d)' = Entries(d))
      /\ NamesAreFiles' = NamesAreFiles /\ (\A q : Below(q)' = Below(q)) /\ \A S : Closure(S)' = Closure(S)
  BY <1>3, TreeStays
<1>6. ToSet(merged)' = ToSet(merged)
  BY <1>3 DEF ToSet
<1>7. TypeOK'
  <2>1. Frames' = Frames
    BY <1>3 DEF Frames
  <2>2. QED
    BY <1>1, <1>3, <1>4, <2>1 DEF TypeOK
<1>8. StackOK'
  <2>1. ASSUME NEW k \in 1..m PROVE FrameOK(stack[k])'
    <3>1. FrameOK(stack[k]) /\ stack'[k] = stack[k]
      BY <1>1, <1>4 DEF StackOK
    <3>2. QED
      BY <1>3, <1>5, <3>1 DEF FrameOK, Key, FileKey
  <2>2. \A k \in 1..m : Heads(stack[k])' = Heads(stack[k]) /\ Under(stack[k])' = Under(stack[k])
    BY <1>4, <1>5 DEF Heads, Under
  <2>3. ASSUME NEW j \in 1..m, NEW k \in 1..m, j < k
        PROVE  Heads(stack[k])' \subseteq Under(stack[j])'
    <3>1. j \in 1..n /\ k \in 1..n
      BY <1>4
    <3>2. Heads(stack[k]) \subseteq Under(stack[j])
      BY <1>1, <2>3, <3>1 DEF StackOK
    <3>3. QED
      BY <2>2, <3>2
  <2>4. stack'[1].is = "file" /\ stack'[1].path = Main
    BY <1>1, <1>4 DEF StackOK
  <2>5. QED
    BY <1>4, <2>1, <2>3, <2>4 DEF StackOK
<1>9. MergedOK'
  BY <1>3, <1>5, <1>6 DEF Loading, MergedOK, Key
<1>10. /\ \A q : Reached(q)' <=> Reached(q)
       /\ \A d : OnStack(d) => OnStack(d)' \/ d = c
       /\ \A d : OnStack(d)' => OnStack(d)
  <2>1. ASSUME NEW q PROVE Reached(q)' <=> Reached(q)
    BY <1>1, <1>4, <1>6 DEF Reached
  <2>2. ASSUME NEW d PROVE (OnStack(d) => OnStack(d)' \/ d = c) /\ (OnStack(d)' => OnStack(d))
    BY <1>1, <1>4 DEF OnStack
  <2>3. QED
    BY <2>1, <2>2
<1>11. \A q \in FilesIn(c) : FileKey(q) \in loaded
  <2>1. Top.files = Entries(c) /\ \A i \in DOMAIN Top.files : i < Top.at => FileKey(Top.files[i]) \in loaded
    BY <1>1 DEF FrameOK
  <2>2. Top.files \in Seq(DOMAIN tree) /\ Top.at \in Nat
    BY <1>1, <1>2 DEF Frames
  <2>3. \A i \in DOMAIN Top.files : i < Top.at
    BY <1>3, <2>2, LenProperties
  <2>4. \A q \in FilesIn(c) : \E i \in DOMAIN Entries(c) : Entries(c)[i] = q
    BY <1>1, EntriesList
  <2>5. QED
    BY <2>1, <2>3, <2>4
<1>12. KeysOK'
  <2>1. ASSUME NEW x \in Imports, Key(Import(x)) \in loaded, Target(x).is = "dir"
        PROVE  \A d : d = Target(x).dir => OnStack(d)' \/ \A q \in FilesIn(d) : FileKey(q) \in loaded
    <3>1. OnStack(Target(x).dir) \/ \A q \in FilesIn(Target(x).dir) : FileKey(q) \in loaded
      BY <2>1 DEF Loading, KeysOK
    <3>2. QED
      BY <1>10, <1>11, <3>1
  <2>2. \A q : FileKey(q) \in loaded => Reached(q)
    BY DEF Loading, KeysOK
  <2>3. \A q : Reached(q) =>
           \/ \E x \in Imports : /\ Target(x).is = "file" /\ Target(x).path = q
                                 /\ Key(Import(x)) \in loaded
           \/ /\ FileKey(q) \in loaded
              /\ \E x \in Imports : Target(x).is = "dir" /\ Target(x).dir = q[1]
    BY DEF Loading, KeysOK
  <2>4. QED
    BY <1>3, <1>5, <1>10, <2>1, <2>2, <2>3 DEF KeysOK, Key, FileKey
<1>13. ASSUME NamesAreFiles PROVE NamesOK' /\ ReachedOnce' /\ MergedAfter'
  <2>1. NamesOK'
    BY <1>3, <1>5, <1>10, <1>13 DEF Loading, NamesOK, Key
  <2>2. ReachedOnce'
    <3>1. /\ \A j, k \in 2..n :
               stack[j].is = "file" /\ stack[k].is = "file" /\ stack[j].path = stack[k].path => j = k
          /\ \A k \in 2..n : stack[k].is = "file" => stack[k].path \notin ToSet(merged)
          /\ \A i, j \in 1..Len(merged) : merged[i] = merged[j] => i = j
      BY <1>13 DEF Loading, ReachedOnce
    <3>2. \A k \in 2..m : k \in 2..n /\ stack'[k] = stack[k]
      BY <1>4
    <3>3. ASSUME NEW j \in 2..m, NEW k \in 2..m,
                 stack'[j].is = "file", stack'[k].is = "file", stack'[j].path = stack'[k].path
          PROVE  j = k
      <4>1. j \in 2..n /\ k \in 2..n /\ stack'[j] = stack[j] /\ stack'[k] = stack[k]
        BY <3>2
      <4>2. QED
        BY <3>1, <3>3, <4>1
    <3>4. \A k \in 2..m : stack'[k].is = "file" => stack'[k].path \notin ToSet(merged)'
      BY <1>6, <3>1, <3>2
    <3>5. QED
      BY <1>3, <1>4, <3>1, <3>3, <3>4 DEF ReachedOnce
  <2>3. MergedAfter'
    BY <1>3, <1>5, <1>13 DEF Loading, MergedAfter
  <2>4. QED
    BY <2>1, <2>2, <2>3
<1>14. QED
  BY <1>3, <1>5, <1>7, <1>8, <1>9, <1>12, <1>13 DEF ImportsInv, Loading

\* How often a file is merged.
Count(s, q) == Cardinality({i \in DOMAIN s : s[i] = q})

LEMMA CountOnce ==
    ASSUME NEW w \in Nat, NEW s, DOMAIN s = 1..w, NEW q, NEW j \in 1..w,
           \A i \in 1..w : s[i] = q <=> i = j
    PROVE  Count(s, q) = 1
<1>1. {i \in DOMAIN s : s[i] = q} = {j}
  OBVIOUS
<1>2. QED
  BY <1>1, FS_Singleton DEF Count

\* The program itself is done, and with it the load.
LEMMA MergeMainInv ==
    ASSUME TreesAssumption, TypeOK, Loading, outcome = "loading", Merge, Len(stack) = 1
    PROVE  ImportsInv'
<1>1. /\ Top = stack[1] /\ Top \in Frames /\ FrameOK(Top) /\ Top.is = "file" /\ Top.path = Main
      /\ tree \in Trees /\ StackOK /\ MergedOK /\ Main \in DOMAIN tree
  BY TopFrame, TreeTypes DEF Loading, TypeOK, StackOK
<1>2. /\ tree' = tree /\ broken' = broken /\ outcome' = "done" /\ merged' = Append(merged, Main) /\ stack' \in Seq(Frames)
      /\ Top.at > Len(tree[Main])
  BY <1>1, Popped DEF Merge
<1>3. \A i \in DOMAIN tree[Main] : Key(tree[Main][i]) \in loaded
  <2>1. tree[Main] \in Seq(Imps) /\ Top.at \in Nat
    BY <1>1, TreeTypes DEF Frames
  <2>2. \A i \in DOMAIN tree[Main] : i < Top.at
    BY <1>2, <2>1, LenProperties
  <2>3. QED
    BY <1>1, <2>2 DEF FrameOK
<1> PICK w \in Nat, W \in Nat : w = Len(merged) /\ W = w + 1
  BY LenProperties DEF TypeOK
<1>4. /\ DOMAIN merged' = 1..W /\ Len(merged') = W /\ merged' \in Seq(DOMAIN tree)
      /\ DOMAIN merged = 1..w
      /\ \A i \in 1..w : merged'[i] = merged[i]
      /\ merged'[W] = Main
      /\ ToSet(merged)' = ToSet(merged) \cup {Main}
      /\ \A q : q \in ToSet(merged) <=> \E i \in 1..w : merged[i] = q
  BY <1>1, <1>2, AppendIs DEF TypeOK
<1> PICK s : s = merged'
  OBVIOUS
<1>0. DOMAIN s = 1..W /\ \A q : Times(q)' = Count(s, q)
  BY <1>4 DEF Times, Count
<1>5. /\ Needed' = Needed /\ Imports' = Imports /\ NamesAreFiles' = NamesAreFiles
      /\ \A q : Below(q)' = Below(q)
  BY <1>2, TreeStays
<1>6. Needed = {Main} \cup Below(Main) /\ Needed \subseteq DOMAIN tree
  BY <1>1, NeededIs
<1>7. ToSet(merged) \subseteq Below(Main) /\ (ToSet(merged) \cup {Main}) \cap broken = {}
  BY <1>1 DEF MergedOK, FrameOK
<1>8. NamesAreFiles => ToSet(merged) = Below(Main)
  BY <1>1, <1>3, <1>7, BelowMerged
<1>9. NamesAreFiles => \A i, j \in 1..w : merged[i] = merged[j] => i = j
  BY DEF Loading, ReachedOnce
<1>10. \A i : i \in 1..W <=> i \in 1..w \/ i = W
  OBVIOUS
<1>11. W \in 1..W /\ W \notin 1..w
  OBVIOUS
<1>12. ASSUME Main \notin Below(Main) PROVE Times(Main)' = 1
  <2>1. \A i \in 1..w : merged[i] # Main
    BY <1>4, <1>7, <1>12
  <2>2. \A i \in 1..W : merged'[i] = Main <=> i = W
    BY <1>4, <1>10, <2>1
  <2>3. QED
    BY <1>0, <1>11, <2>2, CountOnce
<1>14. ASSUME NamesAreFiles, NEW p \in Needed \ {Main} PROVE Times(p)' = 1
  <2>1. PICK j \in 1..w : merged[j] = p
    BY <1>4, <1>6, <1>8, <1>14
  <2>2. \A i \in 1..W : merged'[i] = p <=> i = j
    BY <1>4, <1>9, <1>10, <1>11, <1>14, <2>1
  <2>3. j \in 1..W
    BY <1>10, <2>1
  <2>4. QED
    BY <1>0, <2>2, <2>3, CountOnce
<1>15. ASSUME NamesAreFiles, NEW p \in Needed, p \notin Below(p), NEW q \in Below(p),
              NEW i \in 1..W, NEW j \in 1..W, merged'[i] = q, merged'[j] = p
       PROVE  i < j
  <2>1. CASE j = W
    <3>1. p = Main /\ i # W
      BY <1>4, <1>15, <2>1
    <3>2. QED
      BY <2>1, <3>1
  <2>2. CASE j \in 1..w
    <3>1. merged[j] = p /\ p \in Below(Main)
      BY <1>4, <1>7, <1>15, <2>2
    <3>2. PICK k \in 1..w : k < j /\ merged[k] = q
      BY <1>15, <2>2, <3>1 DEF Loading, MergedAfter
    <3>3. CASE i \in 1..w
      <4>1. merged[i] = q
        BY <1>4, <1>15, <3>3
      <4>2. i = k
        BY <1>9, <1>15, <3>2, <3>3, <4>1
      <4>3. QED
        BY <3>2, <4>2
    <3>4. CASE i = W
      <4>1. Main \in Below(p)
        BY <1>4, <1>15, <3>4
      <4>2. Below(Main) \subseteq Below(p)
        BY <1>1, <1>6, <4>1, BelowBelow
      <4>3. QED
        BY <1>15, <3>1, <4>2
    <3>5. QED
      BY <1>10, <3>3, <3>4
  <2>3. QED
    BY <1>10, <2>1, <2>2
<1>16. MergedOnceInOrder'
  <2>1. merged'[Len(merged')] = Main /\ ToSet(merged)' \subseteq Needed \ broken
    BY <1>4, <1>6, <1>7
  <2>2. NamesAreFiles =>
          /\ \A p \in Needed \ {Main} : Times(p)' = 1
          /\ \A p \in Needed : p \notin Below(p) =>
                \A q \in Below(p) : \A i, j \in DOMAIN merged' :
                    merged'[i] = q /\ merged'[j] = p => i < j
    BY <1>4, <1>14, <1>15
  <2>3. QED
    BY <1>2, <1>5, <1>12, <2>1, <2>2 DEF MergedOnceInOrder
<1>17. TypeOK'
  <2>1. Frames' = Frames
    BY <1>2 DEF Frames
  <2>2. QED
    BY <1>1, <1>2, <1>4, <2>1 DEF TypeOK
<1>18. QED
  BY <1>2, <1>16, <1>17 DEF ImportsInv

-----------------------------------------------------------------------------
(* The theorems.                                                             *)

LEMMA InitInv ==
    ASSUME TreesAssumption, ImportsInit
    PROVE  ImportsInv
<1> PICK f : f = FileFrame(Main)
  OBVIOUS
<1>1. /\ tree \in Trees /\ stack = <<f>> /\ loaded = {} /\ merged = <<>> /\ outcome = "loading"
      /\ Main \notin broken
  BY DEF ImportsInit, SomeBroken, NothingLoaded
<1>2. Main \in DOMAIN tree /\ tree[Main] \in Seq(Imps) /\ Main \in Paths
  BY <1>1, TreeTypes DEF Paths
<1>3. f \in Frames /\ f.is = "file" /\ f.path = Main /\ f.at = 1
  <2>1. <<>> \in Seq(DOMAIN tree)
    BY EmptySeq
  <2>2. 1 \in Nat \ {0}
    OBVIOUS
  <2>3. QED
    BY <1>2, <2>1, <2>2 DEF FileFrame, Frames
<1>4. stack \in Seq(Frames) /\ Len(stack) = 1 /\ stack[1] = f
  BY <1>1, <1>3
<1>5. merged \in Seq(DOMAIN tree) /\ Len(merged) = 0 /\ ToSet(merged) = {}
  BY <1>1, EmptySeq DEF ToSet
<1>6. FrameOK(f)
  BY <1>1, <1>2, <1>3, LenProperties DEF FrameOK
<1>7. StackOK
  BY <1>3, <1>4, <1>6 DEF StackOK
<1>8. \A p : ~Reached(p)
  BY <1>4, <1>5 DEF Reached
<1>9. MergedOK /\ KeysOK /\ NamesOK /\ ReachedOnce /\ MergedAfter
  BY <1>1, <1>4, <1>5, <1>8 DEF MergedOK, KeysOK, NamesOK, ReachedOnce, MergedAfter
<1>10. QED
  BY <1>1, <1>4, <1>5, <1>7, <1>9 DEF ImportsInv, TypeOK, Loading

LEMMA StutterInv ==
    ASSUME ImportsInv, UNCHANGED imports
    PROVE  ImportsInv'
<1>1. tree' = tree /\ broken' = broken /\ stack' = stack /\ loaded' = loaded /\ merged' = merged /\ outcome' = outcome
  BY DEF imports
<1>2. /\ Needed' = Needed /\ Imports' = Imports /\ (\A x : Target(x)' = Target(x) /\ Import(x)' = Import(x))
      /\ (\A d : FilesIn(d)' = FilesIn(d) /\ Entries(d)' = Entries(d))
      /\ NamesAreFiles' = NamesAreFiles /\ (\A q : Below(q)' = Below(q)) /\ \A S : Closure(S)' = Closure(S)
  BY <1>1, TreeStays
<1>3. ToSet(merged)' = ToSet(merged) /\ \A q : Times(q)' = Times(q)
  BY <1>1 DEF ToSet, Times
<1>4. TypeOK' <=> TypeOK
  BY <1>1 DEF TypeOK, Frames
<1>5. \A f : FrameOK(f)' <=> FrameOK(f)
  BY <1>1, <1>2 DEF FrameOK, Key, FileKey
<1>6. \A f : Heads(f)' = Heads(f) /\ Under(f)' = Under(f)
  BY <1>2 DEF Heads, Under
<1>7. StackOK' <=> StackOK
  BY <1>1, <1>5, <1>6 DEF StackOK
<1>8. (\A q : Reached(q)' <=> Reached(q)) /\ (\A d : OnStack(d)' <=> OnStack(d))
  BY <1>1, <1>3 DEF Reached, OnStack
<1>9. MergedOK' <=> MergedOK
  BY <1>1, <1>2, <1>3 DEF MergedOK, Key
<1>10. KeysOK' <=> KeysOK
  BY <1>1, <1>2, <1>8 DEF KeysOK, Key, FileKey
<1>11. (NamesOK' <=> NamesOK) /\ (ReachedOnce' <=> ReachedOnce) /\ (MergedAfter => MergedAfter')
  <2>1. NamesOK' <=> NamesOK
    BY <1>1, <1>2, <1>8 DEF NamesOK, Key
  <2>2. ReachedOnce' <=> ReachedOnce
    BY <1>1, <1>3 DEF ReachedOnce
  <2>3. MergedAfter => MergedAfter'
    BY <1>1, <1>2 DEF MergedAfter
  <2>4. QED
    BY <2>1, <2>2, <2>3
<1>12. MergedOnceInOrder => MergedOnceInOrder'
  <2>1. \A x : Unloadable(Target(x))' <=> Unloadable(Target(x))
    BY <1>1, BrokenStays
  <2>2. ASSUME MergedOnceInOrder, outcome = "failed"
        PROVE  (\E x \in Imports : Unloadable(Target(x)))'
    BY <1>2, <2>1, <2>2 DEF MergedOnceInOrder
  <2>3. ASSUME MergedOnceInOrder, outcome = "done"
        PROVE  MergedOnceInOrder'
    BY <1>1, <1>2, <1>3, <2>3 DEF MergedOnceInOrder
  <2>4. QED
    BY <1>1, <2>2, <2>3 DEF MergedOnceInOrder
<1>13. QED
  BY <1>1, <1>2, <1>4, <1>7, <1>9, <1>10, <1>11, <1>12 DEF ImportsInv, Loading

LEMMA NextInv ==
    ASSUME TreesAssumption, EarlierAssumption, ImportsInv, [ImportsNext]_imports
    PROVE  ImportsInv'
<1>1. CASE UNCHANGED imports
  BY <1>1, StutterInv
<1>2. ASSUME ImportsNext PROVE outcome = "loading" /\ TypeOK /\ Loading
  BY <1>2 DEF ImportsNext, LoadImport, LoadEntry, Merge, ImportsInv
<1>3. CASE LoadImport
  BY <1>2, <1>3, LoadImportInv DEF ImportsNext
<1>4. CASE LoadEntry
  BY <1>2, <1>4, LoadEntryInv DEF ImportsNext
<1>5. CASE Merge
  <2>1. outcome = "loading" /\ TypeOK /\ Loading
    BY <1>2, <1>5 DEF ImportsNext
  <2>2. Len(stack) \in Nat /\ Len(stack) > 0
    BY <2>1, TopFrame DEF Loading
  <2>3. CASE Len(stack) = 1
    BY <1>5, <2>1, <2>3, MergeMainInv
  <2>4. CASE Len(stack) > 1 /\ Top.is = "file"
    BY <1>5, <2>1, <2>4, MergeFileInv
  <2>5. CASE Top.is # "file"
    BY <1>5, <2>1, <2>5, MergeDirInv
  <2>6. QED
    BY <2>2, <2>3, <2>4, <2>5
<1>6. QED
  BY <1>1, <1>3, <1>4, <1>5 DEF ImportsNext

(* While a load goes on, what is on the stack is below what is under it,   *)
(* every import that was seen is answered for by a file that is merged or  *)
(* on the stack, and no file comes twice but the program: resolve.rs's     *)
(* load_import with its set of loaded keys.                                *)
THEOREM ImportsInvariant ==
    ASSUME TreesAssumption, EarlierAssumption
    PROVE  ImportsSpec => []ImportsInv
<1>1. ImportsInit => ImportsInv
  BY InitInv
<1>2. ImportsInv /\ [ImportsNext]_imports => ImportsInv'
  BY NextInv
<1>3. QED
  BY <1>1, <1>2, PTL DEF ImportsSpec

(* Whatever files there are: a program is merged from the files it needs   *)
(* and no others, itself last; where names are files, each one once, after *)
(* the files it needs unless it is on a cycle; nothing that cannot be read *)
(* or parsed is merged, and a load fails only for an import, in a file that *)
(* is needed, that stands for nothing or brings something broken           *)
(* (resolve.rs, resolve_path and load_import).                             *)
THEOREM LoadedOnceInOrder ==
    ASSUME TreesAssumption, EarlierAssumption
    PROVE  ImportsSpec => []MergedOnceInOrder
<1>1. ASSUME ImportsInv PROVE MergedOnceInOrder
  BY <1>1 DEF ImportsInv, MergedOnceInOrder
<1>2. ImportsInv => MergedOnceInOrder
  BY <1>1
<1>3. QED
  BY <1>2, ImportsInvariant, PTL
=============================================================================
