--------------------------- MODULE PackagesProofs ---------------------------
(***************************************************************************)
(* What the package manager records is true, for every list of             *)
(* repositories, every set of versions and every number of processes and   *)
(* commands: resolve chooses the candidate its documentation asks for, a   *)
(* lock file names what is installed, index.json lists what is published.  *)
(***************************************************************************)
EXTENDS Packages, FiniteSetTheorems, FunctionTheorems, SequenceTheorems, WellFoundedInduction, TLAPS

-----------------------------------------------------------------------------
(* The order of the repositories.                                            *)

\* A non-empty set of numbers has a least one.
LEMMA LeastNumber ==
    ASSUME NEW T \in SUBSET Nat, T # {}
    PROVE  \E x \in T : \A y \in T : x <= y
<1> DEFINE R == {ss \in Nat \X Nat : ss[1] < ss[2]}
<1>1. OpToRel(<, Nat) = R
  BY DEF OpToRel
<1>2. IsWellFoundedOn(R, Nat)
  BY <1>1, NatLessThanWellFounded, Zenon
<1> HIDE DEF R
<1>3. PICK x \in T : \A y \in T : ~(<<y, x>> \in R)
  BY <1>2, WFMin
<1>4. ASSUME NEW y \in T, y < x PROVE <<y, x>> \in R
  BY <1>4 DEF R
<1>5. \A y \in T : ~(y < x)
  BY <1>3, <1>4
<1>6. \A y \in T : x <= y
  BY <1>5
<1>7. QED
  BY <1>6

\* `Before' is a strict total order on the places in the file.
LEMMA BeforeOrders ==
    ASSUME NEW c \in Seq(Repos)
    PROVE  /\ \A i \in DOMAIN c : ~Before(c, i, i)
           /\ \A i, j, k \in DOMAIN c : Before(c, i, j) /\ Before(c, j, k) => Before(c, i, k)
           /\ \A i, j \in DOMAIN c : i = j \/ Before(c, i, j) \/ Before(c, j, i)
<1>1. DOMAIN c \subseteq Nat /\ \A i \in DOMAIN c : c[i].priority \in Int
  <2>1. DOMAIN c = 1..Len(c) /\ Len(c) \in Nat
    BY LenProperties
  <2>2. \A i \in 1..Len(c) : c[i] \in Repos
    BY ElementOfSeq
  <2>3. QED
    BY <2>1, <2>2 DEF Repos
<1>2. QED
  BY <1>1 DEF Before

\* How many repositories come before or at the one in place i.
Rank(c, i) == Cardinality({j \in DOMAIN c : j = i \/ Before(c, j, i)})

LEMMA RankOrders ==
    ASSUME NEW c \in Seq(Repos)
    PROVE  /\ \A i \in DOMAIN c : Rank(c, i) \in DOMAIN c
           /\ \A i, j \in DOMAIN c : Before(c, i, j) => Rank(c, i) < Rank(c, j)
<1> DEFINE D == DOMAIN c
           Upto(i) == {j \in D : j = i \/ Before(c, j, i)}
<1>1. Len(c) \in Nat /\ D = 1..Len(c) /\ IsFiniteSet(D) /\ Cardinality(D) = Len(c)
  <2>1. Len(c) \in Nat /\ D = 1..Len(c)
    BY LenProperties
  <2>2. QED
    BY <2>1, FS_Interval
<1>2. ASSUME NEW i \in D
      PROVE  IsFiniteSet(Upto(i)) /\ Cardinality(Upto(i)) \in 1..Len(c)
  <2>1. IsFiniteSet(Upto(i)) /\ Cardinality(Upto(i)) <= Len(c)
    BY <1>1, FS_Subset
  <2>2. Cardinality(Upto(i)) \in Nat
    BY <2>1, FS_CardinalityType
  <2>3. i \in Upto(i)
    OBVIOUS
  <2>4. Cardinality(Upto(i)) # 0
    BY <2>1, <2>3, FS_EmptySet
  <2>5. QED
    BY <1>1, <2>1, <2>2, <2>4
<1>3. ASSUME NEW i \in D, NEW j \in D, Before(c, i, j)
      PROVE  Cardinality(Upto(i)) < Cardinality(Upto(j))
  <2>1. Upto(i) \subseteq Upto(j)
    BY <1>3, BeforeOrders
  <2>2. j \in Upto(j) /\ j \notin Upto(i)
    BY <1>3, BeforeOrders
  <2>3. Cardinality(Upto(i)) <= Cardinality(Upto(j)) /\ Cardinality(Upto(i)) # Cardinality(Upto(j))
    BY <1>2, <2>1, <2>2, FS_Subset
  <2>4. Cardinality(Upto(i)) \in Nat /\ Cardinality(Upto(j)) \in Nat
    BY <1>2, FS_CardinalityType
  <2> HIDE DEF Upto
  <2>5. QED
    BY <2>3, <2>4
<1>4. QED
  BY <1>1, <1>2, <1>3 DEF Rank

\* The list sorted: every place of the file once, none after one it comes before.
LEMMA OrderSorts ==
    ASSUME NEW c \in Seq(Repos)
    PROVE  /\ Order(c) \in [DOMAIN c -> DOMAIN c]
           /\ \A j, k \in DOMAIN c : j < k => Before(c, Order(c)[j], Order(c)[k])
           /\ \A i \in DOMAIN c : \E k \in DOMAIN c : Order(c)[k] = i
<1> DEFINE D == DOMAIN c
           Sorts(o) == \A j, k \in D : j < k => Before(c, o[j], o[k])
<1>1. D = 1..Len(c) /\ Len(c) \in Nat /\ IsFiniteSet(D) /\ D \subseteq Nat
  <2>1. Len(c) \in Nat /\ D = 1..Len(c)
    BY LenProperties
  <2>2. QED
    BY <2>1, FS_Interval
<1>2. ASSUME NEW o \in [D -> D], \A j, k \in D : o[j] = o[k] => j = k
      PROVE  \A i \in D : \E k \in D : o[k] = i
  <2>1. o \in Injection(D, D)
    BY <1>2, Fun_IsInj
  <2>2. o \in Surjection(D, D)
    BY <1>1, <2>1, FS_Injection
  <2>3. QED
    BY <2>2, Fun_SurjectionProperties
<1>3. \E o \in [D -> D] : Sorts(o)
  <2> DEFINE rank == [i \in D |-> Rank(c, i)]
             o == [k \in D |-> CHOOSE i \in D : rank[i] = k]
  <2>1. rank \in [D -> D]
    BY RankOrders
  <2>2. \A i, j \in D : rank[i] \in Nat /\ (Before(c, i, j) => rank[i] < rank[j])
    BY <1>1, RankOrders
  <2> HIDE DEF rank
  <2>3. \A i, j \in D : rank[i] = rank[j] => i = j
    BY <2>2, BeforeOrders
  <2>4. \A k \in D : \E i \in D : rank[i] = k
    BY <1>2, <2>1, <2>3
  <2>5. o \in [D -> D] /\ \A k \in D : rank[o[k]] = k
    BY <2>4
  <2> HIDE DEF o
  <2>6. ASSUME NEW j \in D, NEW k \in D, j < k PROVE Before(c, o[j], o[k])
    <3>1. o[j] \in D /\ o[k] \in D /\ rank[o[j]] < rank[o[k]]
      BY <2>5, <2>6
    <3>2. ~Before(c, o[k], o[j]) /\ o[j] # o[k]
      BY <2>2, <3>1
    <3>3. QED
      BY <3>1, <3>2, BeforeOrders
  <2>7. QED
    BY <2>5, <2>6
<1>4. Order(c) \in [D -> D] /\ Sorts(Order(c))
  BY <1>3 DEF Order
<1> DEFINE o == Order(c)
<1> HIDE DEF o
<1>5. \A j, k \in D : o[j] = o[k] => j = k
  <2>1. \A j, k \in D : j < k => o[j] # o[k]
    BY <1>4, BeforeOrders DEF o
  <2>2. QED
    BY <1>1, <2>1
<1>6. QED
  BY <1>2, <1>4, <1>5 DEF o

-----------------------------------------------------------------------------
(* The loop over the repositories.                                           *)

\* `best' is defined by the loop: what it is after k repositories follows from
\* what it was after k - 1.
LEMMA LoopRuns ==
    ASSUME NEW c, Len(c) \in Nat, NEW want, NEW down
    PROVE  \E best : /\ best[0] = NoCandidate
                     /\ \A k \in 1..Len(c) :
                          best[k] = Consider(best[k - 1], SortedRepos(c)[k], want, down)
                     /\ ResolveCandidate(c, want, down) = best[Len(c)]
<1> DEFINE N == Len(c)
           Turn(b, k) == Consider(b, SortedRepos(c)[k], want, down)
           Run(g, n) == [k \in 0..n |-> IF k = 0 THEN NoCandidate ELSE Turn(g[k - 1], k)]
<1>1. ResolveCandidate(c, want, down) = (CHOOSE g : g = Run(g, N))[N]
  BY DEF ResolveCandidate
<1> HIDE DEF Turn
<1>2. \A n \in Nat : \E g : g = Run(g, n)
  <2> DEFINE T == {n \in Nat : ~\E g : g = Run(g, n)}
  <2>1. SUFFICES ASSUME T # {} PROVE FALSE
    OBVIOUS
  <2>2. PICK m \in T : \A n \in T : m <= n
    BY <2>1, LeastNumber
  <2>3. m \in Nat /\ ~\E g : g = Run(g, m)
    OBVIOUS
  <2>4. CASE m = 0
    <3> DEFINE g == [k \in 0..0 |-> NoCandidate]
    <3>1. g = Run(g, 0)
      OBVIOUS
    <3>2. QED
      BY <2>3, <2>4, <3>1
  <2>5. CASE m # 0
    <3>1. m - 1 \in Nat /\ ~(m <= m - 1)
      BY <2>3, <2>5
    <3>2. m - 1 \notin T
      BY <2>2, <3>1
    <3>3. PICK g : g = Run(g, m - 1)
      BY <3>1, <3>2
    <3> DEFINE h == [k \in 0..m |-> IF k = m THEN Turn(g[m - 1], m) ELSE g[k]]
    <3>4. ASSUME NEW k \in 0..m
          PROVE  h[k] = IF k = 0 THEN NoCandidate ELSE Turn(h[k - 1], k)
      <4>1. CASE k = 0
        BY <2>3, <2>5, <3>3, <4>1
      <4>2. CASE k = m
        <5>1. m - 1 \in 0..m /\ m - 1 # m
          BY <2>3, <3>1
        <5>2. h[m - 1] = g[m - 1]
          BY <5>1
        <5>3. QED
          BY <2>5, <4>2, <5>2
      <4>3. CASE k # 0 /\ k # m
        <5>1. k \in 0..(m - 1) /\ k - 1 \in 0..m /\ k - 1 # m
          BY <2>3, <4>3
        <5>2. h[k] = g[k] /\ h[k - 1] = g[k - 1]
          BY <4>3, <5>1
        <5>3. g[k] = Turn(g[k - 1], k)
          BY <3>3, <4>3, <5>1
        <5>4. QED
          BY <4>3, <5>2, <5>3
      <4>4. QED
        BY <4>1, <4>2, <4>3
    <3>5. h = [k \in 0..m |-> h[k]]
      OBVIOUS
    <3> HIDE DEF h
    <3>6. h = Run(h, m)
      BY <3>4, <3>5
    <3>7. QED
      BY <2>3, <3>6
  <2>6. QED
    BY <2>4, <2>5
<1> DEFINE best == CHOOSE g : g = Run(g, N)
<1>3. best = Run(best, N)
  BY <1>2
<1> HIDE DEF best
<1>4. 0 \in 0..N /\ \A k \in 1..N : k \in 0..N /\ k # 0
  OBVIOUS
<1>5. best[0] = NoCandidate /\ \A k \in 1..N : best[k] = Turn(best[k - 1], k)
  BY <1>3, <1>4
<1>6. QED
  BY <1>1, <1>5 DEF Turn, best

-----------------------------------------------------------------------------
(* What the loop chooses.                                                    *)

\* Version x is above y at part i: they agree before it, and there y is smaller
\* or has ended.
Above(x, y, i) == /\ \A j \in 1..(i - 1) : j <= Len(y) /\ x[j] = y[j]
                  /\ i <= Len(y) => x[i] > y[i]

LEMMA NewerIsAbove ==
    ASSUME NEW x \in Seq(Nat), NEW y \in Seq(Nat)
    PROVE  SemverGt(x, y) <=> \E i \in 1..Len(x) : Above(x, y, i)
<1> DEFINE n == IF Len(x) < Len(y) THEN Len(x) ELSE Len(y)
           D == {i \in 1..n : x[i] # y[i]}
<1>1. SemverGt(x, y) <=> \/ D = {} /\ Len(x) > Len(y)
                         \/ \E i \in D : (\A j \in D : i <= j) /\ x[i] > y[i]
  BY DEF SemverGt
<1>2. /\ Len(x) \in Nat /\ Len(y) \in Nat /\ n \in Nat /\ n <= Len(x) /\ n <= Len(y)
      /\ n = Len(x) \/ n = Len(y)
  BY LenProperties
<1>3. \A i \in 1..Len(x) : x[i] \in Nat
  BY ElementOfSeq
<1>4. \A i \in 1..Len(y) : y[i] \in Nat
  BY ElementOfSeq
<1> HIDE DEF n
<1>5. ASSUME D = {}, Len(x) > Len(y) PROVE Len(y) + 1 \in 1..Len(x) /\ Above(x, y, Len(y) + 1)
  BY <1>2, <1>5 DEF Above
<1>6. ASSUME NEW i \in D, \A j \in D : i <= j, x[i] > y[i] PROVE i \in 1..Len(x) /\ Above(x, y, i)
  BY <1>2, <1>6 DEF Above
<1>7. ASSUME NEW i \in 1..Len(x), Above(x, y, i)
      PROVE  \/ D = {} /\ Len(x) > Len(y)
             \/ i \in D /\ (\A j \in D : i <= j) /\ x[i] > y[i]
  <2>1. \A j \in 1..(i - 1) : j <= Len(y) /\ x[j] = y[j]
    BY <1>7 DEF Above
  <2>2. CASE i <= Len(y)
    <3>1. x[i] > y[i] /\ x[i] \in Nat /\ y[i] \in Nat /\ i \in 1..n
      BY <1>2, <1>3, <1>4, <1>7, <2>2 DEF Above
    <3>2. i \in D
      BY <3>1
    <3>3. \A j \in D : i <= j
      BY <1>2, <2>1, <3>1
    <3>4. QED
      BY <3>1, <3>2, <3>3
  <2>3. CASE ~(i <= Len(y))
    <3>1. \A j \in 1..n : j \in 1..(i - 1)
      BY <1>2, <2>3
    <3>2. QED
      BY <1>2, <2>1, <2>3, <3>1
  <2>4. QED
    BY <2>2, <2>3
<1>8. QED
  BY <1>1, <1>5, <1>6, <1>7

\* `Newer' is a strict order on versions.
LEMMA NewerOrders ==
    ASSUME NEW a \in Seq(Nat), NEW b \in Seq(Nat), NEW d \in Seq(Nat)
    PROVE  /\ ~SemverGt(a, a)
           /\ SemverGt(a, b) /\ SemverGt(b, d) => SemverGt(a, d)
<1>1. Len(a) \in Nat /\ Len(b) \in Nat /\ Len(d) \in Nat
  BY LenProperties
<1>2. /\ \A i \in 1..Len(a) : a[i] \in Nat
      /\ \A i \in 1..Len(b) : b[i] \in Nat
      /\ \A i \in 1..Len(d) : d[i] \in Nat
  BY ElementOfSeq
<1>3. ~SemverGt(a, a)
  <2>1. \A i \in 1..Len(a) : ~Above(a, a, i)
    BY <1>1, <1>2 DEF Above
  <2>2. QED
    BY <2>1, NewerIsAbove
<1>4. ASSUME SemverGt(a, b), SemverGt(b, d) PROVE SemverGt(a, d)
  <2>1. PICK i \in 1..Len(a) : Above(a, b, i)
    BY <1>4, NewerIsAbove
  <2>2. PICK j \in 1..Len(b) : Above(b, d, j)
    BY <1>4, NewerIsAbove
  <2>3. CASE i < j
    <3>1. i <= Len(b) /\ i <= Len(d) /\ b[i] = d[i]
      BY <1>1, <2>2, <2>3 DEF Above
    <3>2. Above(a, d, i)
      BY <1>1, <2>1, <2>2, <2>3, <3>1 DEF Above
    <3>3. QED
      BY <3>2, NewerIsAbove
  <2>4. CASE j < i
    <3>1. j \in 1..Len(a) /\ a[j] = b[j]
      BY <1>1, <2>1, <2>4 DEF Above
    <3>2. Above(a, d, j)
      BY <1>1, <2>1, <2>2, <2>4, <3>1 DEF Above
    <3>3. QED
      BY <3>1, <3>2, NewerIsAbove
  <2>5. CASE i = j
    <3>1. i <= Len(b) /\ a[i] > b[i] /\ a[i] \in Nat /\ b[i] \in Nat
      BY <1>1, <1>2, <2>1, <2>5 DEF Above
    <3>2. i <= Len(d) => d[i] \in Nat /\ a[i] > d[i]
      BY <1>1, <1>2, <2>2, <2>5, <3>1 DEF Above
    <3>3. Above(a, d, i)
      BY <1>1, <2>1, <2>2, <2>5, <3>2 DEF Above
    <3>4. QED
      BY <3>3, NewerIsAbove
  <2>6. QED
    BY <1>1, <2>3, <2>4, <2>5
<1>5. QED
  BY <1>3, <1>4

\* The repository can serve what is asked for, and which version it then serves.
Fits(repo, want, down) == /\ repo.id \notin down /\ repo.lists
                          /\ want = NoVersion \/ want \in ToSet(Offers(repo))
Serves(repo, want) == IF want = NoVersion THEN Offers(repo)[1] ELSE want

LEMMA RepoFacts ==
    ASSUME VersionsAssumption, NEW repo \in Repos, NEW want \in Versions \cup {NoVersion}
    PROVE  /\ Serves(repo, want) \in Versions /\ Serves(repo, want) \in Seq(Nat)
           /\ Candidate(repo, Serves(repo, want)) # NoCandidate
           /\ Candidate(repo, Serves(repo, want)).version = Serves(repo, want)
           /\ Candidate(repo, Serves(repo, want)).repo = repo.id
           /\ want = NoVersion => Serves(repo, want) = Offers(repo)[1]
           /\ want # NoVersion => Serves(repo, want) = want
<1>1. /\ repo.id # 0 /\ repo.version \in Versions /\ repo.versions \in Seq(Versions)
      /\ Versions \subseteq Seq(Nat)
  BY DEF Repos, VersionsAssumption
<1>2. Offers(repo)[1] \in Versions
  <2>1. CASE repo.versions = <<>>
    BY <1>1, <2>1 DEF Offers
  <2>2. CASE repo.versions # <<>>
    <3>1. repo.versions[1] \in Versions
      BY <1>1, <2>2, EmptySeq, LenProperties, ElementOfSeq
    <3>2. QED
      BY <2>2, <3>1 DEF Offers
  <2>3. QED
    BY <2>1, <2>2
<1>3. QED
  BY <1>1, <1>2 DEF Serves, Candidate, NoCandidate

LEMMA ConsiderTakes ==
    ASSUME NEW best, NEW repo, NEW want, NEW down
    PROVE  Consider(best, repo, want, down) =
             IF /\ Fits(repo, want, down)
                /\ best = NoCandidate \/ (want = NoVersion /\ SemverGt(Serves(repo, want), best.version))
             THEN Candidate(repo, Serves(repo, want)) ELSE best
BY DEF Consider, Fits, Serves

\* Of the first n in the order of the list: none fits, or m is the first of those
\* with the newest version.
ChoiceOf(c, want, down, n, cand) ==
    LET repo(k) == c[Order(c)[k]]
        version(k) == Serves(repo(k), want)
    IN \/ cand = NoCandidate /\ \A k \in 1..n : ~Fits(repo(k), want, down)
       \/ \E m \in 1..n :
             /\ Fits(repo(m), want, down) /\ cand = Candidate(repo(m), version(m))
             /\ \A k \in 1..n : Fits(repo(k), want, down) =>
                    ~SemverGt(version(k), version(m)) /\ (k < m => version(k) # version(m))

LEMMA ChoiceNext ==
    ASSUME VersionsAssumption, NEW c \in Seq(Repos), NEW want \in Versions \cup {NoVersion},
           NEW down, NEW n \in 1..Len(c), NEW cand, ChoiceOf(c, want, down, n - 1, cand)
    PROVE  ChoiceOf(c, want, down, n, Consider(cand, SortedRepos(c)[n], want, down))
<1> DEFINE repo(k) == c[Order(c)[k]]
           version(k) == Serves(repo(k), want)
           fits(k) == Fits(repo(k), want, down)
           new == Consider(cand, repo(n), want, down)
<1>1. Len(c) \in Nat /\ DOMAIN c = 1..Len(c) /\ n \in Nat
  BY LenProperties
<1>2. SortedRepos(c)[n] = repo(n)
  BY <1>1 DEF SortedRepos
<1>3. \A k \in 1..n : k \in DOMAIN c /\ repo(k) \in Repos
  <2>1. \A k \in 1..n : k \in DOMAIN c
    BY <1>1
  <2>2. \A k \in DOMAIN c : Order(c)[k] \in DOMAIN c
    BY OrderSorts
  <2>3. QED
    BY <1>1, <2>1, <2>2, ElementOfSeq
<1>4. \A k \in 1..n : /\ version(k) \in Seq(Nat)
                      /\ Candidate(repo(k), version(k)) # NoCandidate
                      /\ Candidate(repo(k), version(k)).version = version(k)
                      /\ want # NoVersion => version(k) = want
  BY <1>3, RepoFacts
<1>5. new = IF fits(n) /\ (cand = NoCandidate \/ (want = NoVersion /\ SemverGt(version(n), cand.version)))
            THEN Candidate(repo(n), version(n)) ELSE cand
  BY ConsiderTakes
<1>6. \A x, y, z \in 1..n : /\ ~SemverGt(version(x), version(x))
                            /\ SemverGt(version(x), version(y)) /\ SemverGt(version(y), version(z))
                                 => SemverGt(version(x), version(z))
  BY <1>4, NewerOrders
<1>7. n \in 1..n /\ \A k \in 1..n : k = n \/ k \in 1..(n - 1)
  BY <1>1
<1>8. \A k \in 1..(n - 1) : k \in 1..n /\ k < n /\ k # n /\ ~(n < k)
  BY <1>1
<1> DEFINE Best(m, l) == /\ fits(m)
                         /\ \A k \in 1..l : fits(k) => ~SemverGt(version(k), version(m))
                                                       /\ (k < m => version(k) # version(m))
<1>9. \/ cand = NoCandidate /\ \A k \in 1..(n - 1) : ~fits(k)
      \/ \E m \in 1..(n - 1) : cand = Candidate(repo(m), version(m)) /\ Best(m, n - 1)
  BY DEF ChoiceOf
<1>10. SUFFICES \/ new = NoCandidate /\ \A k \in 1..n : ~fits(k)
                \/ \E m \in 1..n : new = Candidate(repo(m), version(m)) /\ Best(m, n)
  <2> HIDE DEF new
  <2>1. QED
    BY <1>2 DEF ChoiceOf, new
<1> HIDE DEF repo, version, fits, new
<1>11. CASE ~fits(n)
  <2>1. new = cand
    BY <1>5, <1>11
  <2>2. CASE cand = NoCandidate /\ \A k \in 1..(n - 1) : ~fits(k)
    BY <1>7, <1>11, <2>1, <2>2
  <2>3. CASE \E m \in 1..(n - 1) : cand = Candidate(repo(m), version(m)) /\ Best(m, n - 1)
    BY <1>7, <1>8, <1>11, <2>1, <2>3
  <2>4. QED
    BY <1>9, <2>2, <2>3
<1>12. CASE fits(n) /\ cand = NoCandidate
  <2>1. \A k \in 1..(n - 1) : ~fits(k)
    BY <1>4, <1>8, <1>9, <1>12
  <2>2. Best(n, n)
    BY <1>6, <1>7, <1>12, <2>1
  <2>3. QED
    BY <1>5, <1>7, <1>12, <2>2
<1>13. CASE fits(n) /\ cand # NoCandidate
  <2>1. PICK m \in 1..(n - 1) : cand = Candidate(repo(m), version(m)) /\ Best(m, n - 1)
    BY <1>9, <1>13
  <2>2. cand.version = version(m) /\ m \in 1..n /\ m < n
    BY <1>4, <1>8, <2>1
  <2>3. CASE want = NoVersion /\ SemverGt(version(n), version(m))
    <3>1. new = Candidate(repo(n), version(n))
      BY <1>5, <1>13, <2>2, <2>3
    <3>2. \A k \in 1..n : fits(k) => ~SemverGt(version(k), version(n))
                                     /\ (k < n => version(k) # version(n))
      <4>1. TAKE k \in 1..n
      <4>2. CASE k = n
        BY <1>1, <1>6, <4>2
      <4>3. CASE k \in 1..(n - 1)
        BY <1>6, <1>7, <2>1, <2>2, <2>3, <4>3
      <4>4. QED
        BY <1>7, <4>2, <4>3
    <3>3. QED
      BY <1>7, <1>13, <3>1, <3>2
  <2>4. CASE ~(want = NoVersion /\ SemverGt(version(n), version(m)))
    <3>1. new = cand
      BY <1>5, <1>13, <2>2, <2>4
    <3>2. ~SemverGt(version(n), version(m))
      BY <1>4, <1>6, <1>7, <2>2, <2>4
    <3>3. Best(m, n)
      BY <1>7, <2>1, <2>2, <3>2, <1>1
    <3>4. QED
      BY <2>1, <2>2, <3>1, <3>3
  <2>5. QED
    BY <2>3, <2>4
<1>14. QED
  BY <1>11, <1>12, <1>13

LEMMA Chosen ==
    ASSUME VersionsAssumption, NEW c \in Seq(Repos), NEW want \in Versions \cup {NoVersion}, NEW down
    PROVE  ChoiceOf(c, want, down, Len(c), ResolveCandidate(c, want, down))
<1>1. Len(c) \in Nat
  BY LenProperties
<1>2. PICK best : /\ best[0] = NoCandidate
                  /\ \A k \in 1..Len(c) : best[k] = Consider(best[k - 1], SortedRepos(c)[k], want, down)
                  /\ ResolveCandidate(c, want, down) = best[Len(c)]
  BY <1>1, LoopRuns
<1> DEFINE T == {n \in 0..Len(c) : ~ChoiceOf(c, want, down, n, best[n])}
<1>3. ASSUME T # {} PROVE FALSE
  <2>1. T \subseteq Nat
    BY <1>1
  <2>2. PICK n \in T : \A k \in T : n <= k
    BY <1>3, <2>1, LeastNumber
  <2>3. CASE n = 0
    BY <1>2, <2>2, <2>3 DEF ChoiceOf
  <2>4. CASE n # 0
    <3>1. n \in 1..Len(c) /\ n - 1 \in 0..Len(c) /\ ~(n <= n - 1)
      BY <1>1, <2>4
    <3>2. ChoiceOf(c, want, down, n - 1, best[n - 1])
      BY <2>2, <3>1
    <3>3. ChoiceOf(c, want, down, n, best[n])
      BY <1>2, <3>1, <3>2, ChoiceNext
    <3>4. QED
      BY <3>3
  <2>5. QED
    BY <2>3, <2>4
<1>4. QED
  BY <1>1, <1>2, <1>3

\* The candidate is the one the rules ask for.
LEMMA NewestChosen ==
    ASSUME VersionsAssumption, config \in Seq(Repos)
    PROVE  ResolvedIsNewest
<1> SUFFICES ASSUME NEW want \in Versions \cup {NoVersion},
                    NEW down \in SUBSET {r.id : r \in ToSet(config)}
             PROVE  LET c == ResolveCandidate(config, want, down)
                        up == {i \in DOMAIN config : config[i].id \notin down /\ config[i].lists}
                        head(i) == Offers(config[i])[1]
                        has(i, v) == IF want = NoVersion THEN head(i) = v
                                     ELSE v \in ToSet(Offers(config[i]))
                        fits == {i \in up : want = NoVersion \/ has(i, want)}
                    IN IF fits = {} THEN c = NoCandidate
                       ELSE /\ want # NoVersion => c.version = want
                            /\ want = NoVersion => \A i \in fits : ~SemverGt(head(i), c.version)
                            /\ \E i \in fits :
                                  /\ config[i].id = c.repo /\ has(i, c.version)
                                  /\ \A j \in fits : has(j, c.version) =>
                                        \/ config[i].priority > config[j].priority
                                        \/ config[i].priority = config[j].priority /\ i <= j
  BY DEF ResolvedIsNewest
<1> DEFINE c == ResolveCandidate(config, want, down)
           up == {i \in DOMAIN config : config[i].id \notin down /\ config[i].lists}
           head(i) == Offers(config[i])[1]
           has(i, v) == IF want = NoVersion THEN head(i) = v
                        ELSE v \in ToSet(Offers(config[i]))
           fits == {i \in up : want = NoVersion \/ has(i, want)}
           o == Order(config)
           version(i) == Serves(config[i], want)
<1>1. Len(config) \in Nat /\ DOMAIN config = 1..Len(config)
  BY LenProperties
<1>2. \A i \in DOMAIN config : i \in fits <=> Fits(config[i], want, down)
  BY DEF Fits
<1>3. /\ \A k \in DOMAIN config : o[k] \in DOMAIN config
      /\ \A i \in DOMAIN config : \E k \in DOMAIN config : o[k] = i
      /\ \A j, k \in DOMAIN config : j < k => Before(config, o[j], o[k])
  BY OrderSorts
<1>4. \A i \in DOMAIN config : /\ Candidate(config[i], version(i)).version = version(i)
                               /\ Candidate(config[i], version(i)).repo = config[i].id
                               /\ Candidate(config[i], version(i)) # NoCandidate
                               /\ want = NoVersion => version(i) = head(i)
                               /\ want # NoVersion => version(i) = want
  <2>1. \A i \in DOMAIN config : config[i] \in Repos
    BY <1>1, ElementOfSeq
  <2>2. QED
    BY <2>1, RepoFacts
<1>5. \A i \in fits : i \in DOMAIN config /\ (\A v : has(i, v) => want # NoVersion \/ version(i) = v)
  BY <1>4
<1>6. \A i \in fits : has(i, version(i))
  BY <1>4
<1>7. ChoiceOf(config, want, down, Len(config), c)
  BY Chosen
<1>8. \/ c = NoCandidate /\ \A k \in DOMAIN config : o[k] \notin fits
      \/ \E m \in DOMAIN config :
            /\ o[m] \in fits /\ c = Candidate(config[o[m]], version(o[m]))
            /\ \A k \in DOMAIN config : o[k] \in fits =>
                   ~SemverGt(version(o[k]), version(o[m])) /\ (k < m => version(o[k]) # version(o[m]))
  <2> HIDE DEF fits, c
  <2>1. QED
    BY <1>1, <1>2, <1>3, <1>7 DEF ChoiceOf
<1> HIDE DEF has, head, fits, c, o, version
<1>9. CASE c = NoCandidate /\ \A k \in DOMAIN config : o[k] \notin fits
  <2>1. fits = {}
    BY <1>3, <1>5, <1>9
  <2>2. QED
    BY <1>9, <2>1 DEF has, head, fits, c
<1>10. CASE \E m \in DOMAIN config :
               /\ o[m] \in fits /\ c = Candidate(config[o[m]], version(o[m]))
               /\ \A k \in DOMAIN config : o[k] \in fits =>
                      ~SemverGt(version(o[k]), version(o[m])) /\ (k < m => version(o[k]) # version(o[m]))
  <2>1. PICK m \in DOMAIN config :
               /\ o[m] \in fits /\ c = Candidate(config[o[m]], version(o[m]))
               /\ \A k \in DOMAIN config : o[k] \in fits =>
                      ~SemverGt(version(o[k]), version(o[m])) /\ (k < m => version(o[k]) # version(o[m]))
    BY <1>10
  <2>2. c.version = version(o[m]) /\ c.repo = config[o[m]].id
    BY <1>3, <1>4, <2>1
  <2>3. want # NoVersion => c.version = want
    BY <1>3, <1>4, <2>2
  <2>4. want = NoVersion => \A i \in fits : ~SemverGt(head(i), c.version)
    <3>1. ASSUME want = NoVersion, NEW i \in fits PROVE ~SemverGt(head(i), c.version)
      <4>1. i \in DOMAIN config /\ version(i) = head(i)
        BY <1>4, <1>5, <3>1
      <4>2. PICK k \in DOMAIN config : o[k] = i
        BY <1>3, <4>1
      <4>3. QED
        BY <2>1, <2>2, <4>1, <4>2
    <3>2. QED
      BY <3>1
  <2>5. has(o[m], c.version)
    BY <1>6, <2>1, <2>2
  <2>6. ASSUME NEW j \in fits, has(j, c.version)
        PROVE  \/ config[o[m]].priority > config[j].priority
               \/ config[o[m]].priority = config[j].priority /\ o[m] <= j
    <3>1. PICK k \in DOMAIN config : o[k] = j
      BY <1>3, <1>5
    <3>2. version(j) = c.version
      BY <1>3, <1>4, <1>5, <2>2, <2>6
    <3>3. ~(k < m)
      BY <2>1, <2>2, <3>1, <3>2
    <3>4. k = m \/ m < k
      BY <1>1, <3>3
    <3>5. CASE k = m
      BY <1>1, <1>3, <3>1, <3>5
    <3>6. CASE m < k
      <4>1. Before(config, o[m], j)
        BY <1>3, <3>1, <3>6
      <4>2. o[m] \in Nat /\ j \in Nat
        <5>1. o[m] \in 1..Len(config) /\ j \in 1..Len(config)
          BY <1>1, <1>3, <3>1
        <5>2. QED
          BY <5>1
      <4>3. QED
        BY <4>1, <4>2 DEF Before
    <3>7. QED
      BY <3>4, <3>5, <3>6
  <2>7. fits # {}
    BY <2>1
  <2>8. QED
    BY <2>1, <2>2, <2>3, <2>4, <2>5, <2>6, <2>7 DEF has, head, fits, c
<1>11. QED
  BY <1>8, <1>9, <1>10

-----------------------------------------------------------------------------
(* The inductive invariant.                                                  *)
Command == [cmd : {"idle", "install", "uninstall", "fetch", "remove", "publish"},
            at : {"", "remove", "create", "download", "lock", "search", "stub", "copy", "read", "write"},
            want : Versions \cup {NoVersion}, found : Versions \cup {NoVersion},
            served : Versions \cup {NoVersion}, seen : SUBSET Versions, ok : BOOLEAN]

TypeOK ==
    /\ config \in Configs
    /\ external \in Dir /\ package \in Dir
    /\ shelf \in [Versions -> {"absent", "part", "all"}] /\ index \in SUBSET Versions
    /\ proc \in [Procs -> Command]
    /\ started \in Nat /\ disturbed \in SUBSET {"external", "package", "shelf"}

\* The phases in which the commands go on; what is published has a version.
PhaseOK(r) ==
    /\ r.cmd = "install" => r.at \in {"remove", "create", "download", "lock"}
    /\ r.cmd = "uninstall" => r.at = "remove"
    /\ r.cmd = "publish" => r.at \in {"remove", "copy", "read", "write"} /\ r.want \in Versions
Phases == \A p \in Procs : PhaseOK(proc[p])

\* The archive a candidate is served from: of its version, or the one the index names.
ServedBy(found, served) == \/ served = found
                           \/ \E r \in ToSet(config) : r.url # NoVersion /\ r.url = served
ServedTruly == \A p \in Procs : proc[p].cmd = "install" => ServedBy(proc[p].found, proc[p].served)

\* An installation nobody disturbs: what it has done so far is what external/ shows.
Installs ==
    /\ \A p, q \in Procs : Works(p, "external") /\ Works(q, "external") => p = q
    /\ \A p \in Procs :
         /\ At(p, "install", "create") => external = Absent
         /\ At(p, "install", "download") => external = Empty
         /\ At(p, "install", "lock") => /\ external.has \in {"all", "part"}
                                        /\ external.version = proc[p].served
                                        /\ external.lock = NoVersion
InstallInv == "external" \notin disturbed => Installs /\ InstalledAsRecorded

\* Publishing that nobody disturbs: of the version at work the files come first,
\* then the index, which is not changed between its reading and its writing.
Publishes ==
    /\ \A p, q \in Procs : Works(p, "shelf") /\ Works(q, "shelf") => p = q
    /\ \A v \in Versions :
         (\A p \in Procs : Works(p, "shelf") => proc[p].at = "remove" \/ proc[p].want # v) =>
         (shelf[v] = "all" => v \in index) /\ (v \in index => shelf[v] # "absent")
    /\ \A p \in Procs :
         /\ Works(p, "shelf") /\ proc[p].at \in {"read", "write"} => shelf[proc[p].want] = "all"
         /\ At(p, "publish", "write") => proc[p].seen = index
PublishInv == "shelf" \notin disturbed => Publishes

PackagesInv == TypeOK /\ Phases /\ ServedTruly /\ InstallInv /\ PublishInv

-----------------------------------------------------------------------------
(* Types and phases.                                                         *)
LEMMA StepSets ==
    ASSUME proc \in [Procs -> Command], NEW p \in Procs, NEW r \in Command, Step(p, r)
    PROVE  /\ proc' \in [Procs -> Command]
           /\ proc'[p] = r /\ \A q \in Procs \ {p} : proc'[q] = proc[q]
BY DEF Step

LEMMA CommandTypes ==
    /\ NoVersion \in Versions \cup {NoVersion}
    /\ Idle \in Command
    /\ \A b \in BOOLEAN : [Idle EXCEPT !.ok = b] \in Command
    /\ Absent \in Dir /\ Empty \in Dir
BY DEF Idle, Command, Dir, Absent, Empty

\* What a process p that works on a command r may become.
LEMMA GotoSets ==
    ASSUME TypeOK, NEW p \in Procs,
           NEW pc \in {"remove", "create", "download", "lock", "search", "stub", "copy", "read", "write"},
           Goto(p, pc)
    PROVE  /\ proc' \in [Procs -> Command]
           /\ proc'[p].at = pc /\ proc'[p].cmd = proc[p].cmd
           /\ proc'[p].want = proc[p].want /\ proc'[p].seen = proc[p].seen
           /\ proc'[p].found = proc[p].found /\ proc'[p].served = proc[p].served
           /\ \A q \in Procs \ {p} : proc'[q] = proc[q]
<1> DEFINE r == [proc[p] EXCEPT !.at = pc]
<1>1. proc[p] \in Command
  BY DEF TypeOK
<1>2. /\ r \in Command /\ r.at = pc /\ r.cmd = proc[p].cmd /\ r.want = proc[p].want
      /\ r.seen = proc[p].seen /\ r.found = proc[p].found /\ r.served = proc[p].served
  BY <1>1 DEF Command
<1>3. Step(p, r)
  BY DEF Goto
<1> HIDE DEF r
<1>4. QED
  BY <1>2, <1>3, StepSets DEF TypeOK

LEMMA EndSets ==
    ASSUME TypeOK, NEW p \in Procs, NEW ok \in BOOLEAN, End(p, ok)
    PROVE  /\ proc' \in [Procs -> Command]
           /\ proc'[p].cmd = "idle" /\ proc'[p].at = ""
           /\ \A q \in Procs \ {p} : proc'[q] = proc[q]
<1>1. [Idle EXCEPT !.ok = ok] \in Command
  BY CommandTypes
<1>2. /\ proc' \in [Procs -> Command] /\ proc'[p] = [Idle EXCEPT !.ok = ok]
      /\ \A q \in Procs \ {p} : proc'[q] = proc[q]
  BY <1>1, StepSets DEF End, TypeOK
<1>3. QED
  BY <1>2 DEF Idle

LEMMA BeginSets ==
    ASSUME TypeOK, NEW d \in {"external", "package", "shelf"}, Begin(d)
    PROVE  /\ config' = config /\ started' \in Nat
           /\ disturbed \subseteq disturbed' /\ disturbed' \in SUBSET {"external", "package", "shelf"}
           /\ d \notin disturbed' => \A q \in Procs : ~Works(q, d)
           /\ \A x \in {"external", "package", "shelf"} :
                x # d => (x \in disturbed' <=> x \in disturbed)
<1> DEFINE busy == \E q \in Procs : Works(q, d)
<1>1. /\ config' = config /\ started' = started + 1
      /\ disturbed' = IF busy THEN disturbed \cup {d} ELSE disturbed
  BY DEF Begin
<1>2. started \in Nat /\ disturbed \in SUBSET {"external", "package", "shelf"}
  BY DEF TypeOK
<1>3. ~busy => \A q \in Procs : ~Works(q, d)
  OBVIOUS
<1> HIDE DEF busy
<1>4. started' \in Nat /\ disturbed \subseteq disturbed' /\ disturbed' \in SUBSET {"external", "package", "shelf"}
  BY <1>1, <1>2
<1>5. d \notin disturbed' => \A q \in Procs : ~Works(q, d)
  BY <1>1, <1>3
<1>6. \A x \in {"external", "package", "shelf"} : x # d => (x \in disturbed' <=> x \in disturbed)
  BY <1>1
<1>7. QED
  BY <1>1, <1>4, <1>5, <1>6

LEMMA ResolveServes ==
    ASSUME VersionsAssumption, ConfigsAssumption, TypeOK,
           NEW want \in Versions \cup {NoVersion}, NEW down
    PROVE  LET c == ResolveCandidate(config, want, down)
           IN c = NoCandidate \/ (/\ c.version \in Versions /\ c.served \in Versions \cup {NoVersion}
                                  /\ ServedBy(c.version, c.served))
<1> DEFINE c == ResolveCandidate(config, want, down)
<1>1. config \in Seq(Repos) /\ DOMAIN config = 1..Len(config)
  BY LenProperties DEF TypeOK, ConfigsAssumption
<1>2. ChoiceOf(config, want, down, Len(config), c)
  BY <1>1, Chosen
<1> HIDE DEF c
<1>3. SUFFICES ASSUME c # NoCandidate
      PROVE  c.version \in Versions /\ c.served \in Versions \cup {NoVersion} /\ ServedBy(c.version, c.served)
  BY DEF c
<1>4. PICK m \in 1..Len(config) : c = Candidate(config[Order(config)[m]], Serves(config[Order(config)[m]], want))
  BY <1>2, <1>3 DEF ChoiceOf
<1> DEFINE i == Order(config)[m]
           r == config[i]
           v == Serves(r, want)
<1>5. i \in DOMAIN config /\ r \in Repos
  BY <1>1, OrderSorts, ElementOfSeq
<1>6. r \in ToSet(config)
  BY <1>5 DEF ToSet
<1>7. v \in Versions /\ r.url \in Versions \cup {NoVersion}
  BY <1>5, RepoFacts DEF Repos
<1> HIDE DEF r, i, v
<1>8. c.version = v /\ c.served = IF r.url = NoVersion THEN v ELSE r.url
  BY <1>4 DEF Candidate, r, i, v
<1>9. QED
  BY <1>6, <1>7, <1>8 DEF ServedBy

\* The commands that work in one directory.
Installers == {"install", "uninstall"}
Fetchers == {"fetch", "remove"}
Publishers == {"publish"}

\* One step of a process p: what becomes of the types and phases.
Typed(p, cmds) ==
    /\ TypeOK' /\ proc'[p].cmd \in {"idle"} \cup cmds
    /\ PhaseOK(proc'[p])
    /\ \A q \in Procs \ {p} : proc'[q] = proc[q]

\* What is left of a directory is one.
LEMMA RemainsAre ==
    ASSUME NEW d \in Dir, NEW e \in Remains(d)
    PROVE  /\ e \in Dir /\ d.has # "absent" /\ e.version = d.version
           /\ e.lock \in {d.lock, NoVersion}
           /\ e.has = (IF d.has = "empty" THEN "empty" ELSE "part")
<1>1. d.has # "absent" /\ \E l \in {d.lock, NoVersion} :
        e = [d EXCEPT !.has = IF @ = "empty" THEN @ ELSE "part", !.lock = l]
  BY DEF Remains
<1>2. QED
  BY <1>1 DEF Dir

\* A process that deletes goes on deleting or gives up.
LEMMA HalfwaySets ==
    ASSUME TypeOK, NEW p \in Procs, Halfway(p)
    PROVE  /\ proc' \in [Procs -> Command]
           /\ proc'[p] = proc[p] \/ (proc'[p].cmd = "idle" /\ proc'[p].at = "")
           /\ \A q \in Procs \ {p} : proc'[q] = proc[q]
<1>1. CASE UNCHANGED proc
  BY <1>1 DEF TypeOK
<1>2. CASE End(p, FALSE)
  BY <1>2, EndSets
<1>3. QED
  BY <1>1, <1>2 DEF Halfway

LEMMA InstallTypes ==
    ASSUME VersionsAssumption, ConfigsAssumption, TypeOK, Phases, NEW p \in Procs,
           \/ \E v \in Versions \cup {NoVersion}, down \in SUBSET {r.id : r \in ToSet(config)} :
                  Install(p, v, down)
           \/ InstallRemove(p) \/ InstallCreate(p)
           \/ \E a \in Archives : InstallDownload(p, a)
           \/ \E w \in BOOLEAN : InstallLock(p, w)
           \/ Uninstall(p) \/ UninstallRemove(p)
    PROVE  Typed(p, Installers)
<1> USE CommandTypes DEF PhaseOK, Installers
<1>1. ASSUME NEW v \in Versions \cup {NoVersion}, NEW down, Install(p, v, down) PROVE Typed(p, Installers)
  <2> DEFINE c == ResolveCandidate(config, v, down)
             r == [Idle EXCEPT !.cmd = "install", !.at = "remove", !.want = v,
                               !.found = c.version, !.served = c.served]
  <2>1. Begin("external") /\ UNCHANGED <<external, package, shelf, index>>
        /\ (End(p, FALSE) \/ (c # NoCandidate /\ Step(p, r)))
    BY <1>1 DEF Install
  <2>2. config' = config /\ started' \in Nat /\ disturbed' \in SUBSET {"external", "package", "shelf"}
    BY <2>1, BeginSets
  <2>3. c # NoCandidate => c.version \in Versions /\ c.served \in Versions \cup {NoVersion}
    BY ResolveServes
  <2> HIDE DEF c
  <2>4. CASE End(p, FALSE)
    BY <2>1, <2>2, <2>4, EndSets DEF Typed, TypeOK
  <2>5. CASE c # NoCandidate /\ Step(p, r)
    <3>1. r \in Command /\ r.cmd = "install" /\ r.at = "remove"
      BY <2>3, <2>5 DEF Idle, Command
    <3> HIDE DEF r
    <3>2. proc' \in [Procs -> Command] /\ proc'[p] = r /\ \A q \in Procs \ {p} : proc'[q] = proc[q]
      BY <2>5, <3>1, StepSets DEF TypeOK
    <3>3. QED
      BY <2>1, <2>2, <3>1, <3>2 DEF Typed, TypeOK
  <2>6. QED
    BY <2>1, <2>4, <2>5
<1>2. ASSUME InstallRemove(p) PROVE Typed(p, Installers)
  <2>1. proc[p].cmd = "install" /\ proc[p].at = "remove"
    BY <1>2 DEF InstallRemove, At
  <2>2. CASE external' = Absent /\ Goto(p, "create")
    <3>1. /\ proc' \in [Procs -> Command] /\ proc'[p].at = "create" /\ proc'[p].cmd = "install"
          /\ \A q \in Procs \ {p} : proc'[q] = proc[q]
      BY <2>1, <2>2, GotoSets
    <3>2. QED
      BY <1>2, <2>2, <3>1 DEF InstallRemove, Still, Typed, TypeOK
  <2>3. CASE external' \in Remains(external) /\ Halfway(p)
    <3>1. external' \in Dir
      BY <2>3, RemainsAre DEF TypeOK
    <3>2. QED
      BY <1>2, <2>1, <2>3, <3>1, HalfwaySets DEF InstallRemove, Still, Typed, TypeOK
  <2>4. QED
    BY <1>2, <2>2, <2>3 DEF InstallRemove
<1>3. ASSUME InstallCreate(p) PROVE Typed(p, Installers)
  <2>1. /\ proc' \in [Procs -> Command] /\ \A q \in Procs \ {p} : proc'[q] = proc[q]
        /\ (proc'[p].at = "download" /\ proc'[p].cmd = "install") \/ proc'[p].cmd = "idle"
    BY <1>3, GotoSets, EndSets DEF InstallCreate, At
  <2>2. external' \in Dir
    BY <1>3 DEF InstallCreate, TypeOK
  <2>3. QED
    BY <1>3, <2>1, <2>2 DEF InstallCreate, Still, Typed, TypeOK
<1>4. ASSUME NEW a \in Archives, InstallDownload(p, a) PROVE Typed(p, Installers)
  <2>1. /\ proc' \in [Procs -> Command] /\ \A q \in Procs \ {p} : proc'[q] = proc[q]
        /\ (proc'[p].at = "lock" /\ proc'[p].cmd = "install") \/ proc'[p].cmd = "idle"
    BY <1>4, GotoSets, EndSets DEF InstallDownload, At
  <2>2. external' \in Dir
    <3>1. proc[p].served \in Versions \cup {NoVersion}
      BY DEF TypeOK, Command
    <3>2. /\ external' = CASE a = "all" -> [external EXCEPT !.has = "all", !.version = proc[p].served]
                     [] a \in {"cut", "errorLate"} ->
                            [external EXCEPT !.has = "part", !.version = proc[p].served]
                     [] a = "error" -> external
      BY <1>4 DEF InstallDownload
    <3>3. QED
      BY <3>1, <3>2 DEF Archives, TypeOK, Dir
  <2>3. QED
    BY <1>4, <2>1, <2>2 DEF InstallDownload, Still, Typed, TypeOK
<1>5. ASSUME NEW w \in BOOLEAN, InstallLock(p, w) PROVE Typed(p, Installers)
  <2>1. /\ proc' \in [Procs -> Command] /\ \A q \in Procs \ {p} : proc'[q] = proc[q]
        /\ proc'[p].cmd = "idle"
    BY <1>5, EndSets DEF InstallLock
  <2>2. external' \in Dir
    BY <1>5 DEF InstallLock, TypeOK, Dir, Command
  <2>3. QED
    BY <1>5, <2>1, <2>2 DEF InstallLock, Still, Typed, TypeOK
<1>6. ASSUME Uninstall(p) PROVE Typed(p, Installers)
  <2> DEFINE r == [Idle EXCEPT !.cmd = "uninstall", !.at = "remove"]
  <2>1. Begin("external") /\ (End(p, FALSE) \/ Step(p, r)) /\ UNCHANGED <<external, package, shelf, index>>
    BY <1>6 DEF Uninstall
  <2>2. config' = config /\ started' \in Nat /\ disturbed' \in SUBSET {"external", "package", "shelf"}
    BY <2>1, BeginSets
  <2>3. r \in Command /\ r.cmd = "uninstall" /\ r.at = "remove"
    BY DEF Idle, Command
  <2> HIDE DEF r
  <2>4. CASE End(p, FALSE)
    BY <2>1, <2>2, <2>4, EndSets DEF Typed, TypeOK
  <2>5. CASE Step(p, r)
    <3>1. proc' \in [Procs -> Command] /\ proc'[p] = r /\ \A q \in Procs \ {p} : proc'[q] = proc[q]
      BY <2>3, <2>5, StepSets DEF TypeOK
    <3>2. QED
      BY <2>1, <2>2, <2>3, <3>1 DEF Typed, TypeOK
  <2>6. QED
    BY <2>1, <2>4, <2>5
<1>7. ASSUME UninstallRemove(p) PROVE Typed(p, Installers)
  <2>1. proc[p].cmd = "uninstall" /\ proc[p].at = "remove"
    BY <1>7 DEF UninstallRemove, At
  <2>2. CASE external' = Absent /\ End(p, TRUE)
    BY <1>7, <2>2, EndSets DEF UninstallRemove, Still, Typed, TypeOK
  <2>3. CASE external' \in Remains(external) /\ Halfway(p)
    <3>1. external' \in Dir
      BY <2>3, RemainsAre DEF TypeOK
    <3>2. QED
      BY <1>7, <2>1, <2>3, <3>1, HalfwaySets DEF UninstallRemove, Still, Typed, TypeOK
  <2>4. QED
    BY <1>7, <2>2, <2>3 DEF UninstallRemove
<1>8. QED
  BY <1>1, <1>2, <1>3, <1>4, <1>5, <1>6, <1>7

LEMMA FetchTypes ==
    ASSUME VersionsAssumption, TypeOK, Phases, NEW p \in Procs,
           \/ \E v \in Versions \cup {NoVersion} : Fetch(p, v)
           \/ FetchCopy(p) \/ FetchRemote(p)
           \/ \E a \in Archives, v \in Versions : FetchDownload(p, a, v)
           \/ FetchStub(p) \/ RemovePackage(p) \/ RemoveFiles(p)
    PROVE  Typed(p, Fetchers)
<1> USE CommandTypes DEF PhaseOK, Fetchers
<1>1. ASSUME NEW v \in Versions \cup {NoVersion}, Fetch(p, v) PROVE Typed(p, Fetchers)
  <2> DEFINE r == [Idle EXCEPT !.cmd = "fetch", !.at = "search", !.want = v]
  <2>1. /\ Begin("package") /\ UNCHANGED <<external, shelf, index>>
        /\ \/ package' = package /\ \E ok \in BOOLEAN : End(p, ok)
           \/ package' = Empty /\ Step(p, r)
    BY <1>1 DEF Fetch
  <2>2. config' = config /\ started' \in Nat /\ disturbed' \in SUBSET {"external", "package", "shelf"}
    BY <2>1, BeginSets
  <2>3. r \in Command /\ r.cmd = "fetch"
    BY DEF Idle, Command
  <2> HIDE DEF r
  <2>4. CASE package' = package /\ \E ok \in BOOLEAN : End(p, ok)
    BY <2>1, <2>2, <2>4, EndSets DEF Typed, TypeOK
  <2>5. CASE package' = Empty /\ Step(p, r)
    <3>1. proc' \in [Procs -> Command] /\ proc'[p] = r /\ \A q \in Procs \ {p} : proc'[q] = proc[q]
      BY <2>3, <2>5, StepSets DEF TypeOK
    <3>2. QED
      BY <2>1, <2>2, <2>3, <2>5, <3>1 DEF Typed, TypeOK
  <2>6. QED
    BY <2>1, <2>4, <2>5
<1>2. ASSUME FetchCopy(p) PROVE Typed(p, Fetchers)
  <2>1. /\ proc' \in [Procs -> Command] /\ \A q \in Procs \ {p} : proc'[q] = proc[q]
        /\ proc'[p].cmd = "idle"
    BY <1>2, EndSets DEF FetchCopy
  <2> DEFINE v == IF Shelved # NoVersion THEN Shelved ELSE proc[p].want
             has == IF Shelved # NoVersion THEN "all" ELSE shelf[proc[p].want]
  <2>2. package' \in {Holds("part", v), Holds(has, v)} /\ OnShelf(proc[p].want)
    BY <1>2 DEF FetchCopy
  <2>3. v \in Versions \cup {NoVersion}
    BY DEF VersionsAssumption, TypeOK, Command, NoVersion
  <2>4. has \in {"absent", "part", "all"}
    BY <2>2 DEF OnShelf, TypeOK
  <2> HIDE DEF v, has
  <2>5. package' \in Dir
    BY <2>2, <2>3, <2>4 DEF Holds, Dir
  <2>6. QED
    BY <1>2, <2>1, <2>5 DEF FetchCopy, Still, Typed, TypeOK
<1>3. ASSUME FetchRemote(p) PROVE Typed(p, Fetchers)
  <2>1. /\ proc' \in [Procs -> Command] /\ \A q \in Procs \ {p} : proc'[q] = proc[q]
        /\ proc'[p].cmd = "fetch"
    BY <1>3, GotoSets DEF FetchRemote, At
  <2>2. package' \in Dir
    <3>1. package' \in {package, Absent, Empty} \/ package' \in Remains(package)
      BY <1>3 DEF FetchRemote
    <3>2. package \in Dir
      BY DEF TypeOK
    <3>3. QED
      BY <3>1, <3>2, RemainsAre
  <2>3. QED
    BY <1>3, <2>1, <2>2 DEF FetchRemote, Still, Typed, TypeOK
<1>4. ASSUME NEW a \in Archives, NEW v \in Versions, FetchDownload(p, a, v) PROVE Typed(p, Fetchers)
  <2>1. /\ proc' \in [Procs -> Command] /\ \A q \in Procs \ {p} : proc'[q] = proc[q]
        /\ proc'[p].cmd \in {"idle", "fetch"}
    BY <1>4, GotoSets, EndSets DEF FetchDownload, At
  <2>2. package' \in Dir
    BY <1>4 DEF FetchDownload, TypeOK, Dir
  <2>3. QED
    BY <1>4, <2>1, <2>2 DEF FetchDownload, Still, Typed, TypeOK
<1>5. ASSUME FetchStub(p) PROVE Typed(p, Fetchers)
  <2>1. /\ proc' \in [Procs -> Command] /\ \A q \in Procs \ {p} : proc'[q] = proc[q]
        /\ proc'[p].cmd = "idle"
    BY <1>5, EndSets DEF FetchStub
  <2>2. package' \in Dir
    <3>1. package' \in {package, Holds("part", proc[p].want), Holds("stub", proc[p].want)}
      BY <1>5 DEF FetchStub
    <3>2. package \in Dir /\ proc[p].want \in Versions \cup {NoVersion}
      BY DEF TypeOK, Command
    <3>3. Holds("part", proc[p].want) \in Dir /\ Holds("stub", proc[p].want) \in Dir
      BY <3>2 DEF Holds, Dir
    <3>4. QED
      BY <3>1, <3>2, <3>3
  <2>3. QED
    BY <1>5, <2>1, <2>2 DEF FetchStub, Still, Typed, TypeOK
<1>6. ASSUME RemovePackage(p) PROVE Typed(p, Fetchers)
  <2> DEFINE r == [Idle EXCEPT !.cmd = "remove", !.at = "remove"]
  <2>1. Begin("package") /\ (End(p, FALSE) \/ Step(p, r)) /\ UNCHANGED <<external, package, shelf, index>>
    BY <1>6 DEF RemovePackage
  <2>2. config' = config /\ started' \in Nat /\ disturbed' \in SUBSET {"external", "package", "shelf"}
    BY <2>1, BeginSets
  <2>3. r \in Command /\ r.cmd = "remove"
    BY DEF Idle, Command
  <2> HIDE DEF r
  <2>4. CASE End(p, FALSE)
    BY <2>1, <2>2, <2>4, EndSets DEF Typed, TypeOK
  <2>5. CASE Step(p, r)
    <3>1. proc' \in [Procs -> Command] /\ proc'[p] = r /\ \A q \in Procs \ {p} : proc'[q] = proc[q]
      BY <2>3, <2>5, StepSets DEF TypeOK
    <3>2. QED
      BY <2>1, <2>2, <2>3, <3>1 DEF Typed, TypeOK
  <2>6. QED
    BY <2>1, <2>4, <2>5
<1>7. ASSUME RemoveFiles(p) PROVE Typed(p, Fetchers)
  <2>1. proc[p].cmd = "remove"
    BY <1>7 DEF RemoveFiles, At
  <2>2. CASE package' = Absent /\ End(p, TRUE)
    BY <1>7, <2>2, EndSets DEF RemoveFiles, Still, Typed, TypeOK
  <2>3. CASE package' \in Remains(package) /\ Halfway(p)
    <3>1. package' \in Dir
      BY <2>3, RemainsAre DEF TypeOK
    <3>2. QED
      BY <1>7, <2>1, <2>3, <3>1, HalfwaySets DEF RemoveFiles, Still, Typed, TypeOK
  <2>4. QED
    BY <1>7, <2>2, <2>3 DEF RemoveFiles
<1>8. QED
  BY <1>1, <1>2, <1>3, <1>4, <1>5, <1>6, <1>7

LEMMA PublishTypes ==
    ASSUME TypeOK, Phases, NEW p \in Procs,
           \/ \E v \in Versions : Publish(p, v)
           \/ PublishRemove(p) \/ PublishCopy(p) \/ PublishRead(p) \/ PublishWrite(p)
           \/ Kill(p)
    PROVE  Typed(p, Publishers)
<1> USE CommandTypes DEF PhaseOK, Publishers
<1>0. /\ disturbed \in SUBSET {"external", "package", "shelf"}
      /\ Unfinished => disturbed' \in SUBSET {"external", "package", "shelf"}
  BY DEF TypeOK, Unfinished
<1>1. ASSUME NEW v \in Versions, Publish(p, v) PROVE Typed(p, Publishers)
  <2> DEFINE r == [Idle EXCEPT !.cmd = "publish", !.at = "remove", !.want = v]
  <2>1. /\ Begin("shelf") /\ UNCHANGED <<external, package, shelf, index>>
        /\ (\E ok \in BOOLEAN : End(p, ok)) \/ Step(p, r)
    BY <1>1 DEF Publish
  <2>2. config' = config /\ started' \in Nat /\ disturbed' \in SUBSET {"external", "package", "shelf"}
    BY <2>1, BeginSets
  <2>3. r \in Command /\ r.cmd = "publish" /\ r.at = "remove" /\ r.want = v
    BY DEF Idle, Command
  <2> HIDE DEF r
  <2>4. CASE \E ok \in BOOLEAN : End(p, ok)
    BY <2>1, <2>2, <2>4, EndSets DEF Typed, TypeOK
  <2>5. CASE Step(p, r)
    <3>1. proc' \in [Procs -> Command] /\ proc'[p] = r /\ \A q \in Procs \ {p} : proc'[q] = proc[q]
      BY <2>3, <2>5, StepSets DEF TypeOK
    <3>2. QED
      BY <2>1, <2>2, <2>3, <3>1 DEF Typed, TypeOK
  <2>6. QED
    BY <2>1, <2>4, <2>5
<1>2. ASSUME PublishRemove(p) \/ PublishCopy(p) PROVE Typed(p, Publishers)
  <2>1. /\ proc[p].cmd = "publish" /\ proc[p].at \in {"remove", "copy"} /\ proc[p].want \in Versions
    BY <1>2 DEF PublishRemove, PublishCopy, At, Phases
  <2>2. \/ Goto(p, "copy") \/ Goto(p, "read") \/ End(p, FALSE) \/ Halfway(p)
    BY <1>2 DEF PublishRemove, PublishCopy
  <2>3. \E has \in {"absent", "part", "all"} :
          shelf' = shelf \/ shelf' = [shelf EXCEPT ![proc[p].want] = has]
    BY <1>2 DEF PublishRemove, PublishCopy
  <2>4. /\ proc' \in [Procs -> Command] /\ \A q \in Procs \ {p} : proc'[q] = proc[q]
        /\ \/ proc'[p].cmd = "idle"
           \/ /\ proc'[p].cmd = "publish" /\ proc'[p].at \in {"remove", "copy", "read"}
              /\ proc'[p].want = proc[p].want
    BY <2>1, <2>2, GotoSets, EndSets, HalfwaySets
  <2>5. shelf' \in [Versions -> {"absent", "part", "all"}]
    BY <2>3 DEF TypeOK
  <2>6. /\ disturbed' \in SUBSET {"external", "package", "shelf"} /\ config' = config /\ started' = started
        /\ external' = external /\ package' = package /\ index' = index
    BY <1>0, <1>2 DEF PublishRemove, PublishCopy, Still
  <2>7. QED
    BY <2>1, <2>4, <2>5, <2>6 DEF Typed, TypeOK
<1>3. ASSUME PublishRead(p) PROVE Typed(p, Publishers)
  <2>1. PICK seen \in SUBSET Versions : Step(p, [proc[p] EXCEPT !.at = "write", !.seen = seen])
    BY <1>3 DEF PublishRead, TypeOK
  <2> DEFINE r == [proc[p] EXCEPT !.at = "write", !.seen = seen]
  <2>2. proc[p] \in Command /\ proc[p].cmd = "publish" /\ proc[p].want \in Versions
    BY <1>3 DEF PublishRead, At, Phases, TypeOK
  <2>3. r \in Command /\ r.cmd = "publish" /\ r.at = "write" /\ r.want \in Versions
    BY <2>2 DEF Command
  <2> HIDE DEF r
  <2>4. proc' \in [Procs -> Command] /\ proc'[p] = r /\ \A q \in Procs \ {p} : proc'[q] = proc[q]
    BY <2>1, <2>3, StepSets DEF TypeOK, r
  <2>5. disturbed' \in SUBSET {"external", "package", "shelf"}
    BY <1>0, <1>3 DEF PublishRead
  <2>6. QED
    BY <1>3, <2>3, <2>4, <2>5 DEF PublishRead, Typed, TypeOK
<1>4. ASSUME PublishWrite(p) PROVE Typed(p, Publishers)
  <2>1. /\ proc' \in [Procs -> Command] /\ \A q \in Procs \ {p} : proc'[q] = proc[q]
        /\ proc'[p].cmd = "idle"
    BY <1>4, EndSets DEF PublishWrite
  <2>2. proc[p].want \in Versions /\ proc[p].seen \in SUBSET Versions
    BY <1>4 DEF PublishWrite, At, Phases, TypeOK, Command
  <2>3. disturbed' \in SUBSET {"external", "package", "shelf"} /\ index' \in SUBSET Versions
    BY <1>0, <1>4, <2>2 DEF PublishWrite, TypeOK
  <2>4. QED
    BY <1>4, <2>1, <2>3 DEF PublishWrite, Typed, TypeOK
<1>5. ASSUME Kill(p) PROVE Typed(p, Publishers)
  <2>1. /\ proc' \in [Procs -> Command] /\ \A q \in Procs \ {p} : proc'[q] = proc[q]
        /\ proc'[p].cmd = "idle"
    BY <1>5, EndSets DEF Kill
  <2>2. index' \in SUBSET Versions /\ disturbed' \in SUBSET {"external", "package", "shelf"}
    BY <1>0, <1>5 DEF Kill, TypeOK
  <2>3. QED
    BY <1>5, <2>1, <2>2 DEF Kill, Typed, TypeOK
<1>6. QED
  BY <1>1, <1>2, <1>3, <1>4, <1>5

\* The actions of one process.
Acts(p) ==
    \/ \E v \in Versions \cup {NoVersion}, down \in SUBSET {r.id : r \in ToSet(config)} :
           Install(p, v, down)
    \/ InstallRemove(p) \/ InstallCreate(p)
    \/ \E a \in Archives : InstallDownload(p, a)
    \/ \E w \in BOOLEAN : InstallLock(p, w)
    \/ Uninstall(p) \/ UninstallRemove(p)
    \/ \E v \in Versions \cup {NoVersion} : Fetch(p, v)
    \/ FetchCopy(p) \/ FetchRemote(p)
    \/ \E a \in Archives, v \in Versions : FetchDownload(p, a, v)
    \/ FetchStub(p) \/ RemovePackage(p) \/ RemoveFiles(p)
    \/ \E v \in Versions : Publish(p, v)
    \/ PublishRemove(p) \/ PublishCopy(p) \/ PublishRead(p) \/ PublishWrite(p)
    \/ Kill(p)

LEMMA NextActs == PackagesNext <=> \E p \in Procs : Acts(p)
BY DEF PackagesNext, Acts

LEMMA ActsTyped ==
    ASSUME VersionsAssumption, ConfigsAssumption, TypeOK, Phases, NEW p \in Procs, Acts(p)
    PROVE  \E cmds \in {Installers, Fetchers, Publishers} : Typed(p, cmds)
<1>1. \/ \/ \E v \in Versions \cup {NoVersion}, down \in SUBSET {r.id : r \in ToSet(config)} :
                  Install(p, v, down)
         \/ InstallRemove(p) \/ InstallCreate(p)
         \/ \E a \in Archives : InstallDownload(p, a)
         \/ \E w \in BOOLEAN : InstallLock(p, w)
         \/ Uninstall(p) \/ UninstallRemove(p)
      \/ \/ \E v \in Versions \cup {NoVersion} : Fetch(p, v)
         \/ FetchCopy(p) \/ FetchRemote(p)
         \/ \E a \in Archives, v \in Versions : FetchDownload(p, a, v)
         \/ FetchStub(p) \/ RemovePackage(p) \/ RemoveFiles(p)
      \/ \/ \E v \in Versions : Publish(p, v)
         \/ PublishRemove(p) \/ PublishCopy(p) \/ PublishRead(p) \/ PublishWrite(p)
         \/ Kill(p)
  BY DEF Acts
<1>2. QED
  BY <1>1, InstallTypes, FetchTypes, PublishTypes

LEMMA TypesNext ==
    ASSUME VersionsAssumption, ConfigsAssumption, TypeOK, Phases, [PackagesNext]_packages
    PROVE  TypeOK' /\ Phases'
<1>1. CASE UNCHANGED packages
  BY <1>1 DEF packages, TypeOK, Phases
<1>2. ASSUME NEW p \in Procs, Acts(p) PROVE TypeOK' /\ Phases'
  <2>1. PICK cmds \in {Installers, Fetchers, Publishers} : Typed(p, cmds)
    BY <1>2, ActsTyped
  <2>2. QED
    BY <2>1 DEF Typed, Phases
<1>3. QED
  BY <1>1, <1>2, NextActs

-----------------------------------------------------------------------------
(* Installing.                                                               *)
LEMMA WorksOn ==
    \A p : /\ Works(p, "external") <=> proc[p].cmd \in Installers
           /\ Works(p, "package") <=> proc[p].cmd \in Fetchers
           /\ Works(p, "shelf") <=> proc[p].cmd = "publish"
BY DEF Works, Installers, Fetchers

\* A step that leaves external/ alone and works there no further.
InstallKept ==
    /\ external' = external /\ config' = config /\ disturbed \subseteq disturbed'
    /\ \A q \in Procs : proc'[q].cmd \in Installers => proc'[q] = proc[q]

LEMMA KeptInstall ==
    ASSUME ServedTruly, InstallInv, InstallKept
    PROVE  ServedTruly' /\ InstallInv'
<1>1. ServedTruly'
  BY DEF InstallKept, ServedTruly, ServedBy, Installers
<1>2. ASSUME "external" \notin disturbed' PROVE Installs' /\ InstalledAsRecorded'
  <2>1. Installs /\ InstalledAsRecorded
    BY <1>2 DEF InstallKept, InstallInv
  <2>2. \A q \in Procs : proc'[q].cmd \in Installers => proc[q].cmd = proc'[q].cmd /\ proc'[q].at = proc[q].at
                                                        /\ proc'[q].served = proc[q].served
    BY DEF InstallKept
  <2>3. Installs'
    BY <2>1, <2>2 DEF InstallKept, Installs, Works, At, Installers
  <2>4. InstalledAsRecorded'
    BY <1>2, <2>1, <2>2 DEF InstallKept, InstalledAsRecorded, Works, Installers
  <2>5. QED
    BY <2>3, <2>4
<1>3. QED
  BY <1>1, <1>2 DEF InstallInv

\* Every other command, and a Kill, is such a step.
LEMMA OthersKeepInstall ==
    ASSUME VersionsAssumption, TypeOK, Phases, NEW p \in Procs,
           \/ \/ \E v \in Versions \cup {NoVersion} : Fetch(p, v)
              \/ FetchCopy(p) \/ FetchRemote(p)
              \/ \E a \in Archives, v \in Versions : FetchDownload(p, a, v)
              \/ FetchStub(p) \/ RemovePackage(p) \/ RemoveFiles(p)
           \/ \/ \E v \in Versions : Publish(p, v)
              \/ PublishRemove(p) \/ PublishCopy(p) \/ PublishRead(p) \/ PublishWrite(p)
              \/ Kill(p)
    PROVE  InstallKept
<1>1. external' = external /\ config' = config /\ disturbed \subseteq disturbed'
  BY DEF Fetch, FetchCopy, FetchRemote, FetchDownload, FetchStub, RemovePackage, RemoveFiles, Publish,
         PublishRemove, PublishCopy, PublishRead, PublishWrite, Kill, Begin, Still, Unfinished
<1>2. \E cmds \in {Fetchers, Publishers} : Typed(p, cmds)
  BY FetchTypes, PublishTypes
<1>3. QED
  BY <1>1, <1>2 DEF InstallKept, Typed, Installers, Fetchers, Publishers

\* After a step in which p is the only one that works in external/, or nobody is.
LEMMA SoleInstaller ==
    ASSUME TypeOK, NEW p \in Procs,
           \A q \in Procs \ {p} : proc'[q] = proc[q] /\ proc[q].cmd \notin Installers,
           At(p, "install", "create")' => external' = Absent,
           At(p, "install", "download")' => external' = Empty,
           At(p, "install", "lock")' => /\ external'.has \in {"all", "part"}
                                        /\ external'.version = proc'[p].served
                                        /\ external'.lock = NoVersion
    PROVE  Installs'
BY DEF Installs, Works, At, Installers

\* While nobody else disturbs it, the process that works there is the only one.
LEMMA OthersIdle ==
    ASSUME Installs, NEW p \in Procs, proc[p].cmd \in Installers
    PROVE  \A q \in Procs \ {p} : proc[q].cmd \notin Installers
BY DEF Installs, Works, Installers

LEMMA InstallBegins ==
    ASSUME VersionsAssumption, ConfigsAssumption, TypeOK, Phases, ServedTruly, InstallInv, NEW p \in Procs,
           \/ \E v \in Versions \cup {NoVersion}, down \in SUBSET {r.id : r \in ToSet(config)} :
                  Install(p, v, down)
           \/ Uninstall(p)
    PROVE  ServedTruly' /\ InstallInv'
<1>1. Begin("external") /\ external' = external
  BY DEF Install, Uninstall
<1>2. /\ config' = config /\ disturbed \subseteq disturbed'
      /\ "external" \notin disturbed' => \A q \in Procs : proc[q].cmd \notin Installers
  BY <1>1, BeginSets, WorksOn
<1>3. \/ End(p, FALSE)
      \/ \E r \in Command : /\ Step(p, r) /\ r.cmd \in Installers /\ r.at = "remove"
                            /\ r.cmd = "install" => ServedBy(r.found, r.served)
  <2>1. ASSUME NEW v \in Versions \cup {NoVersion}, NEW down, Install(p, v, down), ~End(p, FALSE)
        PROVE  \E r \in Command : /\ Step(p, r) /\ r.cmd \in Installers /\ r.at = "remove"
                                  /\ r.cmd = "install" => ServedBy(r.found, r.served)
    <3> DEFINE c == ResolveCandidate(config, v, down)
               r == [Idle EXCEPT !.cmd = "install", !.at = "remove", !.want = v,
                                 !.found = c.version, !.served = c.served]
    <3>1. c # NoCandidate /\ Step(p, r)
      BY <2>1 DEF Install
    <3>2. c = NoCandidate \/ (c.version \in Versions /\ c.served \in Versions \cup {NoVersion}
                              /\ ServedBy(c.version, c.served))
      BY ResolveServes
    <3> HIDE DEF c
    <3>3. r \in Command /\ r.cmd = "install" /\ r.at = "remove" /\ r.found = c.version /\ r.served = c.served
      BY <3>1, <3>2 DEF Idle, Command
    <3> HIDE DEF r
    <3>4. QED
      BY <3>1, <3>2, <3>3 DEF Installers
  <2>2. ASSUME Uninstall(p), ~End(p, FALSE)
        PROVE  \E r \in Command : /\ Step(p, r) /\ r.cmd \in Installers /\ r.at = "remove"
                                  /\ r.cmd = "install" => ServedBy(r.found, r.served)
    <3> DEFINE r == [Idle EXCEPT !.cmd = "uninstall", !.at = "remove"]
    <3>1. Step(p, r)
      BY <2>2 DEF Uninstall
    <3>2. r \in Command /\ r.cmd = "uninstall" /\ r.at = "remove"
      BY DEF Idle, Command
    <3> HIDE DEF r
    <3>3. QED
      BY <3>1, <3>2 DEF Installers
  <2>3. QED
    BY <2>1, <2>2
<1>4. CASE End(p, FALSE)
  <2>1. InstallKept
    BY <1>1, <1>2, <1>4, EndSets DEF InstallKept, Installers
  <2>2. QED
    BY <2>1, KeptInstall
<1>5. ASSUME NEW r \in Command, Step(p, r), r.cmd \in Installers, r.at = "remove",
             r.cmd = "install" => ServedBy(r.found, r.served)
      PROVE  ServedTruly' /\ InstallInv'
  <2>1. proc'[p] = r /\ \A q \in Procs \ {p} : proc'[q] = proc[q]
    BY <1>5, StepSets DEF TypeOK
  <2>2. ServedTruly'
    BY <1>2, <1>5, <2>1 DEF ServedTruly, ServedBy
  <2>3. ASSUME "external" \notin disturbed' PROVE Installs' /\ InstalledAsRecorded'
    <3>1. "external" \notin disturbed /\ \A q \in Procs : proc[q].cmd \notin Installers
      BY <1>2, <2>3
    <3>2. Installs'
      BY <1>5, <2>1, <3>1, SoleInstaller DEF At
    <3>3. InstalledAsRecorded
      BY <3>1 DEF InstallInv
    <3>4. \A q \in Procs : proc'[q].cmd \in Installers => proc'[q].at = "remove"
      BY <1>5, <2>1, <3>1
    <3>5. InstalledAsRecorded'
      BY <1>1, <1>2, <3>1, <3>3, <3>4 DEF InstalledAsRecorded, Works, Installers
    <3>6. QED
      BY <3>2, <3>5
  <2>4. QED
    BY <2>2, <2>3 DEF InstallInv
<1>6. QED
  BY <1>3, <1>4, <1>5

\* What is left of the directory while its files are deleted is of the version
\* in the lock file, if that is still there.
LEMMA RemovalInv ==
    ASSUME VersionsAssumption, TypeOK, Phases, ServedTruly, InstallInv, NEW p \in Procs,
           proc[p].cmd \in Installers, proc[p].at = "remove",
           external' \in Remains(external), Halfway(p), Still
    PROVE  ServedTruly' /\ InstallInv'
<1>1. /\ proc'[p] = proc[p] \/ (proc'[p].cmd = "idle" /\ proc'[p].at = "")
      /\ \A q \in Procs \ {p} : proc'[q] = proc[q]
  BY HalfwaySets
<1>2. config' = config /\ disturbed' = disturbed
  BY DEF Still
<1>3. ServedTruly'
  BY <1>1, <1>2 DEF ServedTruly, ServedBy
<1>4. ASSUME "external" \notin disturbed' PROVE Installs' /\ InstalledAsRecorded'
  <2>1. Installs /\ InstalledAsRecorded /\ \A q \in Procs \ {p} : proc[q].cmd \notin Installers
    BY <1>2, <1>4, OthersIdle DEF InstallInv
  <2>2. Installs'
    BY <1>1, <2>1, SoleInstaller DEF At
  <2>3. /\ external'.version = external.version /\ external'.lock \in {external.lock, NoVersion}
        /\ external'.has = (IF external.has = "empty" THEN "empty" ELSE "part")
    BY RemainsAre DEF TypeOK
  <2>4. \A q \in Procs : proc'[q].cmd \in Installers => proc'[q].at = "remove"
    BY <1>1, <2>1 DEF Installers
  <2>5. InstalledAsRecorded'
    BY <1>2, <1>4, <2>1, <2>3, <2>4 DEF InstalledAsRecorded, Works, Installers
  <2>6. QED
    BY <2>2, <2>5
<1>5. QED
  BY <1>3, <1>4 DEF InstallInv

\* When the directory is gone, an installation goes on and a removal ends.
LEMMA RemovedInv ==
    ASSUME VersionsAssumption, TypeOK, Phases, ServedTruly, InstallInv, NEW p \in Procs,
           proc[p].cmd \in Installers, external' = Absent, Still,
           \/ Goto(p, "create") /\ proc[p].cmd = "install"
           \/ End(p, TRUE)
    PROVE  ServedTruly' /\ InstallInv'
<1>1. /\ \A q \in Procs \ {p} : proc'[q] = proc[q]
      /\ \/ proc'[p].cmd = "idle"
         \/ /\ proc'[p].cmd = "install" /\ proc'[p].at = "create" /\ proc[p].cmd = "install"
            /\ proc'[p].found = proc[p].found /\ proc'[p].served = proc[p].served
  BY GotoSets, EndSets
<1>2. config' = config /\ disturbed' = disturbed /\ external'.lock = NoVersion
  BY DEF Still, Absent
<1>3. ServedTruly'
  BY <1>1, <1>2 DEF ServedTruly, ServedBy
<1>4. ASSUME "external" \notin disturbed PROVE Installs'
  <2>1. \A q \in Procs \ {p} : proc[q].cmd \notin Installers
    BY <1>4, OthersIdle DEF InstallInv
  <2>2. QED
    BY <1>1, <2>1, SoleInstaller DEF At
<1>5. QED
  BY <1>2, <1>3, <1>4 DEF InstallInv, InstalledAsRecorded

LEMMA InstallGoes ==
    ASSUME VersionsAssumption, TypeOK, Phases, ServedTruly, InstallInv, NEW p \in Procs,
           InstallCreate(p) \/ \E a \in Archives : InstallDownload(p, a)
    PROVE  ServedTruly' /\ InstallInv'
<1>1. /\ proc[p].cmd = "install" /\ config' = config /\ disturbed' = disturbed
      /\ \A q \in Procs \ {p} : proc'[q] = proc[q]
      /\ \/ proc'[p].cmd = "idle"
         \/ proc'[p].cmd = "install" /\ proc'[p].found = proc[p].found /\ proc'[p].served = proc[p].served
  BY GotoSets, EndSets DEF InstallCreate, InstallDownload, At, Still
<1>2. ServedTruly'
  BY <1>1 DEF ServedTruly, ServedBy
<1>3. ASSUME "external" \notin disturbed PROVE Installs' /\ external'.lock = NoVersion
  <2>1. Installs /\ \A q \in Procs \ {p} : proc[q].cmd \notin Installers
    BY <1>1, <1>3, OthersIdle DEF InstallInv, Installers
  <2>2. ASSUME InstallCreate(p) PROVE Installs' /\ external'.lock = NoVersion
    <3>1. external = Absent
      BY <2>1, <2>2 DEF InstallCreate, Installs
    <3>2. \/ external' = Empty /\ proc'[p].at = "download"
          \/ external' = Absent /\ proc'[p].cmd = "idle"
      BY <2>2, <3>1, GotoSets, EndSets DEF InstallCreate, Absent
    <3>3. external'.lock = NoVersion
      BY <3>2 DEF Empty, Absent
    <3>4. QED
      BY <1>1, <2>1, <3>2, <3>3, SoleInstaller DEF At
  <2>3. ASSUME NEW a \in Archives, InstallDownload(p, a) PROVE Installs' /\ external'.lock = NoVersion
    <3>1. external = Empty
      BY <2>1, <2>3 DEF InstallDownload, Installs
    <3>2. external'.lock = NoVersion
      BY <2>3, <3>1 DEF InstallDownload, Archives, Empty, Absent
    <3>3. CASE a \in {"all", "cut"}
      <4>1. proc'[p].at = "lock" /\ proc'[p].cmd = "install" /\ proc'[p].served = proc[p].served
        BY <2>3, <3>3, GotoSets DEF InstallDownload, At
      <4>2. external'.has \in {"all", "part"} /\ external'.version = proc[p].served
        BY <2>3, <3>1, <3>3 DEF InstallDownload, Empty, Absent
      <4>3. QED
        BY <1>1, <2>1, <3>2, <4>1, <4>2, SoleInstaller DEF At
    <3>4. CASE a \notin {"all", "cut"}
      <4>1. proc'[p].cmd = "idle"
        BY <2>3, <3>4, EndSets DEF InstallDownload
      <4>2. QED
        BY <1>1, <2>1, <3>2, <4>1, SoleInstaller DEF At
    <3>5. QED
      BY <3>3, <3>4
  <2>4. QED
    BY <2>2, <2>3
<1>4. QED
  BY <1>1, <1>2, <1>3 DEF InstallInv, InstalledAsRecorded

LEMMA InstallEnds ==
    ASSUME VersionsAssumption, TypeOK, Phases, ServedTruly, InstallInv, NEW p \in Procs,
           NEW w \in BOOLEAN, InstallLock(p, w)
    PROVE  ServedTruly' /\ InstallInv'
<1>1. proc'[p].cmd = "idle" /\ \A q \in Procs \ {p} : proc'[q] = proc[q]
  BY EndSets DEF InstallLock
<1>2. config' = config /\ disturbed' = disturbed
  BY DEF InstallLock, Still
<1>3. ServedTruly'
  BY <1>1, <1>2 DEF ServedTruly, ServedBy
<1>4. ASSUME "external" \notin disturbed' PROVE Installs' /\ InstalledAsRecorded'
  <2>1. Installs /\ At(p, "install", "lock")
    BY <1>2, <1>4 DEF InstallInv, InstallLock
  <2>2. \A q \in Procs \ {p} : proc[q].cmd \notin Installers
    BY <2>1, OthersIdle DEF At, Installers
  <2>3. Installs'
    BY <1>1, <2>2, SoleInstaller DEF At
  <2>4. /\ external'.has \in {"all", "part"} /\ external'.version = proc[p].served
        /\ external'.lock \in {NoVersion, proc[p].found}
    <3>1. external.has \in {"all", "part"} /\ external.version = proc[p].served /\ external.lock = NoVersion
      BY <2>1 DEF Installs
    <3>2. external' = [external EXCEPT !.lock = proc[p].found] \/ external' = external
      BY DEF InstallLock
    <3>3. QED
      BY <3>1, <3>2 DEF TypeOK, Dir
  <2>5. ServedBy(proc[p].found, proc[p].served)
    BY <2>1 DEF At, ServedTruly
  <2>6. \A q \in Procs : proc'[q].cmd \notin Installers
    BY <1>1, <2>2 DEF Installers
  <2>7. InstalledAsRecorded'
    BY <1>2, <2>4, <2>5, <2>6 DEF InstalledAsRecorded, ServedBy, Works, Installers
  <2>8. QED
    BY <2>3, <2>7
<1>5. QED
  BY <1>3, <1>4 DEF InstallInv

-----------------------------------------------------------------------------
(* Publishing.                                                               *)

\* A step that leaves the shelf, the index and those who publish alone.
PublishKept ==
    /\ shelf' = shelf /\ index' = index /\ disturbed \subseteq disturbed'
    /\ \A q \in Procs : (proc[q].cmd = "publish" \/ proc'[q].cmd = "publish") => proc'[q] = proc[q]

LEMMA KeptPublish == ASSUME PublishInv, PublishKept PROVE PublishInv'
<1>1. ASSUME "shelf" \notin disturbed' PROVE Publishes'
  <2>1. Publishes
    BY <1>1 DEF PublishKept, PublishInv
  <2>2. \A q \in Procs : /\ (proc'[q].cmd = "publish") <=> (proc[q].cmd = "publish")
                         /\ proc[q].cmd = "publish" => proc'[q] = proc[q]
    BY DEF PublishKept
  <2>3. QED
    BY <2>1, <2>2 DEF PublishKept, Publishes, Works, At
<1>2. QED
  BY <1>1 DEF PublishInv

\* The commands of the other directories are such steps.
LEMMA OthersKeepPublish ==
    ASSUME VersionsAssumption, ConfigsAssumption, TypeOK, Phases, NEW p \in Procs,
           \/ \/ \E v \in Versions \cup {NoVersion}, down \in SUBSET {r.id : r \in ToSet(config)} :
                     Install(p, v, down)
              \/ InstallRemove(p) \/ InstallCreate(p)
              \/ \E a \in Archives : InstallDownload(p, a)
              \/ \E w \in BOOLEAN : InstallLock(p, w)
              \/ Uninstall(p) \/ UninstallRemove(p)
           \/ \/ \E v \in Versions \cup {NoVersion} : Fetch(p, v)
              \/ FetchCopy(p) \/ FetchRemote(p)
              \/ \E a \in Archives, v \in Versions : FetchDownload(p, a, v)
              \/ FetchStub(p) \/ RemovePackage(p) \/ RemoveFiles(p)
    PROVE  PublishKept
<1>1. shelf' = shelf /\ index' = index /\ disturbed \subseteq disturbed'
  BY DEF Install, InstallRemove, InstallCreate, InstallDownload, InstallLock, Uninstall, UninstallRemove,
         Fetch, FetchCopy, FetchRemote, FetchDownload, FetchStub, RemovePackage, RemoveFiles, Begin, Still
<1>2. proc[p].cmd # "publish"
  BY DEF Install, InstallRemove, InstallCreate, InstallDownload, InstallLock, Uninstall, UninstallRemove,
         Fetch, FetchCopy, FetchRemote, FetchDownload, FetchStub, RemovePackage, RemoveFiles, Running, At
<1>3. \E cmds \in {Installers, Fetchers} : Typed(p, cmds)
  BY InstallTypes, FetchTypes
<1>4. QED
  BY <1>1, <1>2, <1>3 DEF PublishKept, Typed, Installers, Fetchers

LEMMA KillKeepsPublish ==
    ASSUME TypeOK, Phases, PublishInv, NEW p \in Procs, Kill(p)
    PROVE  PublishInv'
<1>1. CASE proc[p].cmd = "publish"
  BY <1>1 DEF Kill, PublishInv, Unfinished
<1>2. CASE proc[p].cmd # "publish"
  <2>1. shelf' = shelf /\ index' = index /\ disturbed' = disturbed
    BY <1>2 DEF Kill, At
  <2>2. proc'[p].cmd = "idle" /\ \A q \in Procs \ {p} : proc'[q] = proc[q]
    BY EndSets DEF Kill
  <2>3. PublishKept
    BY <1>2, <2>1, <2>2 DEF PublishKept
  <2>4. QED
    BY <2>3, KeptPublish
<1>3. QED
  BY <1>1, <1>2

\* While nobody else disturbs it, the process that publishes is the only one.
LEMMA OthersPublishNot ==
    ASSUME Publishes, NEW p \in Procs, proc[p].cmd = "publish"
    PROVE  \A q \in Procs \ {p} : proc[q].cmd # "publish"
BY DEF Publishes, Works

\* What index.json and the shelf say of one version.
Lists(v, shelved, listed) == (shelved[v] = "all" => v \in listed) /\ (v \in listed => shelved[v] # "absent")

\* After a step in which p is the only one that publishes, or nobody is.
LEMMA SolePublisher ==
    ASSUME NEW p \in Procs,
           \A q \in Procs \ {p} : proc'[q] = proc[q] /\ proc[q].cmd # "publish",
           \A v \in Versions : \/ proc'[p].cmd = "publish" /\ proc'[p].at # "remove" /\ proc'[p].want = v
                               \/ Lists(v, shelf', index'),
           proc'[p].cmd = "publish" /\ proc'[p].at \in {"read", "write"} => shelf'[proc'[p].want] = "all",
           proc'[p].cmd = "publish" /\ proc'[p].at = "write" => proc'[p].seen = index'
    PROVE  Publishes'
<1>1. \A q \in Procs : proc'[q].cmd = "publish" => q = p
  OBVIOUS
<1>2. \A v \in Versions : (\A q \in Procs : Works(q, "shelf")' => proc'[q].at = "remove" \/ proc'[q].want # v)
                          => Lists(v, shelf', index')
  BY DEF Works
<1>3. QED
  BY <1>1, <1>2 DEF Publishes, Works, At, Lists

LEMMA PublishBegins ==
    ASSUME TypeOK, PublishInv, NEW p \in Procs, NEW v \in Versions, Publish(p, v)
    PROVE  PublishInv'
<1> DEFINE r == [Idle EXCEPT !.cmd = "publish", !.at = "remove", !.want = v]
<1>1. SUFFICES ASSUME "shelf" \notin disturbed' PROVE Publishes'
  BY DEF PublishInv
<1>2. /\ Begin("shelf") /\ shelf' = shelf /\ index' = index
      /\ (\E ok \in BOOLEAN : End(p, ok)) \/ Step(p, r)
  BY DEF Publish
<1>3. "shelf" \notin disturbed /\ \A q \in Procs : proc[q].cmd # "publish"
  BY <1>1, <1>2, BeginSets, WorksOn
<1>4. r \in Command /\ r.cmd = "publish" /\ r.at = "remove" /\ r.want = v
  BY DEF Idle, Command
<1> HIDE DEF r
<1>5. /\ \A q \in Procs \ {p} : proc'[q] = proc[q]
      /\ proc'[p].cmd = "idle" \/ (proc'[p].cmd = "publish" /\ proc'[p].at = "remove")
  BY <1>2, <1>4, StepSets, EndSets DEF TypeOK
<1>6. \A u \in Versions : Lists(u, shelf', index')
  BY <1>2, <1>3 DEF PublishInv, Publishes, Lists, Works
<1>7. QED
  BY <1>3, <1>5, <1>6, SolePublisher

LEMMA PublishGoes ==
    ASSUME TypeOK, Phases, PublishInv, NEW p \in Procs,
           PublishRemove(p) \/ PublishCopy(p) \/ PublishRead(p) \/ PublishWrite(p)
    PROVE  PublishInv'
<1>1. SUFFICES ASSUME "shelf" \notin disturbed' PROVE Publishes'
  BY DEF PublishInv
<1>2. disturbed' = disturbed /\ proc[p].cmd = "publish"
  BY <1>1 DEF PublishRemove, PublishCopy, PublishRead, PublishWrite, Still, At, Unfinished
<1>3. Publishes /\ \A q \in Procs \ {p} : proc[q].cmd # "publish"
  BY <1>1, <1>2, OthersPublishNot DEF PublishInv
<1> DEFINE w == proc[p].want
<1>4. w \in Versions /\ \A q \in Procs \ {p} : proc'[q] = proc[q]
  BY <1>2, PublishTypes DEF Phases, PhaseOK, Typed
<1>5. /\ \A v \in Versions \ {w} : Lists(v, shelf, index)
      /\ proc[p].at = "remove" => Lists(w, shelf, index)
  BY <1>3, <1>4 DEF Publishes, Lists, Works
\* What Halfway leaves of the command and of the version it is about.
<1>6. ASSUME Halfway(p), shelf' = [shelf EXCEPT ![w] = "part"], index' = index, proc[p].at \in {"remove", "copy"},
             proc[p].at = "remove" => shelf[w] # "absent"
      PROVE  Publishes'
  <2>1. proc'[p] = proc[p] \/ (proc'[p].cmd = "idle" /\ proc'[p].at = "")
    BY <1>6, HalfwaySets
  <2>2. shelf'[w] = "part" /\ \A v \in Versions \ {w} : shelf'[v] = shelf[v]
    BY <1>4, <1>6 DEF TypeOK
  <2>3. \A v \in Versions : Lists(v, shelf', index')
    BY <1>4, <1>5, <1>6, <2>2 DEF Lists
  <2>4. QED
    BY <1>3, <1>4, <1>6, <2>1, <2>3, SolePublisher
<1>7. CASE PublishRemove(p)
  <2>1. CASE shelf' = [shelf EXCEPT ![w] = "absent"] /\ Goto(p, "copy")
    <3>1. proc'[p].at = "copy" /\ proc'[p].cmd = "publish" /\ proc'[p].want = w
      BY <1>2, <2>1, GotoSets
    <3>2. \A v \in Versions \ {w} : Lists(v, shelf', index')
      BY <1>5, <1>7, <2>1 DEF PublishRemove, Lists, TypeOK
    <3>3. QED
      BY <1>3, <1>4, <3>1, <3>2, SolePublisher
  <2>2. CASE shelf[w] # "absent" /\ shelf' = [shelf EXCEPT ![w] = "part"] /\ Halfway(p)
    BY <1>6, <1>7, <2>2 DEF PublishRemove, At
  <2>3. QED
    BY <1>7, <2>1, <2>2 DEF PublishRemove
<1>8. CASE PublishCopy(p)
  <2>1. CASE shelf' = [shelf EXCEPT ![w] = "all"] /\ Goto(p, "read")
    <3>1. proc'[p].at = "read" /\ proc'[p].cmd = "publish" /\ proc'[p].want = w
      BY <1>2, <2>1, GotoSets
    <3>2. shelf'[w] = "all" /\ \A v \in Versions \ {w} : Lists(v, shelf', index')
      BY <1>4, <1>5, <1>8, <2>1 DEF PublishCopy, Lists, TypeOK
    <3>3. QED
      BY <1>3, <1>4, <3>1, <3>2, SolePublisher
  <2>2. CASE shelf' = [shelf EXCEPT ![w] = "part"] /\ Halfway(p)
    BY <1>6, <1>8, <2>2 DEF PublishCopy, At
  <2>3. QED
    BY <1>1, <1>8, <2>1, <2>2 DEF PublishCopy, Unfinished
<1>9. CASE PublishRead(p)
  <2>1. Step(p, [proc[p] EXCEPT !.at = "write", !.seen = index])
    BY <1>1, <1>9 DEF PublishRead, Unfinished
  <2> DEFINE r == [proc[p] EXCEPT !.at = "write", !.seen = index]
  <2>2. /\ r \in Command /\ r.cmd = "publish" /\ r.at = "write" /\ r.want = w /\ r.seen = index
    <3>1. proc[p] \in Command /\ index \in SUBSET Versions
      BY DEF TypeOK
    <3>2. QED
      BY <1>2, <3>1 DEF Command
  <2> HIDE DEF r
  <2>3. proc'[p] = r
    BY <2>1, <2>2, StepSets DEF TypeOK, r
  <2>4. shelf' = shelf /\ index' = index /\ shelf[w] = "all"
    BY <1>3, <1>9 DEF PublishRead, Publishes, Works, At
  <2>5. QED
    BY <1>3, <1>4, <1>5, <2>2, <2>3, <2>4, SolePublisher
<1>10. CASE PublishWrite(p)
  <2>1. End(p, TRUE) /\ index' = proc[p].seen \cup {w}
    BY <1>1, <1>10 DEF PublishWrite, Unfinished
  <2>2. proc'[p].cmd = "idle"
    BY <2>1, EndSets
  <2>3. index' = index \cup {w} /\ shelf' = shelf /\ shelf[w] = "all"
    BY <1>3, <1>10, <2>1 DEF PublishWrite, Publishes, Works, At
  <2>4. \A v \in Versions : Lists(v, shelf', index')
    BY <1>5, <2>3 DEF Lists
  <2>5. QED
    BY <1>3, <1>4, <2>2, <2>4, SolePublisher
<1>11. QED
  BY <1>7, <1>8, <1>9, <1>10

-----------------------------------------------------------------------------
LEMMA InvInit == ASSUME VersionsAssumption, PackagesInit PROVE PackagesInv
<1>1. \A p \in Procs : proc[p] = Idle /\ proc[p].cmd = "idle"
  BY DEF PackagesInit, Idle
<1>2. external = Absent /\ external.lock = NoVersion
  BY DEF PackagesInit, Absent
<1>3. TypeOK
  BY CommandTypes DEF PackagesInit, TypeOK
<1>4. Phases /\ ServedTruly
  BY <1>1 DEF Phases, PhaseOK, ServedTruly
<1>5. Installs
  BY <1>1 DEF Installs, Works, At
<1>6. InstalledAsRecorded
  BY <1>2 DEF InstalledAsRecorded
<1>7. Publishes
  BY <1>1 DEF PackagesInit, Publishes, Works, At
<1>8. QED
  BY <1>3, <1>4, <1>5, <1>6, <1>7 DEF PackagesInv, InstallInv, PublishInv

LEMMA InvNext ==
    ASSUME VersionsAssumption, ConfigsAssumption, PackagesInv, [PackagesNext]_packages
    PROVE  PackagesInv'
<1> USE DEF PackagesInv
<1>1. TypeOK' /\ Phases'
  BY TypesNext
<1>2. CASE UNCHANGED packages
  <2>1. InstallKept /\ PublishKept
    BY <1>2 DEF packages, InstallKept, PublishKept
  <2>2. QED
    BY <1>1, <2>1, KeptInstall, KeptPublish
<1>3. ASSUME NEW p \in Procs, Acts(p) PROVE ServedTruly' /\ InstallInv' /\ PublishInv'
  <2>1. CASE \/ \E v \in Versions \cup {NoVersion}, down \in SUBSET {r.id : r \in ToSet(config)} :
                    Install(p, v, down)
             \/ Uninstall(p)
    BY <2>1, InstallBegins, OthersKeepPublish, KeptPublish
  <2>2. CASE InstallRemove(p) \/ UninstallRemove(p)
    <3>1. PublishInv'
      BY <2>2, OthersKeepPublish, KeptPublish
    <3>2. proc[p].cmd \in Installers /\ proc[p].at = "remove" /\ Still
      BY <2>2 DEF InstallRemove, UninstallRemove, At, Installers
    <3>3. \/ external' \in Remains(external) /\ Halfway(p)
          \/ /\ external' = Absent
             /\ (Goto(p, "create") /\ proc[p].cmd = "install") \/ End(p, TRUE)
      BY <2>2 DEF InstallRemove, UninstallRemove, At
    <3>4. QED
      BY <3>1, <3>2, <3>3, RemovalInv, RemovedInv
  <2>3. CASE InstallCreate(p) \/ \E a \in Archives : InstallDownload(p, a)
    BY <2>3, InstallGoes, OthersKeepPublish, KeptPublish
  <2>4. CASE \E w \in BOOLEAN : InstallLock(p, w)
    BY <2>4, InstallEnds, OthersKeepPublish, KeptPublish
  <2>5. CASE \/ \E v \in Versions \cup {NoVersion} : Fetch(p, v)
             \/ FetchCopy(p) \/ FetchRemote(p)
             \/ \E a \in Archives, v \in Versions : FetchDownload(p, a, v)
             \/ FetchStub(p) \/ RemovePackage(p) \/ RemoveFiles(p)
    BY <2>5, OthersKeepInstall, KeptInstall, OthersKeepPublish, KeptPublish
  <2>6. CASE \E v \in Versions : Publish(p, v)
    BY <2>6, OthersKeepInstall, KeptInstall, PublishBegins
  <2>7. CASE PublishRemove(p) \/ PublishCopy(p) \/ PublishRead(p) \/ PublishWrite(p)
    BY <2>7, OthersKeepInstall, KeptInstall, PublishGoes
  <2>8. CASE Kill(p)
    BY <2>8, OthersKeepInstall, KeptInstall, KillKeepsPublish
  <2>9. QED
    BY <1>3, <2>1, <2>2, <2>3, <2>4, <2>5, <2>6, <2>7, <2>8 DEF Acts
<1>4. QED
  BY <1>1, <1>2, <1>3, NextActs

(* The inductive invariant: in which phase a command is tells what its        *)
(* directory holds, as long as no second command works in that directory.     *)
THEOREM PackagesInvariant ==
    ASSUME VersionsAssumption, ConfigsAssumption
    PROVE  PackagesSpec => []PackagesInv
<1>1. PackagesInit => PackagesInv
  BY InvInit
<1>2. PackagesInv /\ [PackagesNext]_packages => PackagesInv'
  BY InvNext
<1>3. QED
  BY <1>1, <1>2, PTL DEF PackagesSpec

(* The resolver follows the version resolution rules for every list of        *)
(* repositories; a lock file speaks of what is in its directory, whatever step *)
(* failed or was cut off, and nobody unpacks into it, unless two commands met  *)
(* there; and index.json lists what is on the shelf, unless two publishers met *)
(* or one was killed, or failed to make the directory or to read or write the  *)
(* index.                                                                      *)
THEOREM RecordsAreTrue ==
    ASSUME VersionsAssumption, ConfigsAssumption
    PROVE  PackagesSpec => []PackagesTellTheTruth
<1>1. PackagesInv => PackagesTellTheTruth
  <2>1. SUFFICES ASSUME PackagesInv PROVE PackagesTellTheTruth
    OBVIOUS
  <2>2. ResolvedIsNewest
    BY <2>1, NewestChosen DEF PackagesInv, TypeOK, ConfigsAssumption
  <2>3. InstalledAsRecorded
    BY <2>1 DEF PackagesInv, InstallInv, InstalledAsRecorded
  <2>4. ASSUME ~Busy("shelf"), "shelf" \notin disturbed
        PROVE  \A v \in Versions : Lists(v, shelf, index)
    BY <2>1, <2>4 DEF PackagesInv, PublishInv, Publishes, Busy, Lists
  <2>5. index \subseteq Versions
    BY <2>1 DEF PackagesInv, TypeOK
  <2>6. IndexListsPublished
    BY <2>4, <2>5 DEF IndexListsPublished, Lists
  <2>7. QED
    BY <2>2, <2>3, <2>6 DEF PackagesTellTheTruth
<1>2. QED
  BY <1>1, PackagesInvariant, PTL
=============================================================================
