---------------------------- MODULE LinkerProofs ----------------------------
(***************************************************************************)
(* What the linker does to the contributions of the objects, for every set *)
(* of link jobs and every page size: no word that an object brings is lost *)
(* or covered by another one's, and the loaded sections share no address.  *)
(***************************************************************************)
EXTENDS Linker, FiniteSetTheorems, FunctionTheorems, SequenceTheorems, WellFoundedInduction, TLAPS

-----------------------------------------------------------------------------
(* Numbers and sequences.                                                    *)

\* A non-empty set of numbers has a least one.
LEMMA Least ==
    ASSUME NEW T \in SUBSET Nat, T # {}
    PROVE  \E x \in T : \A y \in T : x <= y
<1> DEFINE R == {ss \in Nat \X Nat : ss[1] < ss[2]}
<1>1. OpToRel(<, Nat) = R
  BY DEF OpToRel
<1>2. IsWellFoundedOn(R, Nat)
  BY <1>1, NatLessThanWellFounded, Zenon
<1> HIDE DEF R
<1>3. PICK x \in T : \A y \in T : ~(<<y, x>> \in R)
  BY <1>2, WFMin
<1>4. ASSUME NEW y \in T, y < x PROVE <<y, x>> \in R
  BY <1>4 DEF R
<1>5. \A y \in T : ~(y < x)
  BY <1>3, <1>4
<1>6. \A y \in T : x <= y
  BY <1>5
<1>7. QED
  BY <1>6

\* Rounding up never goes down, and leaves 0 where it is.
LEMMA AlignUpGoesUp ==
    ASSUME NEW v \in Nat, NEW a \in Nat
    PROVE  AlignUp(v, a) \in Nat /\ AlignUp(v, a) >= v /\ AlignUp(0, a) = 0
<1>1. CASE a = 0
  BY <1>1 DEF AlignUp
<1>2. CASE a # 0
  <2>1. a \in Nat \ {0} /\ v + a - 1 \in Nat /\ 0 + a - 1 \in Nat
    BY <1>2
  <2> DEFINE q == (v + a - 1) \div a
             z == (0 + a - 1) \div a
  <2>2. q \in Nat /\ v + a - 1 = a * q + ((v + a - 1) % a) /\ (v + a - 1) % a \in 0..(a - 1)
    BY <2>1
  <2>3. z = 0
    BY <2>1
  <2>4. AlignUp(v, a) = q * a /\ AlignUp(0, a) = z * a
    BY <1>2 DEF AlignUp
  <2> HIDE DEF q, z
  <2>5. q * a \in Nat /\ q * a = a * q
    BY <2>1, <2>2
  <2>6. q * a >= v
    BY <2>1, <2>2, <2>5
  <2>7. z * a = 0
    BY <2>1, <2>3
  <2>8. QED
    BY <2>4, <2>5, <2>6, <2>7
<1>3. QED
  BY <1>1, <1>2

IsSeq(s) == s \in Seq({s[k] : k \in DOMAIN s})

\* A sequence over any set is one over its own elements.
LEMMA SeqIs ==
    ASSUME NEW S, NEW s \in Seq(S)
    PROVE  IsSeq(s)
<1>1. Len(s) \in Nat /\ s \in [1..Len(s) -> S] /\ DOMAIN s = 1..Len(s)
  BY LenProperties
<1> DEFINE R == {s[k] : k \in DOMAIN s}
<1>2. s \in [1..Len(s) -> R]
  BY <1>1
<1> HIDE DEF R
<1>3. s \in Seq(R)
  BY <1>1, <1>2, SeqDef
<1>4. QED
  BY <1>3 DEF IsSeq, R

\* The domain of a sequence.
LEMMA SeqHas ==
    ASSUME NEW s, IsSeq(s)
    PROVE  Len(s) \in Nat /\ DOMAIN s = 1..Len(s) /\ (Len(s) = 0 <=> s = <<>>)
<1> DEFINE R == {s[k] : k \in DOMAIN s}
<1>1. s \in Seq(R)
  BY DEF IsSeq
<1> HIDE DEF R
<1>2. Len(s) \in Nat /\ DOMAIN s = 1..Len(s)
  BY <1>1, LenProperties
<1>3. Len(s) = 0 <=> s = <<>>
  BY <1>1, <1>2, EmptySeq
<1>4. QED
  BY <1>2, <1>3

\* A function on 1..n is a sequence of length n.
LEMMA SeqMade ==
    ASSUME NEW n \in Nat, NEW s, s = [k \in 1..n |-> s[k]]
    PROVE  IsSeq(s) /\ Len(s) = n /\ DOMAIN s = 1..n
<1> DEFINE R == {s[k] : k \in DOMAIN s}
<1>1. DOMAIN s = 1..n
  OBVIOUS
<1>2. s \in [1..n -> R]
  BY <1>1
<1> HIDE DEF R
<1>3. s \in Seq(R)
  BY <1>2, SeqDef
<1>4. Len(s) \in Nat /\ DOMAIN s = 1..Len(s)
  BY <1>3, LenProperties
<1>5. Len(s) = n
  BY <1>1, <1>4
<1>6. QED
  BY <1>1, <1>3, <1>5 DEF IsSeq, R

\* Two sequences, one behind the other.
LEMMA SeqJoined ==
    ASSUME NEW s, NEW t, IsSeq(s), IsSeq(t)
    PROVE  /\ IsSeq(s \o t) /\ Len(s \o t) = Len(s) + Len(t)
           /\ \A k \in 1..Len(s) : (s \o t)[k] = s[k]
           /\ \A k \in 1..Len(t) : (s \o t)[Len(s) + k] = t[k]
<1> DEFINE R == {s[k] : k \in DOMAIN s}
           Q == {t[k] : k \in DOMAIN t}
           U == R \cup Q
<1>1. s \in Seq(R) /\ t \in Seq(Q)
  BY DEF IsSeq
<1>2. R \subseteq U /\ Q \subseteq U
  OBVIOUS
<1> HIDE DEF R, Q, U
<1>3. s \in Seq(U) /\ t \in Seq(U)
  BY <1>1, <1>2, SeqMonotonic
<1>4. /\ s \o t \in Seq(U)
      /\ Len(s \o t) = Len(s) + Len(t)
      /\ \A i \in 1 .. Len(s) + Len(t) : (s \o t)[i] = IF i <= Len(s) THEN s[i] ELSE t[i - Len(s)]
  BY <1>3, ConcatProperties
<1>5. IsSeq(s \o t)
  BY <1>4, SeqIs
<1>6. Len(s) \in Nat /\ Len(t) \in Nat
  BY <1>3, LenProperties
<1>7. \A k \in 1..Len(s) : (s \o t)[k] = s[k]
  BY <1>4, <1>6
<1>8. ASSUME NEW k \in 1..Len(t) PROVE (s \o t)[Len(s) + k] = t[k]
  <2>1. Len(s) + k \in 1 .. Len(s) + Len(t) /\ ~(Len(s) + k <= Len(s)) /\ Len(s) + k - Len(s) = k
    BY <1>6
  <2>2. QED
    BY <1>4, <2>1
<1>9. QED
  BY <1>4, <1>5, <1>7, <1>8

\* One element more.
LEMMA SeqGrown ==
    ASSUME NEW s, IsSeq(s), NEW x
    PROVE  /\ IsSeq(Append(s, x)) /\ Len(Append(s, x)) = Len(s) + 1
           /\ \A k \in 1..Len(s) : Append(s, x)[k] = s[k]
           /\ Append(s, x)[Len(s) + 1] = x
<1> DEFINE R == {s[k] : k \in DOMAIN s}
           U == R \cup {x}
<1>1. s \in Seq(R)
  BY DEF IsSeq
<1>2. R \subseteq U /\ x \in U
  OBVIOUS
<1> HIDE DEF R, U
<1>3. s \in Seq(U)
  BY <1>1, <1>2, SeqMonotonic
<1>4. /\ Append(s, x) \in Seq(U) /\ Len(Append(s, x)) = Len(s) + 1
      /\ \A i \in 1..Len(s) : Append(s, x)[i] = s[i]
      /\ Append(s, x)[Len(s) + 1] = x
  BY <1>2, <1>3, AppendProperties
<1>5. IsSeq(Append(s, x))
  BY <1>4, SeqIs
<1>6. QED
  BY <1>4, <1>5

\* Padding is a sequence of its length.
LEMMA SeqOfZeros ==
    ASSUME NEW n \in Nat
    PROVE  IsSeq(Zeros(n)) /\ Len(Zeros(n)) = n
<1>1. Zeros(n) = [k \in 1..n |-> Zeros(n)[k]]
  BY DEF Zeros
<1>2. QED
  BY <1>1, SeqMade

-----------------------------------------------------------------------------
(* One section is put into the merged ones.                                  *)

Fields == {"name", "kind", "data", "align", "size"}
IsSec(t) == DOMAIN t = Fields /\ IsSeq(t.data) /\ t.align \in Nat /\ t.size \in Nat
\* The merged sections: each name once.
Tidy(secs) ==
    /\ IsSeq(secs)
    /\ \A i \in DOMAIN secs : IsSec(secs[i])
    /\ \A i, j \in DOMAIN secs : secs[i].name = secs[j].name => i = j
\* A section that an object brings: with all of its words, or none.
IsBrought(s) == IsSec(s) /\ (s.data = <<>> \/ Len(s.data) = s.size)

\* The larger of two numbers is one of them, and not below either.
LEMMA LargerIs ==
    ASSUME NEW a \in Nat, NEW b \in Nat
    PROVE  LargerOf(a, b) \in Nat /\ LargerOf(a, b) >= a /\ LargerOf(a, b) >= b
BY DEF LargerOf

\* The section that merge() finds has the name, and if it finds none no section has it.
LEMMA FoundByName ==
    ASSUME NEW secs, IsSeq(secs), NEW s, NEW d, d = SelectInSeq(secs, LAMBDA t : t.name = s.name)
    PROVE  \/ d = 0 /\ \A i \in DOMAIN secs : secs[i].name # s.name
           \/ d \in DOMAIN secs /\ secs[d].name = s.name
<1> DEFINE I == {i \in 1..Len(secs) : secs[i].name = s.name}
<1>1. d = IF I # {} THEN Min(I) ELSE 0
  BY DEF SelectInSeq
<1>2. DOMAIN secs = 1..Len(secs) /\ Len(secs) \in Nat
  BY SeqHas
<1>3. CASE I = {}
  BY <1>1, <1>2, <1>3
<1>4. CASE I # {}
  <2>1. I \subseteq Nat
    BY <1>2
  <2> HIDE DEF I
  <2>2. \E i \in I : \A j \in I : i <= j
    BY <1>4, <2>1, Least
  <2>3. Min(I) \in I
    BY <2>2 DEF Min
  <2>4. d \in I
    BY <1>1, <1>4, <2>3
  <2>5. QED
    BY <1>2, <2>4 DEF I
<1>5. QED
  BY <1>3, <1>4

\* Where s was put, and what it brought, in secs.
Fits(secs, p, s) ==
    /\ p.sec \in DOMAIN secs /\ p.off \in Nat
    /\ secs[p.sec].name = s.name
    /\ p.off + Len(s.data) <= Len(secs[p.sec].data)
Holds(secs, p, s) ==
    /\ Fits(secs, p, s)
    /\ \A k \in DOMAIN s.data : secs[p.sec].data[p.off + k] = s.data[k]
\* What is in secs is in later, at the same place.
Grown(secs, later) ==
    \A i \in DOMAIN secs :
        /\ i \in DOMAIN later /\ later[i].name = secs[i].name
        /\ Len(secs[i].data) <= Len(later[i].data)
        /\ \A k \in DOMAIN secs[i].data : later[i].data[k] = secs[i].data[k]

PutWell(secs, s, later, p) ==
    /\ Tidy(later) /\ Grown(secs, later) /\ Holds(later, p, s)
    /\ \A i \in DOMAIN later : i \notin DOMAIN secs => i = p.sec
    /\ \A i \in DOMAIN secs : i # p.sec => later[i] = secs[i]
    /\ p.sec \in DOMAIN secs => Len(secs[p.sec].data) <= p.off
    /\ s.data = <<>> /\ (p.sec \in DOMAIN secs => Len(secs[p.sec].data) = 0)
         => p.off = 0 /\ Len(later[p.sec].data) = 0

\* A section whose name is new.
LEMMA PutNew ==
    ASSUME NEW secs, Tidy(secs), NEW s, IsBrought(s),
           \A i \in DOMAIN secs : secs[i].name # s.name,
           NEW t, t = [s EXCEPT !.size = LargerOf(s.size, Len(s.data))],
           NEW later, later = Append(secs, t),
           NEW p, p = [sec |-> Len(secs) + 1, off |-> 0]
    PROVE  PutWell(secs, s, later, p)
<1>1. Len(secs) \in Nat /\ DOMAIN secs = 1..Len(secs)
  BY SeqHas DEF Tidy
<1>2. DOMAIN s = Fields /\ IsSeq(s.data) /\ s.align \in Nat /\ s.size \in Nat
  BY DEF IsBrought, IsSec
<1>3. Len(s.data) \in Nat /\ DOMAIN s.data = 1..Len(s.data) /\ (Len(s.data) = 0 <=> s.data = <<>>)
  BY <1>2, SeqHas
<1>4. /\ DOMAIN t = Fields /\ t.data = s.data /\ t.align = s.align /\ t.name = s.name
      /\ t.size = LargerOf(s.size, Len(s.data))
  BY <1>2 DEF Fields
<1>5. IsSec(t)
  BY <1>2, <1>3, <1>4, LargerIs DEF IsSec
<1>6. /\ IsSeq(later) /\ Len(later) = Len(secs) + 1
      /\ \A k \in 1..Len(secs) : later[k] = secs[k]
      /\ later[Len(secs) + 1] = t
  BY SeqGrown DEF Tidy
<1>7. DOMAIN later = 1..(Len(secs) + 1)
  BY <1>6, SeqHas
<1>8. \A i \in DOMAIN later : i = Len(secs) + 1 \/ i \in DOMAIN secs
  BY <1>1, <1>7
<1>9. Tidy(later)
  <2>1. \A i \in DOMAIN later : IsSec(later[i])
    BY <1>1, <1>5, <1>6, <1>8 DEF Tidy
  <2>2. ASSUME NEW i \in DOMAIN later, NEW j \in DOMAIN later, later[i].name = later[j].name
        PROVE  i = j
    BY <1>1, <1>4, <1>6, <1>8, <2>2 DEF Tidy
  <2>3. QED
    BY <1>6, <2>1, <2>2 DEF Tidy
<1>10. Grown(secs, later)
  <2>1. ASSUME NEW i \in DOMAIN secs PROVE i \in DOMAIN later /\ later[i] = secs[i] /\ Len(secs[i].data) \in Nat
    BY <1>1, <1>6, <1>7, SeqHas DEF Tidy, IsSec
  <2>2. QED
    BY <2>1 DEF Grown
<1>11. p.sec = Len(secs) + 1 /\ p.off = 0 /\ p.sec \in DOMAIN later /\ p.sec \notin DOMAIN secs
  BY <1>1, <1>7
<1>12. Holds(later, p, s)
  BY <1>3, <1>4, <1>6, <1>11 DEF Holds, Fits
<1>13. QED
  BY <1>1, <1>3, <1>4, <1>6, <1>8, <1>9, <1>10, <1>11, <1>12 DEF PutWell

\* The words in front, the padding, and the words that come behind.
Padding(old, z, words, data) ==
    /\ IsSeq(data) /\ Len(data) = Len(old) + Len(z) + Len(words)
    /\ \A k \in DOMAIN old : data[k] = old[k]
    /\ \A k \in DOMAIN words : data[Len(old) + Len(z) + k] = words[k]

\* Padding keeps the words in front, and those behind it follow.
LEMMA Padded ==
    ASSUME NEW old, IsSeq(old), NEW words, IsSeq(words), NEW z, IsSeq(z)
    PROVE  Padding(old, z, words, old \o z \o words)
<1>1. /\ Len(old) \in Nat /\ DOMAIN old = 1..Len(old) /\ Len(words) \in Nat
      /\ DOMAIN words = 1..Len(words) /\ Len(z) \in Nat
  BY SeqHas
<1> DEFINE front == old \o z
<1>2. /\ IsSeq(front) /\ Len(front) = Len(old) + Len(z)
      /\ \A k \in 1..Len(old) : front[k] = old[k]
  BY SeqJoined
<1> HIDE DEF front
<1>3. /\ IsSeq(front \o words) /\ Len(front \o words) = Len(front) + Len(words)
      /\ \A k \in 1..Len(front) : (front \o words)[k] = front[k]
      /\ \A k \in 1..Len(words) : (front \o words)[Len(front) + k] = words[k]
  BY <1>2, SeqJoined
<1>4. \A k \in DOMAIN old : (front \o words)[k] = old[k]
  BY <1>1, <1>2, <1>3
<1>5. QED
  BY <1>1, <1>2, <1>3, <1>4 DEF front, Padding

\* A section whose name is there already: its words come behind those that are there.
LEMMA PutBehind ==
    ASSUME NEW secs, Tidy(secs), NEW s, IsBrought(s), NEW d \in DOMAIN secs, secs[d].name = s.name,
           NEW later, IsSeq(later), DOMAIN later = DOMAIN secs,
           \A i \in DOMAIN secs : i # d => later[i] = secs[i],
           IsSec(later[d]), later[d].name = s.name,
           NEW off \in Nat, Len(secs[d].data) <= off, Len(secs[d].data) = 0 => off = 0,
           Len(later[d].data) = off + Len(s.data),
           \A k \in DOMAIN secs[d].data : later[d].data[k] = secs[d].data[k],
           \A k \in DOMAIN s.data : later[d].data[off + k] = s.data[k],
           NEW p, p.sec = d, p.off = off
    PROVE  PutWell(secs, s, later, p)
<1>1. Len(s.data) \in Nat /\ (Len(s.data) = 0 <=> s.data = <<>>)
  BY SeqHas DEF IsBrought, IsSec
<1>2. Len(secs[d].data) \in Nat
  BY SeqHas DEF Tidy, IsSec
<1>3. \A i \in DOMAIN later : IsSec(later[i]) /\ later[i].name = secs[i].name
  BY DEF Tidy
<1>4. Tidy(later)
  BY <1>3 DEF Tidy
<1>5. \A i \in DOMAIN secs : Len(secs[i].data) \in Nat
  BY SeqHas DEF Tidy, IsSec
<1>6. Len(secs[d].data) <= Len(later[d].data)
  BY <1>1, <1>2
<1>7. Grown(secs, later)
  BY <1>3, <1>5, <1>6 DEF Grown
<1>8. Holds(later, p, s)
  BY <1>1 DEF Holds, Fits
<1>9. s.data = <<>> /\ Len(secs[d].data) = 0 => off = 0 /\ Len(later[d].data) = 0
  BY <1>1
<1>10. QED
  BY <1>4, <1>7, <1>8, <1>9 DEF PutWell

\* What merge() does with one section, either way.
LEMMA PutOne ==
    ASSUME NEW secs, Tidy(secs), NEW s, IsBrought(s)
    PROVE  PutWell(secs, s, PutSection(secs, s).secs, PutSection(secs, s).at)
<1> DEFINE d == SelectInSeq(secs, LAMBDA t : t.name = s.name)
<1>1. \/ d = 0 /\ \A i \in DOMAIN secs : secs[i].name # s.name
      \/ d \in DOMAIN secs /\ secs[d].name = s.name
  BY FoundByName DEF Tidy
<1>2. CASE d = 0 /\ \A i \in DOMAIN secs : secs[i].name # s.name
  <2> DEFINE t == [s EXCEPT !.size = LargerOf(s.size, Len(s.data))]
             later == Append(secs, t)
             p == [sec |-> Len(secs) + 1, off |-> 0]
  <2>1. PutSection(secs, s) = [secs |-> later, at |-> p]
    BY <1>2 DEF PutSection
  <2>2. PutWell(secs, s, later, p)
    BY <1>2, PutNew
  <2> HIDE DEF later, p
  <2>3. QED
    BY <2>1, <2>2
<1>3. CASE d \in DOMAIN secs /\ secs[d].name = s.name
  <2> DEFINE align == LargerOf(secs[d].align, s.align)
             off == AlignUp(Len(secs[d].data), align)
             z == Zeros(off - Len(secs[d].data))
             data == secs[d].data \o z \o s.data
             size == IF s.kind = "bss" THEN LargerOf(secs[d].size, off + s.size) ELSE Len(data)
             t == [secs[d] EXCEPT !.data = data, !.size = size, !.align = align]
             later == [secs EXCEPT ![d] = t]
             p == [sec |-> d, off |-> off]
  <2>1. DOMAIN secs = 1..Len(secs) /\ Len(secs) \in Nat
    BY SeqHas DEF Tidy
  <2>2. PutSection(secs, s) = [secs |-> later, at |-> p]
    <3>1. d # 0
      <4> HIDE DEF d
      <4>1. QED
        BY <1>3, <2>1
    <3>2. QED
      BY <3>1 DEF PutSection
  <2> HIDE DEF d
  <2>3. /\ IsSeq(s.data) /\ s.align \in Nat /\ s.size \in Nat
        /\ IsSec(secs[d]) /\ IsSeq(secs[d].data) /\ secs[d].align \in Nat /\ secs[d].size \in Nat
        /\ DOMAIN secs[d] = Fields
    BY <1>3 DEF Tidy, IsBrought, IsSec
  <2>4. align \in Nat
    BY <2>3, LargerIs
  <2> HIDE DEF align
  <2>5. /\ off \in Nat /\ Len(secs[d].data) <= off /\ (Len(secs[d].data) = 0 => off = 0)
        /\ IsSeq(data) /\ Len(data) = off + Len(s.data)
        /\ \A k \in DOMAIN secs[d].data : data[k] = secs[d].data[k]
        /\ \A k \in DOMAIN s.data : data[off + k] = s.data[k]
    <3> DEFINE old == secs[d].data
               words == s.data
    <3>1. IsSeq(old) /\ IsSeq(words) /\ Len(old) \in Nat
      BY <2>3, SeqHas
    <3>2. off \in Nat /\ Len(old) <= off /\ (Len(old) = 0 => off = 0)
      BY <2>4, <3>1, AlignUpGoesUp
    <3>3. IsSeq(z) /\ Len(z) = off - Len(old)
      <4>1. z = Zeros(off - Len(old))
        OBVIOUS
      <4> HIDE DEF off, z, old
      <4>2. off - Len(old) \in Nat
        BY <3>1, <3>2
      <4>3. QED
        BY <4>1, <4>2, SeqOfZeros
    <3> HIDE DEF z, off, old, words
    <3>4. Len(old) + Len(z) = off
      BY <3>1, <3>2, <3>3
    <3>5. Padding(old, z, words, old \o z \o words)
      BY <3>1, <3>3, Padded
    <3>6. data = old \o z \o words
      BY DEF old, words
    <3> HIDE DEF data
    <3>7. QED
      BY <3>2, <3>4, <3>5, <3>6 DEF old, words, Padding
  <2> HIDE DEF z, data, off
  <2>6. size \in Nat
    <3>1. Len(data) \in Nat
      BY <2>5, SeqHas
    <3>2. off + s.size \in Nat
      BY <2>3, <2>5
    <3>3. QED
      BY <2>3, <3>1, <3>2, LargerIs
  <2> HIDE DEF size
  <2>7. DOMAIN t = Fields /\ t.data = data /\ t.align = align /\ t.name = secs[d].name /\ t.size = size
    BY <2>3 DEF Fields
  <2> HIDE DEF t
  <2>8. IsSec(t)
    BY <2>4, <2>5, <2>6, <2>7 DEF IsSec
  <2>9. /\ DOMAIN later = DOMAIN secs /\ later[d] = t
        /\ \A i \in DOMAIN secs : i # d => later[i] = secs[i]
        /\ later = [k \in 1..Len(secs) |-> later[k]]
    BY <1>3, <2>1
  <2> HIDE DEF later
  <2>10. IsSeq(later)
    BY <2>1, <2>9, SeqMade
  <2>11. p.sec = d /\ p.off = off
    OBVIOUS
  <2> HIDE DEF p
  <2>12. PutWell(secs, s, later, p)
    BY <1>3, <2>5, <2>7, <2>8, <2>9, <2>10, <2>11, PutBehind
  <2>13. QED
    BY <2>2, <2>12
<1>4. QED
  BY <1>1, <1>2, <1>3

-----------------------------------------------------------------------------
(* The sections of one object.                                               *)

\* `put' is defined by the loop: what is merged after k sections follows from
\* what was merged after k - 1.
LEMMA PutRuns ==
    ASSUME NEW secs, NEW sections, Len(sections) \in Nat
    PROVE  \E put :
              /\ put[0] = [secs |-> secs, at |-> <<>>]
              /\ \A k \in 1..Len(sections) :
                    LET p == PutSection(put[k - 1].secs, sections[k])
                    IN put[k] = [secs |-> p.secs, at |-> Append(put[k - 1].at, p.at)]
              /\ PutSections(secs, sections) = put[Len(sections)]
<1> DEFINE N == Len(sections)
           Start == [secs |-> secs, at |-> <<>>]
           Turn(b, k) == LET p == PutSection(b.secs, sections[k])
                         IN [secs |-> p.secs, at |-> Append(b.at, p.at)]
           Run(g, n) == [k \in 0..n |-> IF k = 0 THEN Start ELSE Turn(g[k - 1], k)]
<1>1. PutSections(secs, sections) = (CHOOSE g : g = Run(g, N))[N]
  BY DEF PutSections
<1> HIDE DEF Turn, Start
<1>2. \A n \in Nat : \E g : g = Run(g, n)
  <2> DEFINE T == {n \in Nat : ~\E g : g = Run(g, n)}
  <2>1. SUFFICES ASSUME T # {} PROVE FALSE
    OBVIOUS
  <2>2. PICK m \in T : \A n \in T : m <= n
    BY <2>1, Least
  <2>3. m \in Nat /\ ~\E g : g = Run(g, m)
    OBVIOUS
  <2>4. CASE m = 0
    <3> DEFINE g == [k \in 0..0 |-> Start]
    <3>1. g = Run(g, 0)
      OBVIOUS
    <3>2. QED
      BY <2>3, <2>4, <3>1
  <2>5. CASE m # 0
    <3>1. m - 1 \in Nat /\ ~(m <= m - 1)
      BY <2>3, <2>5
    <3>2. m - 1 \notin T
      BY <2>2, <3>1
    <3>3. PICK g : g = Run(g, m - 1)
      BY <3>1, <3>2
    <3> DEFINE h == [k \in 0..m |-> IF k = m THEN Turn(g[m - 1], m) ELSE g[k]]
    <3>4. ASSUME NEW k \in 0..m
          PROVE  h[k] = IF k = 0 THEN Start ELSE Turn(h[k - 1], k)
      <4>1. CASE k = 0
        BY <2>3, <2>5, <3>3, <4>1
      <4>2. CASE k = m
        <5>1. m - 1 \in 0..m /\ m - 1 # m
          BY <2>3, <3>1
        <5>2. h[m - 1] = g[m - 1]
          BY <5>1
        <5>3. QED
          BY <2>5, <4>2, <5>2
      <4>3. CASE k # 0 /\ k # m
        <5>1. k \in 0..(m - 1) /\ k - 1 \in 0..m /\ k - 1 # m
          BY <2>3, <4>3
        <5>2. h[k] = g[k] /\ h[k - 1] = g[k - 1]
          BY <4>3, <5>1
        <5>3. g[k] = Turn(g[k - 1], k)
          BY <3>3, <4>3, <5>1
        <5>4. QED
          BY <4>3, <5>2, <5>3
      <4>4. QED
        BY <4>1, <4>2, <4>3
    <3>5. h = [k \in 0..m |-> h[k]]
      OBVIOUS
    <3> HIDE DEF h
    <3>6. h = Run(h, m)
      BY <3>4, <3>5
    <3>7. QED
      BY <2>3, <3>6
  <2>6. QED
    BY <2>4, <2>5
<1> DEFINE put == CHOOSE g : g = Run(g, N)
<1>3. put = Run(put, N)
  BY <1>2
<1> HIDE DEF put
<1>4. 0 \in 0..N /\ \A k \in 1..N : k \in 0..N /\ k # 0
  OBVIOUS
<1>5. put[0] = Start /\ \A k \in 1..N : put[k] = Turn(put[k - 1], k)
  BY <1>3, <1>4
<1>6. QED
  BY <1>1, <1>5 DEF Turn, Start, put

\* The objects to link: sequences of sections that bring all or nothing.
AreObjects(objs) ==
    /\ IsSeq(objs)
    /\ \A i \in DOMAIN objs :
          /\ IsSeq(objs[i].sections)
          /\ \A a \in DOMAIN objs[i].sections : IsBrought(objs[i].sections[a])

InPlace(objs, secs, pl) ==
    \A i \in DOMAIN pl : \A a \in DOMAIN pl[i] :
        /\ i \in DOMAIN objs /\ a \in DOMAIN objs[i].sections
        /\ Holds(secs, pl[i][a], objs[i].sections[a])
\* What is put into a section later lies behind what was there.
InOrder(objs, pl) ==
    \A i, j \in DOMAIN pl : \A a \in DOMAIN pl[i], b \in DOMAIN pl[j] :
        Precedes(<<i, a>>, <<j, b>>) /\ pl[i][a].sec = pl[j][b].sec =>
            pl[i][a].off + Len(objs[i].sections[a].data) <= pl[j][b].off
Merging(objs, secs, pl) ==
    /\ Tidy(secs) /\ InPlace(objs, secs, pl) /\ InOrder(objs, pl)

\* more is pl and, behind all of it, the place p of section b of object j.
OneMore(pl, j, b, p, more) ==
    \A i \in DOMAIN more : \A a \in DOMAIN more[i] :
        \/ i = j /\ a = b /\ more[i][a] = p
        \/ /\ i \in DOMAIN pl /\ a \in DOMAIN pl[i] /\ more[i][a] = pl[i][a]
           /\ i \in Nat /\ a \in Nat /\ Precedes(<<i, a>>, <<j, b>>)

\* The order in which contributions are put is a strict one.
LEMMA PrecedesIs ==
    ASSUME NEW i \in Nat, NEW a \in Nat, NEW j \in Nat, NEW b \in Nat
    PROVE  /\ Precedes(<<i, a>>, <<j, b>>) <=> i < j \/ (i = j /\ a < b)
           /\ ~(Precedes(<<i, a>>, <<j, b>>) /\ Precedes(<<j, b>>, <<i, a>>))
           /\ ~Precedes(<<i, a>>, <<i, a>>)
BY DEF Precedes

\* One contribution more, at a place that PutWell allows.
LEMMA MergeOne ==
    ASSUME NEW objs, AreObjects(objs), NEW secs, NEW pl, Merging(objs, secs, pl),
           NEW j \in DOMAIN objs, NEW b \in DOMAIN objs[j].sections,
           NEW later, NEW p, PutWell(secs, objs[j].sections[b], later, p),
           NEW more, OneMore(pl, j, b, p, more)
    PROVE  Merging(objs, later, more)
<1> DEFINE s == objs[j].sections[b]
<1>1. j \in Nat /\ b \in Nat
  BY SeqHas DEF AreObjects
<1>2. /\ Tidy(later) /\ Grown(secs, later) /\ Holds(later, p, s)
      /\ \A i \in DOMAIN later : i \notin DOMAIN secs => i = p.sec
      /\ \A i \in DOMAIN secs : i # p.sec => later[i] = secs[i]
      /\ p.sec \in DOMAIN secs => Len(secs[p.sec].data) <= p.off
      /\ s.data = <<>> /\ (p.sec \in DOMAIN secs => Len(secs[p.sec].data) = 0)
           => p.off = 0 /\ Len(later[p.sec].data) = 0
  BY DEF PutWell
<1>3. p.sec \in DOMAIN later /\ later[p.sec].name = s.name /\ p.off \in Nat
  BY <1>2 DEF Holds, Fits
<1>4. \A x \in DOMAIN secs : x \in DOMAIN later /\ later[x].name = secs[x].name
  BY <1>2 DEF Grown
<1>5. \A x \in DOMAIN secs : Len(secs[x].data) \in Nat /\ DOMAIN secs[x].data = 1..Len(secs[x].data)
  BY SeqHas DEF Merging, Tidy, IsSec
<1>6. \A x \in DOMAIN later : Len(later[x].data) \in Nat
  BY <1>2, SeqHas DEF Tidy, IsSec
<1>7. \A i \in DOMAIN objs : \A a \in DOMAIN objs[i].sections :
         /\ Len(objs[i].sections[a].data) \in Nat
         /\ DOMAIN objs[i].sections[a].data = 1..Len(objs[i].sections[a].data)
  BY SeqHas DEF AreObjects, IsBrought, IsSec
\* What was held before is held now.
<1>8. ASSUME NEW q, NEW i \in DOMAIN objs, NEW a \in DOMAIN objs[i].sections,
             Holds(secs, q, objs[i].sections[a])
      PROVE  Holds(later, q, objs[i].sections[a])
  <2> DEFINE t == objs[i].sections[a]
  <2>1. /\ q.sec \in DOMAIN secs /\ q.off \in Nat /\ secs[q.sec].name = t.name
        /\ q.off + Len(t.data) <= Len(secs[q.sec].data)
        /\ \A k \in DOMAIN t.data : secs[q.sec].data[q.off + k] = t.data[k]
    BY <1>8 DEF Holds, Fits
  <2>2. Len(t.data) \in Nat /\ DOMAIN t.data = 1..Len(t.data)
    BY <1>7
  <2> HIDE DEF t
  <2>3. Len(secs[q.sec].data) <= Len(later[q.sec].data) /\ q.sec \in DOMAIN later
        /\ later[q.sec].name = secs[q.sec].name
    BY <1>2, <2>1 DEF Grown
  <2>4. q.off + Len(t.data) <= Len(later[q.sec].data)
    BY <1>5, <1>6, <2>1, <2>2, <2>3
  <2>5. ASSUME NEW k \in DOMAIN t.data PROVE later[q.sec].data[q.off + k] = t.data[k]
    <3>1. q.off + k \in DOMAIN secs[q.sec].data
      BY <1>5, <2>1, <2>2
    <3>2. later[q.sec].data[q.off + k] = secs[q.sec].data[q.off + k]
      BY <1>2, <2>1, <3>1 DEF Grown
    <3>3. QED
      BY <2>1, <3>2
  <2>6. Holds(later, q, t)
    BY <2>1, <2>3, <2>4, <2>5 DEF Holds, Fits
  <2>7. QED
    BY <2>6 DEF t
<1> HIDE DEF s
<1>9. InPlace(objs, later, more)
  <2>1. ASSUME NEW i \in DOMAIN more, NEW a \in DOMAIN more[i]
        PROVE  /\ i \in DOMAIN objs /\ a \in DOMAIN objs[i].sections
               /\ Holds(later, more[i][a], objs[i].sections[a])
    <3>1. CASE i = j /\ a = b /\ more[i][a] = p
      BY <1>2, <3>1 DEF s
    <3>2. CASE i \in DOMAIN pl /\ a \in DOMAIN pl[i] /\ more[i][a] = pl[i][a]
      <4>1. /\ i \in DOMAIN objs /\ a \in DOMAIN objs[i].sections
            /\ Holds(secs, pl[i][a], objs[i].sections[a])
        BY <3>2 DEF Merging, InPlace
      <4>2. QED
        BY <1>8, <3>2, <4>1
    <3>3. QED
      BY <3>1, <3>2 DEF OneMore
  <2>2. QED
    BY <2>1 DEF InPlace
<1>10. InOrder(objs, more)
  <2>1. ASSUME NEW i \in DOMAIN more, NEW l \in DOMAIN more, NEW a \in DOMAIN more[i], NEW c \in DOMAIN more[l],
               Precedes(<<i, a>>, <<l, c>>), more[i][a].sec = more[l][c].sec
        PROVE  more[i][a].off + Len(objs[i].sections[a].data) <= more[l][c].off
    <3> DEFINE New(x, y) == x = j /\ y = b /\ more[x][y] = p
               Old(x, y) == /\ x \in DOMAIN pl /\ y \in DOMAIN pl[x] /\ more[x][y] = pl[x][y]
                            /\ x \in Nat /\ y \in Nat /\ Precedes(<<x, y>>, <<j, b>>)
    <3>1. (New(i, a) \/ Old(i, a)) /\ (New(l, c) \/ Old(l, c))
      BY DEF OneMore
    <3>2. CASE Old(i, a) /\ Old(l, c)
      <4>1. pl[i][a].sec = pl[l][c].sec
        BY <2>1, <3>2
      <4>2. pl[i][a].off + Len(objs[i].sections[a].data) <= pl[l][c].off
        BY <2>1, <3>2, <4>1 DEF Merging, InOrder
      <4>3. QED
        BY <3>2, <4>2
    <3>3. CASE Old(i, a) /\ New(l, c)
      <4>1. /\ i \in DOMAIN objs /\ a \in DOMAIN objs[i].sections
            /\ Holds(secs, pl[i][a], objs[i].sections[a])
        BY <3>3 DEF Merging, InPlace
      <4>2. /\ pl[i][a].sec \in DOMAIN secs /\ pl[i][a].off \in Nat
            /\ pl[i][a].off + Len(objs[i].sections[a].data) <= Len(secs[pl[i][a].sec].data)
        BY <4>1 DEF Holds, Fits
      <4>3. more[i][a] = pl[i][a] /\ more[l][c] = p /\ pl[i][a].sec = p.sec
        BY <2>1, <3>3
      <4>4. Len(secs[p.sec].data) <= p.off
        BY <1>2, <4>2, <4>3
      <4>5. pl[i][a].off + Len(objs[i].sections[a].data) <= p.off
        BY <1>3, <1>5, <1>7, <4>1, <4>2, <4>3, <4>4
      <4>6. QED
        BY <4>3, <4>5
    <3>4. CASE New(i, a) /\ Old(l, c)
      BY <1>1, <2>1, <3>4, PrecedesIs
    <3>5. CASE New(i, a) /\ New(l, c)
      BY <1>1, <2>1, <3>5, PrecedesIs
    <3>6. QED
      BY <3>1, <3>2, <3>3, <3>4, <3>5
  <2>2. QED
    BY <2>1 DEF InOrder
<1>11. QED
  BY <1>2, <1>9, <1>10 DEF Merging

\* An object without sections so far adds nothing.
LEMMA MergeNone ==
    ASSUME NEW objs, NEW secs, NEW pl, Merging(objs, secs, pl), IsSeq(pl),
           NEW more, more = Append(pl, <<>>)
    PROVE  Merging(objs, secs, more)
<1>1. /\ IsSeq(more) /\ Len(more) = Len(pl) + 1
      /\ \A i \in 1..Len(pl) : more[i] = pl[i]
      /\ more[Len(pl) + 1] = <<>>
  BY SeqGrown
<1>2. DOMAIN more = 1..(Len(pl) + 1) /\ DOMAIN pl = 1..Len(pl) /\ Len(pl) \in Nat
  BY <1>1, SeqHas
<1>3. \A i \in DOMAIN more : \A a \in DOMAIN more[i] : i \in DOMAIN pl /\ more[i] = pl[i]
  <2>1. ASSUME NEW i \in DOMAIN more, NEW a \in DOMAIN more[i] PROVE i \in DOMAIN pl /\ more[i] = pl[i]
    <3>1. i = Len(pl) + 1 \/ i \in 1..Len(pl)
      BY <1>2
    <3>2. i # Len(pl) + 1
      <4>1. ASSUME NEW x \in DOMAIN <<>> PROVE FALSE
        OBVIOUS
      <4>2. QED
        BY <1>1, <4>1
    <3>3. QED
      BY <1>1, <1>2, <3>1, <3>2
  <2>2. QED
    BY <2>1
<1>4. InPlace(objs, secs, more)
  BY <1>3 DEF Merging, InPlace
<1>5. InOrder(objs, more)
  BY <1>3 DEF Merging, InOrder
<1>6. QED
  BY <1>4, <1>5 DEF Merging

\* One turn of the loop.
LEMMA MergeTurn ==
    ASSUME NEW objs, AreObjects(objs), NEW pl, IsSeq(pl), Len(pl) < Len(objs),
           NEW j, j = Len(pl) + 1,
           NEW k \in DOMAIN objs[j].sections,
           NEW secs, NEW at, IsSeq(at), Len(at) = k - 1, Merging(objs, secs, Append(pl, at)),
           NEW p, p = PutSection(secs, objs[j].sections[k])
    PROVE  /\ Merging(objs, p.secs, Append(pl, Append(at, p.at)))
           /\ IsSeq(Append(at, p.at)) /\ Len(Append(at, p.at)) = k
<1>1. Len(pl) \in Nat /\ Len(objs) \in Nat /\ DOMAIN objs = 1..Len(objs) /\ DOMAIN pl = 1..Len(pl)
  BY SeqHas DEF AreObjects
<1>2. j \in DOMAIN objs /\ j \in Nat
  BY <1>1
<1>3. k \in Nat /\ k # 0
  BY <1>2, SeqHas DEF AreObjects
<1>4. PutWell(secs, objs[j].sections[k], p.secs, p.at)
  BY <1>2, PutOne DEF AreObjects, Merging
<1> DEFINE put == Append(at, p.at)
           old == Append(pl, at)
           more == Append(pl, put)
<1>5. /\ IsSeq(put) /\ Len(put) = k /\ DOMAIN put = 1..k /\ DOMAIN at = 1..(k - 1)
      /\ \A a \in 1..(k - 1) : put[a] = at[a]
      /\ put[k] = p.at
  <2>1. /\ IsSeq(put) /\ Len(put) = Len(at) + 1
        /\ \A a \in 1..Len(at) : put[a] = at[a]
        /\ put[Len(at) + 1] = p.at
    BY SeqGrown
  <2>2. Len(at) + 1 = k
    BY <1>3
  <2>3. DOMAIN put = 1..Len(put) /\ DOMAIN at = 1..Len(at)
    BY <2>1, SeqHas
  <2>4. QED
    BY <2>1, <2>2, <2>3
<1> HIDE DEF put
<1>6. /\ DOMAIN more = 1..j /\ DOMAIN old = 1..j
      /\ \A i \in 1..Len(pl) : more[i] = pl[i] /\ old[i] = pl[i]
      /\ more[j] = put /\ old[j] = at
  <2>1. /\ IsSeq(more) /\ Len(more) = Len(pl) + 1
        /\ \A i \in 1..Len(pl) : more[i] = pl[i]
        /\ more[Len(pl) + 1] = put
    BY SeqGrown
  <2>2. /\ IsSeq(old) /\ Len(old) = Len(pl) + 1
        /\ \A i \in 1..Len(pl) : old[i] = pl[i]
        /\ old[Len(pl) + 1] = at
    BY SeqGrown
  <2>3. DOMAIN more = 1..Len(more) /\ DOMAIN old = 1..Len(old)
    BY <2>1, <2>2, SeqHas
  <2>4. QED
    BY <2>1, <2>2, <2>3
<1> HIDE DEF more, old
<1>7. ASSUME NEW i \in DOMAIN more, NEW a \in DOMAIN more[i]
      PROVE  \/ i = j /\ a = k /\ more[i][a] = p.at
             \/ /\ i \in DOMAIN old /\ a \in DOMAIN old[i] /\ more[i][a] = old[i][a]
                /\ i \in Nat /\ a \in Nat /\ Precedes(<<i, a>>, <<j, k>>)
  <2>1. CASE i = j /\ a = k
    BY <1>5, <1>6, <2>1
  <2>2. CASE i = j /\ a # k
    <3>1. a \in 1..(k - 1) /\ a \in Nat /\ a < k
      BY <1>3, <1>5, <1>6, <2>2
    <3>2. Precedes(<<i, a>>, <<j, k>>)
      BY <1>2, <1>3, <2>2, <3>1, PrecedesIs
    <3>3. QED
      BY <1>2, <1>5, <1>6, <2>2, <3>1, <3>2
  <2>3. CASE i # j
    <3>1. i \in 1..Len(pl) /\ i \in Nat /\ i < j
      BY <1>1, <1>6, <2>3
    <3>2. i \in DOMAIN old /\ old[i] = more[i] /\ a \in DOMAIN old[i]
      BY <1>6, <3>1
    <3>3. i \in DOMAIN objs /\ a \in DOMAIN objs[i].sections
      BY <3>2 DEF Merging, InPlace, old
    <3>4. a \in Nat
      BY <3>3, SeqHas DEF AreObjects
    <3>5. Precedes(<<i, a>>, <<j, k>>)
      BY <1>2, <1>3, <3>1, <3>4, PrecedesIs
    <3>6. QED
      BY <3>1, <3>2, <3>4, <3>5
  <2>4. QED
    BY <2>1, <2>2, <2>3
<1>8. OneMore(old, j, k, p.at, more)
  BY <1>7 DEF OneMore
<1>9. Merging(objs, secs, old)
  BY DEF old
<1>10. Merging(objs, p.secs, more)
  BY <1>2, <1>4, <1>8, <1>9, MergeOne
<1>11. QED
  BY <1>5, <1>10 DEF more, put

\* All sections of the next object.
LEMMA MergeSections ==
    ASSUME NEW objs, AreObjects(objs), NEW secs, NEW pl, IsSeq(pl), Len(pl) < Len(objs),
           Merging(objs, secs, pl),
           NEW put, put = PutSections(secs, objs[Len(pl) + 1].sections)
    PROVE  /\ Merging(objs, put.secs, Append(pl, put.at))
           /\ IsSeq(put.at) /\ Len(put.at) = Len(objs[Len(pl) + 1].sections)
<1> DEFINE j == Len(pl) + 1
           sections == objs[j].sections
<1>1. Len(pl) \in Nat /\ Len(objs) \in Nat /\ DOMAIN objs = 1..Len(objs)
  BY SeqHas DEF AreObjects
<1>2. j \in DOMAIN objs
  BY <1>1
<1>3. Len(sections) \in Nat /\ DOMAIN sections = 1..Len(sections)
  BY <1>2, SeqHas DEF AreObjects
<1> HIDE DEF sections, j
<1>4. PICK run :
         /\ run[0] = [secs |-> secs, at |-> <<>>]
         /\ \A k \in 1..Len(sections) :
               LET p == PutSection(run[k - 1].secs, sections[k])
               IN run[k] = [secs |-> p.secs, at |-> Append(run[k - 1].at, p.at)]
         /\ PutSections(secs, sections) = run[Len(sections)]
  BY <1>3, PutRuns
<1> DEFINE Good(k) == /\ Merging(objs, run[k].secs, Append(pl, run[k].at))
                      /\ IsSeq(run[k].at) /\ Len(run[k].at) = k
           T == {k \in 0..Len(sections) : ~Good(k)}
<1>5. ASSUME T # {} PROVE FALSE
  <2>1. T \subseteq Nat
    BY <1>3
  <2> HIDE DEF T
  <2>2. PICK k \in T : \A n \in T : k <= n
    BY <1>5, <2>1, Least
  <2>3. k \in 0..Len(sections) /\ ~Good(k) /\ k \in Nat
    BY <1>3 DEF T
  <2>4. CASE k = 0
    <3>1. IsSeq(<<>>) /\ Len(<<>>) = 0
      <4>1. <<>> \in Seq({})
        BY EmptySeq
      <4>2. QED
        BY <4>1, SeqIs, EmptySeq
    <3>2. run[0].secs = secs /\ run[0].at = <<>>
      BY <1>4
    <3>3. Merging(objs, secs, Append(pl, <<>>))
      BY MergeNone
    <3>4. QED
      BY <2>3, <2>4, <3>1, <3>2, <3>3
  <2>5. CASE k # 0
    <3>1. k \in 1..Len(sections) /\ k - 1 \in 0..Len(sections) /\ ~(k <= k - 1)
      BY <1>3, <2>3, <2>5
    <3>2. k - 1 \notin T
      BY <2>2, <3>1
    <3>3. Good(k - 1)
      BY <3>1, <3>2 DEF T
    <3> DEFINE p == PutSection(run[k - 1].secs, sections[k])
    <3>4. run[k] = [secs |-> p.secs, at |-> Append(run[k - 1].at, p.at)]
      BY <1>4, <3>1
    <3>5. /\ Merging(objs, p.secs, Append(pl, Append(run[k - 1].at, p.at)))
          /\ IsSeq(Append(run[k - 1].at, p.at)) /\ Len(Append(run[k - 1].at, p.at)) = k
      <4> DEFINE ss == run[k - 1].secs
                 tt == run[k - 1].at
      <4>1. /\ Merging(objs, ss, Append(pl, tt)) /\ IsSeq(tt) /\ Len(tt) = k - 1
            /\ p = PutSection(ss, objs[j].sections[k]) /\ k \in DOMAIN objs[j].sections
            /\ j = Len(pl) + 1
        BY <1>3, <3>1, <3>3 DEF sections, j
      <4> HIDE DEF ss, tt, p
      <4>2. /\ Merging(objs, p.secs, Append(pl, Append(tt, p.at)))
            /\ IsSeq(Append(tt, p.at)) /\ Len(Append(tt, p.at)) = k
        BY <4>1, MergeTurn
      <4>3. QED
        BY <4>2 DEF tt
    <3>6. Good(k)
      BY <3>4, <3>5
    <3>7. QED
      BY <2>3, <3>6
  <2>6. QED
    BY <2>4, <2>5
<1>6. Good(Len(sections))
  BY <1>3, <1>5
<1>7. put = run[Len(sections)]
  BY <1>4 DEF sections, j
<1>8. QED
  BY <1>6, <1>7 DEF sections, j

-----------------------------------------------------------------------------
(* The loaded sections and their addresses.                                  *)

\* `found' is defined by the loop.
LEMMA FoundRuns ==
    ASSUME NEW secs, Len(secs) \in Nat, NEW kind
    PROVE  \E found :
              /\ found[0] = <<>>
              /\ \A k \in 1..Len(secs) :
                    found[k] = IF secs[k].kind = kind /\ secs[k].name \notin NotLoaded
                               THEN Append(found[k - 1], k) ELSE found[k - 1]
              /\ OfKind(secs, kind) = found[Len(secs)]
<1> DEFINE N == Len(secs)
           Turn(b, k) == IF secs[k].kind = kind /\ secs[k].name \notin NotLoaded THEN Append(b, k) ELSE b
           Run(g, n) == [k \in 0..n |-> IF k = 0 THEN <<>> ELSE Turn(g[k - 1], k)]
<1>1. OfKind(secs, kind) = (CHOOSE g : g = Run(g, N))[N]
  BY DEF OfKind
<1> HIDE DEF Turn
<1>2. \A n \in Nat : \E g : g = Run(g, n)
  <2> DEFINE T == {n \in Nat : ~\E g : g = Run(g, n)}
  <2>1. SUFFICES ASSUME T # {} PROVE FALSE
    OBVIOUS
  <2>2. PICK m \in T : \A n \in T : m <= n
    BY <2>1, Least
  <2>3. m \in Nat /\ ~\E g : g = Run(g, m)
    OBVIOUS
  <2>4. CASE m = 0
    <3> DEFINE g == [k \in 0..0 |-> <<>>]
    <3>1. g = Run(g, 0)
      OBVIOUS
    <3>2. QED
      BY <2>3, <2>4, <3>1
  <2>5. CASE m # 0
    <3>1. m - 1 \in Nat /\ ~(m <= m - 1)
      BY <2>3, <2>5
    <3>2. m - 1 \notin T
      BY <2>2, <3>1
    <3>3. PICK g : g = Run(g, m - 1)
      BY <3>1, <3>2
    <3> DEFINE h == [k \in 0..m |-> IF k = m THEN Turn(g[m - 1], m) ELSE g[k]]
    <3>4. ASSUME NEW k \in 0..m
          PROVE  h[k] = IF k = 0 THEN <<>> ELSE Turn(h[k - 1], k)
      <4>1. CASE k = 0
        BY <2>3, <2>5, <3>3, <4>1
      <4>2. CASE k = m
        <5>1. m - 1 \in 0..m /\ m - 1 # m
          BY <2>3, <3>1
        <5>2. h[m - 1] = g[m - 1]
          BY <5>1
        <5>3. QED
          BY <2>5, <4>2, <5>2
      <4>3. CASE k # 0 /\ k # m
        <5>1. k \in 0..(m - 1) /\ k - 1 \in 0..m /\ k - 1 # m
          BY <2>3, <4>3
        <5>2. h[k] = g[k] /\ h[k - 1] = g[k - 1]
          BY <4>3, <5>1
        <5>3. g[k] = Turn(g[k - 1], k)
          BY <3>3, <4>3, <5>1
        <5>4. QED
          BY <4>3, <5>2, <5>3
      <4>4. QED
        BY <4>1, <4>2, <4>3
    <3>5. h = [k \in 0..m |-> h[k]]
      OBVIOUS
    <3> HIDE DEF h
    <3>6. h = Run(h, m)
      BY <3>4, <3>5
    <3>7. QED
      BY <2>3, <3>6
  <2>6. QED
    BY <2>4, <2>5
<1> DEFINE found == CHOOSE g : g = Run(g, N)
<1>3. found = Run(found, N)
  BY <1>2
<1> HIDE DEF found
<1>4. 0 \in 0..N /\ \A k \in 1..N : k \in 0..N /\ k # 0
  OBVIOUS
<1>5. found[0] = <<>> /\ \A k \in 1..N : found[k] = Turn(found[k - 1], k)
  BY <1>3, <1>4
<1>6. QED
  BY <1>1, <1>5 DEF Turn, found

\* q names sections up to the k-th, of these kinds, each at most once.
Picks(q, secs, k, kinds) ==
    /\ IsSeq(q)
    /\ \A n \in DOMAIN q : q[n] \in 1..k /\ secs[q[n]].kind \in kinds
    /\ \A m, n \in DOMAIN q : q[m] = q[n] => m = n

\* The sections of one kind, each once.
LEMMA FoundPicks ==
    ASSUME NEW secs, IsSeq(secs), NEW kind
    PROVE  Picks(OfKind(secs, kind), secs, Len(secs), {kind})
<1>1. Len(secs) \in Nat
  BY SeqHas
<1>2. PICK found :
         /\ found[0] = <<>>
         /\ \A k \in 1..Len(secs) :
               found[k] = IF secs[k].kind = kind /\ secs[k].name \notin NotLoaded
                          THEN Append(found[k - 1], k) ELSE found[k - 1]
         /\ OfKind(secs, kind) = found[Len(secs)]
  BY <1>1, FoundRuns
<1> DEFINE T == {k \in 0..Len(secs) : ~Picks(found[k], secs, k, {kind})}
<1>3. ASSUME T # {} PROVE FALSE
  <2>1. T \subseteq Nat
    BY <1>1
  <2> HIDE DEF T
  <2>2. PICK k \in T : \A n \in T : k <= n
    BY <1>3, <2>1, Least
  <2>3. k \in 0..Len(secs) /\ ~Picks(found[k], secs, k, {kind}) /\ k \in Nat
    BY <1>1 DEF T
  <2>4. CASE k = 0
    <3>1. IsSeq(<<>>)
      <4>1. <<>> \in Seq({})
        BY EmptySeq
      <4>2. QED
        BY <4>1, SeqIs
    <3>2. ASSUME NEW n \in DOMAIN <<>> PROVE FALSE
      OBVIOUS
    <3>3. QED
      BY <1>2, <2>3, <2>4, <3>1, <3>2 DEF Picks
  <2>5. CASE k # 0
    <3>1. k \in 1..Len(secs) /\ k - 1 \in 0..Len(secs) /\ ~(k <= k - 1)
      BY <1>1, <2>3, <2>5
    <3>2. k - 1 \notin T
      BY <2>2, <3>1
    <3>3. Picks(found[k - 1], secs, k - 1, {kind})
      BY <3>1, <3>2 DEF T
    <3> DEFINE q == found[k - 1]
    <3>4. CASE secs[k].kind = kind /\ secs[k].name \notin NotLoaded
      <4>1. found[k] = Append(q, k)
        BY <1>2, <3>1, <3>4
      <4>2. /\ IsSeq(q) /\ \A n \in DOMAIN q : q[n] \in 1..(k - 1) /\ secs[q[n]].kind \in {kind}
            /\ \A m, n \in DOMAIN q : q[m] = q[n] => m = n
        BY <3>3 DEF Picks
      <4> HIDE DEF q
      <4>3. /\ IsSeq(Append(q, k)) /\ Len(Append(q, k)) = Len(q) + 1
            /\ \A n \in 1..Len(q) : Append(q, k)[n] = q[n]
            /\ Append(q, k)[Len(q) + 1] = k
        BY <4>2, SeqGrown
      <4> DEFINE r == Append(q, k)
      <4> HIDE DEF r
      <4>4. DOMAIN r = 1..(Len(q) + 1) /\ DOMAIN q = 1..Len(q) /\ Len(q) \in Nat
        BY <4>2, <4>3, SeqHas DEF r
      <4>5. \A n \in DOMAIN r : (n = Len(q) + 1 /\ r[n] = k) \/ (n \in DOMAIN q /\ r[n] = q[n])
        BY <4>3, <4>4 DEF r
      <4>6. \A n \in DOMAIN q : q[n] \in 1..k /\ q[n] # k
        BY <2>3, <4>2
      <4>7. k \in 1..k
        BY <2>3, <2>5
      <4>8. \A n \in DOMAIN r : r[n] \in 1..k /\ secs[r[n]].kind \in {kind}
        BY <3>4, <4>2, <4>5, <4>6, <4>7
      <4>9. ASSUME NEW m \in DOMAIN r, NEW n \in DOMAIN r, r[m] = r[n] PROVE m = n
        BY <4>2, <4>5, <4>6, <4>9
      <4>10. Picks(r, secs, k, {kind})
        BY <4>3, <4>8, <4>9 DEF Picks, r
      <4>11. QED
        BY <2>3, <4>1, <4>10 DEF r
    <3>5. CASE ~(secs[k].kind = kind /\ secs[k].name \notin NotLoaded)
      <4>1. found[k] = q
        BY <1>2, <3>1, <3>5
      <4>2. \A x \in 1..(k - 1) : x \in 1..k
        BY <2>3
      <4>3. Picks(q, secs, k, {kind})
        BY <3>3, <4>2 DEF Picks
      <4>4. QED
        BY <2>3, <4>1, <4>3
    <3>6. QED
      BY <3>4, <3>5
  <2>6. QED
    BY <2>4, <2>5
<1> DEFINE n == Len(secs)
<1>4. n \in 0..n /\ n = Len(secs)
  BY <1>1
<1>5. Picks(found[n], secs, n, {kind})
  BY <1>3, <1>4
<1>6. QED
  BY <1>2, <1>5

\* Sections of different kinds, one list behind the other.
LEMMA PicksJoined ==
    ASSUME NEW secs, NEW k, NEW q, NEW r, NEW K, NEW L, K \cap L = {},
           Picks(q, secs, k, K), Picks(r, secs, k, L)
    PROVE  Picks(q \o r, secs, k, K \cup L)
<1> DEFINE j == q \o r
<1>1. /\ IsSeq(j) /\ Len(j) = Len(q) + Len(r)
      /\ \A n \in 1..Len(q) : j[n] = q[n]
      /\ \A n \in 1..Len(r) : j[Len(q) + n] = r[n]
  BY SeqJoined DEF Picks
<1>2. /\ Len(q) \in Nat /\ DOMAIN q = 1..Len(q) /\ Len(r) \in Nat /\ DOMAIN r = 1..Len(r)
      /\ DOMAIN j = 1..Len(j)
  BY <1>1, SeqHas DEF Picks
<1> HIDE DEF j
<1>3. ASSUME NEW n \in DOMAIN j
      PROVE  \/ n \in DOMAIN q /\ j[n] = q[n]
             \/ n - Len(q) \in DOMAIN r /\ j[n] = r[n - Len(q)]
  <2>1. CASE n <= Len(q)
    BY <1>1, <1>2, <2>1
  <2>2. CASE ~(n <= Len(q))
    <3>1. n - Len(q) \in 1..Len(r) /\ Len(q) + (n - Len(q)) = n
      BY <1>1, <1>2, <2>2
    <3>2. j[Len(q) + (n - Len(q))] = r[n - Len(q)]
      BY <1>1, <3>1
    <3>3. QED
      BY <1>2, <3>1, <3>2
  <2>3. QED
    BY <2>1, <2>2
<1>4. \A n \in DOMAIN j : j[n] \in 1..k /\ secs[j[n]].kind \in K \cup L
  BY <1>3 DEF Picks
<1>5. ASSUME NEW m \in DOMAIN j, NEW n \in DOMAIN j, j[m] = j[n] PROVE m = n
  <2> DEFINE InQ(x) == x \in DOMAIN q /\ j[x] = q[x]
             InR(x) == x - Len(q) \in DOMAIN r /\ j[x] = r[x - Len(q)]
  <2>1. (InQ(m) \/ InR(m)) /\ (InQ(n) \/ InR(n))
    BY <1>3
  <2>2. CASE InQ(m) /\ InQ(n)
    BY <1>5, <2>2 DEF Picks
  <2>3. CASE InR(m) /\ InR(n)
    <3>1. m - Len(q) = n - Len(q)
      BY <1>5, <2>3 DEF Picks
    <3>2. QED
      BY <1>1, <1>2, <3>1
  <2>4. CASE InQ(m) /\ InR(n)
    BY <1>5, <2>4 DEF Picks
  <2>5. CASE InR(m) /\ InQ(n)
    BY <1>5, <2>5 DEF Picks
  <2>6. QED
    BY <2>1, <2>2, <2>3, <2>4, <2>5
<1>6. QED
  BY <1>1, <1>4, <1>5 DEF Picks, j

\* The loaded sections, each once.
LEMMA LoadedPicks ==
    ASSUME NEW secs, IsSeq(secs)
    PROVE  \E kinds : Picks(Loaded(secs), secs, Len(secs), kinds)
<1> DEFINE P(q, kinds) == Picks(q, secs, Len(secs), kinds)
           t == OfKind(secs, "text")
           r == OfKind(secs, "rodata")
           d == OfKind(secs, "data")
           b == OfKind(secs, "bss")
           o == OfKind(secs, "other")
<1>1. P(t, {"text"}) /\ P(r, {"rodata"}) /\ P(d, {"data"}) /\ P(b, {"bss"}) /\ P(o, {"other"})
  BY FoundPicks
<1> HIDE DEF t, r, d, b, o
<1>2. P(t \o r, {"text"} \cup {"rodata"})
  <2>1. {"text"} \cap {"rodata"} = {}
    OBVIOUS
  <2>2. QED
    BY <1>1, <2>1, PicksJoined
<1>3. P(t \o r \o d, {"text"} \cup {"rodata"} \cup {"data"})
  <2>1. ({"text"} \cup {"rodata"}) \cap {"data"} = {}
    OBVIOUS
  <2>2. QED
    BY <1>1, <1>2, <2>1, PicksJoined
<1>4. P(t \o r \o d \o b, {"text"} \cup {"rodata"} \cup {"data"} \cup {"bss"})
  <2>1. ({"text"} \cup {"rodata"} \cup {"data"}) \cap {"bss"} = {}
    OBVIOUS
  <2>2. QED
    BY <1>1, <1>3, <2>1, PicksJoined
<1>5. P(t \o r \o d \o b \o o, {"text"} \cup {"rodata"} \cup {"data"} \cup {"bss"} \cup {"other"})
  <2>1. ({"text"} \cup {"rodata"} \cup {"data"} \cup {"bss"}) \cap {"other"} = {}
    OBVIOUS
  <2>2. QED
    BY <1>1, <1>4, <2>1, PicksJoined
<1>6. Loaded(secs) = t \o r \o d \o b \o o
  BY DEF Loaded, t, r, d, b, o
<1>7. QED
  BY <1>5, <1>6

\* `next' is the loop over the loaded sections: the address after n of them
\* follows from the one after n - 1.
LaidBy(secs, loaded, base, next) ==
    /\ next[0] = AlignUp(base, Page)
    /\ \A n \in 1..Len(loaded) :
          next[n] = AlignUp(AlignUp(next[n - 1], LargerOf(secs[loaded[n]].align, MinAlign))
                              + VaSize(secs[loaded[n]]), Page)
    /\ Addresses(secs, loaded, base) =
          [i \in DOMAIN secs |->
              IF \E n \in DOMAIN loaded : loaded[n] = i
              THEN LET n == CHOOSE n \in DOMAIN loaded : loaded[n] = i
                   IN AlignUp(next[n - 1], LargerOf(secs[loaded[n]].align, MinAlign))
              ELSE 0]

\* `next' is defined by the loop.
LEMMA NextRuns ==
    ASSUME NEW secs, NEW loaded, Len(loaded) \in Nat, NEW base
    PROVE  \E next : LaidBy(secs, loaded, base, next)
<1> DEFINE N == Len(loaded)
           First == AlignUp(base, Page)
           start(va, n) == AlignUp(va, LargerOf(secs[loaded[n]].align, MinAlign))
           Turn(b, n) == AlignUp(start(b, n) + VaSize(secs[loaded[n]]), Page)
           Run(g, n) == [k \in 0..n |-> IF k = 0 THEN First ELSE Turn(g[k - 1], k)]
           next == CHOOSE g : g = Run(g, N)
<1>1. Addresses(secs, loaded, base) =
         [i \in DOMAIN secs |->
            IF \E n \in DOMAIN loaded : loaded[n] = i
            THEN LET n == CHOOSE n \in DOMAIN loaded : loaded[n] = i IN start(next[n - 1], n)
            ELSE 0]
  BY DEF Addresses
<1> HIDE DEF Turn, First, start
<1>2. \A n \in Nat : \E g : g = Run(g, n)
  <2> DEFINE T == {n \in Nat : ~\E g : g = Run(g, n)}
  <2>1. SUFFICES ASSUME T # {} PROVE FALSE
    OBVIOUS
  <2>2. PICK m \in T : \A n \in T : m <= n
    BY <2>1, Least
  <2>3. m \in Nat /\ ~\E g : g = Run(g, m)
    OBVIOUS
  <2>4. CASE m = 0
    <3> DEFINE g == [k \in 0..0 |-> First]
    <3>1. g = Run(g, 0)
      OBVIOUS
    <3>2. QED
      BY <2>3, <2>4, <3>1
  <2>5. CASE m # 0
    <3>1. m - 1 \in Nat /\ ~(m <= m - 1)
      BY <2>3, <2>5
    <3>2. m - 1 \notin T
      BY <2>2, <3>1
    <3>3. PICK g : g = Run(g, m - 1)
      BY <3>1, <3>2
    <3> DEFINE h == [k \in 0..m |-> IF k = m THEN Turn(g[m - 1], m) ELSE g[k]]
    <3>4. ASSUME NEW k \in 0..m
          PROVE  h[k] = IF k = 0 THEN First ELSE Turn(h[k - 1], k)
      <4>1. CASE k = 0
        BY <2>3, <2>5, <3>3, <4>1
      <4>2. CASE k = m
        <5>1. m - 1 \in 0..m /\ m - 1 # m
          BY <2>3, <3>1
        <5>2. h[m - 1] = g[m - 1]
          BY <5>1
        <5>3. QED
          BY <2>5, <4>2, <5>2
      <4>3. CASE k # 0 /\ k # m
        <5>1. k \in 0..(m - 1) /\ k - 1 \in 0..m /\ k - 1 # m
          BY <2>3, <4>3
        <5>2. h[k] = g[k] /\ h[k - 1] = g[k - 1]
          BY <4>3, <5>1
        <5>3. g[k] = Turn(g[k - 1], k)
          BY <3>3, <4>3, <5>1
        <5>4. QED
          BY <4>3, <5>2, <5>3
      <4>4. QED
        BY <4>1, <4>2, <4>3
    <3>5. h = [k \in 0..m |-> h[k]]
      OBVIOUS
    <3> HIDE DEF h
    <3>6. h = Run(h, m)
      BY <3>4, <3>5
    <3>7. QED
      BY <2>3, <3>6
  <2>6. QED
    BY <2>4, <2>5
<1>3. next = Run(next, N)
  BY <1>2
<1> HIDE DEF next
<1>4. 0 \in 0..N /\ \A k \in 1..N : k \in 0..N /\ k # 0
  OBVIOUS
<1>5. next[0] = First /\ \A k \in 1..N : next[k] = Turn(next[k - 1], k)
  BY <1>3, <1>4
<1>6. /\ next[0] = AlignUp(base, Page)
      /\ \A n \in 1..N : next[n] = AlignUp(AlignUp(next[n - 1], LargerOf(secs[loaded[n]].align, MinAlign))
                                             + VaSize(secs[loaded[n]]), Page)
  BY <1>5 DEF First, Turn, start
<1>7. Addresses(secs, loaded, base) =
         [i \in DOMAIN secs |->
            IF \E n \in DOMAIN loaded : loaded[n] = i
            THEN LET n == CHOOSE n \in DOMAIN loaded : loaded[n] = i
                 IN AlignUp(next[n - 1], LargerOf(secs[loaded[n]].align, MinAlign))
            ELSE 0]
  BY <1>1 DEF start
<1>8. LaidBy(secs, loaded, base, next)
  BY <1>6, <1>7 DEF LaidBy
<1>9. QED
  BY <1>8

\* The size of a section in memory holds its words and is not 0.
LEMMA VaSizeIs ==
    ASSUME NEW s, IsSec(s)
    PROVE  VaSize(s) \in Nat /\ VaSize(s) >= Len(s.data) /\ VaSize(s) >= s.size /\ VaSize(s) >= 1
<1>1. Len(s.data) \in Nat /\ s.size \in Nat /\ 1 \in Nat
  BY SeqHas DEF IsSec
<1>2. QED
  BY <1>1 DEF VaSize, LargerOf

\* Each loaded section ends before the next one starts.
LEMMA AddressesApart ==
    ASSUME ScaleAssumption, NEW secs, Tidy(secs), NEW base \in Nat,
           NEW loaded, NEW kinds, Picks(loaded, secs, Len(secs), kinds),
           NEW va, va = Addresses(secs, loaded, base)
    PROVE  \A m, n \in DOMAIN loaded :
              m < n => va[loaded[m]] + VaSize(secs[loaded[m]]) <= va[loaded[n]]
<1>1. Len(secs) \in Nat /\ DOMAIN secs = 1..Len(secs)
  BY SeqHas DEF Tidy
<1>2. Len(loaded) \in Nat /\ DOMAIN loaded = 1..Len(loaded)
  BY SeqHas DEF Picks
<1>3. PICK next : LaidBy(secs, loaded, base, next)
  BY <1>2, NextRuns
<1> DEFINE N == Len(loaded)
           align(n) == LargerOf(secs[loaded[n]].align, MinAlign)
           start(n) == AlignUp(next[n - 1], align(n))
           size(n) == VaSize(secs[loaded[n]])
<1>4. Page \in Nat /\ MinAlign \in Nat
  BY DEF ScaleAssumption
<1>5. \A n \in 1..N : loaded[n] \in DOMAIN secs /\ IsSec(secs[loaded[n]])
  BY <1>1, <1>2 DEF Picks, Tidy
<1>6. \A n \in 1..N : align(n) \in Nat /\ size(n) \in Nat
  BY <1>4, <1>5, LargerIs, VaSizeIs DEF IsSec
<1>7. \A n \in 1..N : va[loaded[n]] = start(n)
  <2>1. ASSUME NEW n \in 1..N PROVE va[loaded[n]] = start(n)
    <3> DEFINE c == CHOOSE m \in DOMAIN loaded : loaded[m] = loaded[n]
    <3>1. c \in DOMAIN loaded /\ loaded[c] = loaded[n]
      BY <1>2
    <3>2. c = n
      BY <1>2, <3>1 DEF Picks
    <3>3. va[loaded[n]] = start(c)
      BY <1>2, <1>3, <1>5 DEF LaidBy
    <3>4. QED
      BY <3>2, <3>3
  <2>2. QED
    BY <2>1
<1>8. next[0] = AlignUp(base, Page) /\ \A n \in 1..N : next[n] = AlignUp(start(n) + size(n), Page)
  BY <1>3 DEF LaidBy
<1> HIDE DEF align, size
\* One turn goes up.
<1>9. ASSUME NEW n \in 1..N, next[n - 1] \in Nat
      PROVE  start(n) \in Nat /\ next[n - 1] <= start(n) /\ next[n] \in Nat /\ start(n) + size(n) <= next[n]
  <2>1. start(n) \in Nat /\ next[n - 1] <= start(n)
    BY <1>6, <1>9, AlignUpGoesUp
  <2> HIDE DEF start
  <2>2. start(n) + size(n) \in Nat
    BY <1>6, <2>1
  <2> DEFINE e == start(n) + size(n)
  <2>3. e \in Nat /\ next[n] = AlignUp(e, Page)
    BY <1>8, <2>2
  <2> HIDE DEF e
  <2>4. next[n] \in Nat /\ next[n] >= e
    BY <1>4, <2>3, AlignUpGoesUp
  <2>5. e \in Nat /\ e = start(n) + size(n)
    BY <2>3 DEF e
  <2>6. QED
    BY <2>1, <2>4, <2>5
<1> HIDE DEF start
<1> DEFINE Good(n) == next[n] \in Nat /\ \A m \in 1..n : start(m) \in Nat /\ start(m) + size(m) <= next[n]
           T == {n \in 0..N : ~Good(n)}
<1>10. ASSUME T # {} PROVE FALSE
  <2>1. T \subseteq Nat
    BY <1>2
  <2> HIDE DEF T
  <2>2. PICK n \in T : \A k \in T : n <= k
    BY <1>10, <2>1, Least
  <2>3. n \in 0..N /\ ~Good(n) /\ n \in Nat
    BY <1>2 DEF T
  <2>4. CASE n = 0
    <3>1. next[0] \in Nat
      BY <1>4, <1>8, AlignUpGoesUp
    <3>2. QED
      BY <2>3, <2>4, <3>1
  <2>5. CASE n # 0
    <3>1. n \in 1..N /\ n - 1 \in 0..N /\ ~(n <= n - 1)
      BY <1>2, <2>3, <2>5
    <3>2. n - 1 \notin T
      BY <2>2, <3>1
    <3>3. Good(n - 1)
      BY <3>1, <3>2 DEF T
    <3>4. start(n) \in Nat /\ next[n - 1] <= start(n) /\ next[n] \in Nat /\ start(n) + size(n) <= next[n]
      BY <1>9, <3>1, <3>3
    <3>5. next[n - 1] <= next[n]
      BY <1>6, <3>1, <3>3, <3>4
    <3>6. ASSUME NEW m \in 1..n PROVE start(m) \in Nat /\ start(m) + size(m) <= next[n]
      <4>1. CASE m = n
        BY <3>4, <4>1
      <4>2. CASE m # n
        <5>1. m \in 1..(n - 1) /\ m \in 1..N
          BY <2>3, <3>1, <4>2
        <5>2. start(m) \in Nat /\ start(m) + size(m) <= next[n - 1] /\ size(m) \in Nat
          BY <1>6, <3>3, <5>1
        <5>3. QED
          BY <3>3, <3>4, <3>5, <5>2
      <4>3. QED
        BY <4>1, <4>2
    <3>7. QED
      BY <2>3, <3>4, <3>6
  <2>6. QED
    BY <2>4, <2>5
<1>11. ASSUME NEW m \in DOMAIN loaded, NEW n \in DOMAIN loaded, m < n
       PROVE  va[loaded[m]] + VaSize(secs[loaded[m]]) <= va[loaded[n]]
  <2>1. m \in 1..(n - 1) /\ n - 1 \in 0..N /\ n \in 1..N /\ m \in 1..N
    BY <1>2, <1>11
  <2>2. Good(n - 1)
    BY <1>10, <2>1
  <2>3. start(m) \in Nat /\ start(m) + size(m) <= next[n - 1] /\ next[n - 1] \in Nat
    BY <2>1, <2>2
  <2>4. start(n) \in Nat /\ next[n - 1] <= start(n)
    BY <1>9, <2>1, <2>3
  <2>5. start(m) + size(m) <= start(n)
    BY <1>6, <2>1, <2>3, <2>4
  <2>6. QED
    BY <1>7, <2>1, <2>5 DEF size
<1>12. QED
  BY <1>11

-----------------------------------------------------------------------------
(* The objects that are read.                                                *)

\* The k-th number of a set.
LEMMA KthOf ==
    ASSUME NEW n \in Nat, NEW S \in SUBSET (1..n), NEW k \in 1..Cardinality(S)
    PROVE  \E j \in S : Cardinality({x \in S : x <= j}) = k
<1> DEFINE upto(m) == {x \in S : x <= m}
           T == {m \in 0..n : Cardinality(upto(m)) >= k}
<1>0. \A x \in S : x \in Nat /\ 1 <= x /\ x <= n
  OBVIOUS
<1>1. IsFiniteSet(S) /\ Cardinality(S) \in Nat
  <2>1. IsFiniteSet(1..n)
    BY FS_Interval
  <2>2. QED
    BY <2>1, FS_Subset, FS_CardinalityType
<1>2. \A m \in 0..n : IsFiniteSet(upto(m)) /\ Cardinality(upto(m)) \in Nat
  <2>1. \A m \in 0..n : upto(m) \in SUBSET S
    OBVIOUS
  <2> HIDE DEF upto
  <2>2. QED
    BY <1>1, <2>1, FS_Subset, FS_CardinalityType
<1>3. upto(n) = S /\ n \in 0..n
  <2>1. \A x \in S : x \in upto(n)
    BY <1>0
  <2>2. \A x \in upto(n) : x \in S
    OBVIOUS
  <2>3. n \in 0..n
    OBVIOUS
  <2> HIDE DEF upto
  <2>4. QED
    BY <2>1, <2>2, <2>3
<1>4. n \in T
  BY <1>1, <1>3
<1>5. T \subseteq Nat
  OBVIOUS
<1>6. PICK m \in T : \A y \in T : m <= y
  <2> HIDE DEF T
  <2>1. QED
    BY <1>4, <1>5, Least
<1>7. m \in 0..n /\ Cardinality(upto(m)) >= k
  OBVIOUS
<1>8. m # 0
  <2>1. CASE m = 0
    <3>1. upto(m) = {}
      <4>1. \A x \in S : ~(x <= m)
        BY <1>0, <2>1
      <4>2. QED
        BY <4>1
    <3>2. Cardinality(upto(m)) = 0
      BY <3>1, FS_EmptySet
    <3>3. QED
      BY <1>1, <1>7, <3>2
  <2>2. QED
    BY <2>1
<1>9. m - 1 \in 0..n /\ ~(m <= m - 1) /\ k \in Nat /\ m \in Nat
  BY <1>1, <1>7, <1>8
<1>10. Cardinality(upto(m - 1)) < k
  <2>1. m - 1 \notin T
    BY <1>6, <1>9
  <2>2. ~(Cardinality(upto(m - 1)) >= k)
    BY <1>9, <2>1
  <2>3. Cardinality(upto(m - 1)) \in Nat
    BY <1>2, <1>9
  <2> HIDE DEF upto
  <2>4. QED
    BY <1>9, <2>2, <2>3
<1>11. CASE m \notin S
  <2>1. \A x \in S : x <= m <=> x <= m - 1
    BY <1>0, <1>9, <1>11
  <2>2. upto(m) = upto(m - 1)
    BY <2>1
  <2>3. Cardinality(upto(m)) \in Nat
    BY <1>2, <1>7
  <2> HIDE DEF upto
  <2>4. QED
    BY <1>7, <1>9, <1>10, <2>2, <2>3
<1>12. CASE m \in S
  <2>1. upto(m) = upto(m - 1) \cup {m} /\ m \notin upto(m - 1)
    <3>1. \A x \in S : x <= m <=> x <= m - 1 \/ x = m
      BY <1>0, <1>9, <1>12
    <3>2. ~(m <= m - 1)
      BY <1>9
    <3>3. QED
      BY <1>12, <3>1, <3>2
  <2> HIDE DEF upto
  <2>2. Cardinality(upto(m)) = Cardinality(upto(m - 1)) + 1
    BY <1>2, <1>9, <2>1, FS_AddElement
  <2>3. Cardinality(upto(m)) = k
    BY <1>1, <1>2, <1>7, <1>9, <1>10, <2>2
  <2>4. QED
    BY <1>12, <2>3 DEF upto
<1>13. QED
  BY <1>11, <1>12

\* Either reader makes of sections that a compiler emits sections to merge.
LEMMA SectionsRead ==
    ASSUME ScaleAssumption, NEW f, IsSeq(f.sections),
           \A k \in DOMAIN f.sections : IsSection(f.sections[k])
    PROVE  /\ IsSeq(ParsedSections(f))
           /\ \A a \in DOMAIN ParsedSections(f) : IsBrought(ParsedSections(f)[a])
<1> DEFINE ps == ParsedSections(f)
           n == Len(f.sections)
<1>1. n \in Nat /\ DOMAIN f.sections = 1..n
  BY SeqHas
<1>2. Kept(f) \in SUBSET (1..n)
  BY <1>1 DEF Kept
<1>3. Cardinality(Kept(f)) \in Nat
  <2>1. IsFiniteSet(1..n)
    BY <1>1, FS_Interval
  <2>2. QED
    BY <1>2, <2>1, FS_Subset, FS_CardinalityType
<1>4. IsSeq(ps) /\ DOMAIN ps = 1..Cardinality(Kept(f))
  <2>1. ps = [k \in 1..Cardinality(Kept(f)) |-> ps[k]]
    BY DEF ParsedSections
  <2> HIDE DEF ps
  <2>2. QED
    BY <1>3, <2>1, SeqMade
<1>5. ASSUME NEW k \in 1..Cardinality(Kept(f)) PROVE IsBrought(ps[k])
  <2> DEFINE i == CHOOSE j \in Kept(f) : Ours(f, j) = k
             s == f.sections[i]
             kind == IF f.format = "elf" THEN ElfSecKind(s) ELSE CoffSecKind(s)
             align == IF f.format = "elf" THEN LargerOf(s.align, 1) ELSE MinAlign
             size == IF f.format = "elf" THEN s.size ELSE Len(s.data)
  <2>1. \E j \in Kept(f) : Ours(f, j) = k
    <3>1. PICK j \in Kept(f) : Cardinality({x \in Kept(f) : x <= j}) = k
      BY <1>1, <1>2, KthOf
    <3>2. QED
      BY <3>1 DEF Ours
  <2>2. i \in Kept(f)
    BY <2>1
  <2>3. IsSection(s)
    BY <1>1, <1>2, <2>2
  <2>4. ps[k] = [name |-> s.name, kind |-> kind, data |-> s.data, align |-> align, size |-> size]
    BY DEF ParsedSections
  <2> HIDE DEF i, ps
  <2>5. s.size \in Nat /\ s.align \in Nat /\ IsSeq(s.data) /\ (s.data = <<>> \/ Len(s.data) = s.size)
    BY <2>3 DEF IsSection, IsSeq
  <2>6. Len(s.data) \in Nat
    BY <2>5, SeqHas
  <2>7. align \in Nat /\ size \in Nat
    BY <2>5, <2>6 DEF ScaleAssumption, LargerOf
  <2>8. s.data = <<>> \/ Len(s.data) = size
    BY <2>5
  <2> HIDE DEF s, kind, align, size
  <2>9. DOMAIN ps[k] = Fields /\ ps[k].data = s.data /\ ps[k].align = align /\ ps[k].size = size
    BY <2>4 DEF Fields
  <2>10. QED
    BY <2>5, <2>7, <2>8, <2>9 DEF IsBrought, IsSec
<1>6. QED
  BY <1>4, <1>5

\* So do the objects of a link job.
LEMMA ObjectsRead ==
    ASSUME ScaleAssumption, LinksAssumption, job \in Links
    PROVE  AreObjects(Objects)
<1>1. IsSeq(job.files)
  BY DEF LinksAssumption, IsSeq
<1>2. Len(job.files) \in Nat /\ DOMAIN job.files = 1..Len(job.files)
  BY <1>1, SeqHas
<1>3. IsSeq(Objects) /\ DOMAIN Objects = DOMAIN job.files
  <2>1. Objects = [i \in 1..Len(job.files) |-> Objects[i]]
    BY <1>2 DEF Objects
  <2>2. QED
    BY <1>2, <2>1, SeqMade
<1>4. ASSUME NEW i \in DOMAIN job.files
      PROVE  /\ IsSeq(Objects[i].sections)
             /\ \A a \in DOMAIN Objects[i].sections : IsBrought(Objects[i].sections[a])
  <2>1. Objects[i].sections = ParsedSections(job.files[i])
    BY DEF Objects, Parsed
  <2>2. /\ IsSeq(job.files[i].sections)
        /\ \A k \in DOMAIN job.files[i].sections : IsSection(job.files[i].sections[k])
    BY DEF LinksAssumption, IsSeq
  <2>3. QED
    BY <2>1, <2>2, SectionsRead
<1>5. QED
  BY <1>3, <1>4 DEF AreObjects

\* The tables of an object: its symbols are of its sections or undefined.
SymbolFields == {"name", "value", "bind", "section"}
RelocFields == {"section", "offset", "symbol", "addend", "kind"}
IsTable(o) ==
    /\ IsSeq(o.symbols) /\ IsSeq(o.relocs)
    /\ \A k \in DOMAIN o.symbols :
          /\ DOMAIN o.symbols[k] = SymbolFields
          /\ o.symbols[k].section = NoSection \/ o.symbols[k].section \in DOMAIN o.sections
    /\ \A k \in DOMAIN o.relocs : DOMAIN o.relocs[k] = RelocFields
AreTables(objs) == \A i \in DOMAIN objs : IsTable(objs[i])

\* A section that is kept has a number among those of the object.
LEMMA OursIs ==
    ASSUME NEW f, IsSeq(f.sections), NEW i
    PROVE  Ours(f, i) = NoSection \/ Ours(f, i) \in 1..Cardinality(Kept(f))
<1>1. CASE i \notin Kept(f)
  BY <1>1 DEF Ours
<1>2. CASE i \in Kept(f)
  <2> DEFINE S == {j \in Kept(f) : j <= i}
             n == Len(f.sections)
  <2>1. n \in Nat /\ DOMAIN f.sections = 1..n
    BY SeqHas
  <2>2. Kept(f) \subseteq 1..n
    BY <2>1 DEF Kept
  <2>3. IsFiniteSet(Kept(f))
    <3>1. IsFiniteSet(1..n)
      BY <2>1, FS_Interval
    <3>2. QED
      BY <2>2, <3>1, FS_Subset
  <2>4. S \subseteq Kept(f) /\ i \in S
    BY <1>2, <2>2
  <2>5. Ours(f, i) = Cardinality(S)
    BY <1>2 DEF Ours
  <2> HIDE DEF S
  <2>6. IsFiniteSet(S) /\ Cardinality(S) <= Cardinality(Kept(f))
    BY <2>3, <2>4, FS_Subset
  <2>7. Cardinality(S) \in Nat /\ Cardinality(Kept(f)) \in Nat /\ Cardinality(S) # 0
    BY <2>3, <2>4, <2>6, FS_CardinalityType, FS_EmptySet
  <2>8. QED
    BY <2>5, <2>6, <2>7
<1>3. QED
  BY <1>1, <1>2

\* The symbols of a file, in its own numbering of sections.
LEMMA SymbolsRead ==
    ASSUME NEW f, IsSeq(f.sections), IsSeq(f.symbols)
    PROVE  /\ IsSeq(ParsedSymbols(f))
           /\ \A k \in DOMAIN ParsedSymbols(f) :
                 LET s == ParsedSymbols(f)[k]
                 IN /\ DOMAIN s = SymbolFields
                    /\ s.section = NoSection \/ s.section \in 1..Cardinality(Kept(f))
<1> DEFINE ps == ParsedSymbols(f)
<1>1. Len(f.symbols) \in Nat /\ DOMAIN f.symbols = 1..Len(f.symbols)
  BY SeqHas
<1>2. IsSeq(ps) /\ DOMAIN ps = DOMAIN f.symbols
  <2>1. ps = [k \in 1..Len(f.symbols) |-> ps[k]]
    BY <1>1 DEF ParsedSymbols
  <2> HIDE DEF ps
  <2>2. QED
    BY <1>1, <2>1, SeqMade
<1>3. ASSUME NEW k \in DOMAIN f.symbols
      PROVE  /\ DOMAIN ps[k] = SymbolFields
             /\ ps[k].section = NoSection \/ ps[k].section \in 1..Cardinality(Kept(f))
  <2> DEFINE s == f.symbols[k]
             sec == IF s.sec <= 0 THEN NoSection ELSE Ours(f, s.sec)
  <2>1. ps[k] = [name |-> s.name, value |-> s.value, bind |-> s.bind, section |-> sec]
    BY DEF ParsedSymbols
  <2>2. sec = NoSection \/ sec \in 1..Cardinality(Kept(f))
    <3>1. sec = NoSection \/ sec = Ours(f, s.sec)
      OBVIOUS
    <3>2. QED
      BY <3>1, OursIs
  <2> HIDE DEF s, sec, ps
  <2>3. QED
    BY <2>1, <2>2 DEF SymbolFields
<1>4. QED
  BY <1>2, <1>3

\* The usable relocations of a file: `found' is defined by the loop.
LEMMA RelocsRead ==
    ASSUME NEW f, IsSeq(f.relocs)
    PROVE  /\ IsSeq(ParsedRelocs(f))
           /\ \A k \in DOMAIN ParsedRelocs(f) : DOMAIN ParsedRelocs(f)[k] = RelocFields
<1> DEFINE N == Len(f.relocs)
           kind(r) == RelocKind(f.format, f.arch, r.type)
           usable(r) == /\ Ours(f, r.sec) # NoSection /\ kind(r) # "unknown"
                        /\ \E k \in DOMAIN f.symbols : Slot(f, k) = r.sym
           parsed(r) == [section |-> Ours(f, r.sec), offset |-> r.off,
                         symbol |-> CHOOSE k \in DOMAIN f.symbols : Slot(f, k) = r.sym,
                         addend |-> AddendRead(f, r),
                         kind |-> kind(r)]
           Turn(b, k) == IF usable(f.relocs[k]) THEN Append(b, parsed(f.relocs[k])) ELSE b
           Run(g, n) == [k \in 0..n |-> IF k = 0 THEN <<>> ELSE Turn(g[k - 1], k)]
<1>0. N \in Nat
  BY SeqHas
<1>1. ParsedRelocs(f) = (CHOOSE g : g = Run(g, N))[N]
  BY DEF ParsedRelocs
<1>2. \A r : DOMAIN parsed(r) = RelocFields
  BY DEF RelocFields
<1> HIDE DEF parsed, usable
<1>3. \A k : \A b : IsSeq(b) /\ (\A x \in DOMAIN b : DOMAIN b[x] = RelocFields)
         => IsSeq(Turn(b, k)) /\ \A x \in DOMAIN Turn(b, k) : DOMAIN Turn(b, k)[x] = RelocFields
  <2>1. SUFFICES ASSUME NEW k, NEW b, IsSeq(b), \A x \in DOMAIN b : DOMAIN b[x] = RelocFields
                 PROVE  IsSeq(Turn(b, k)) /\ \A x \in DOMAIN Turn(b, k) : DOMAIN Turn(b, k)[x] = RelocFields
    OBVIOUS
  <2>2. CASE Turn(b, k) = b
    BY <2>1, <2>2
  <2>3. CASE Turn(b, k) # b
    <3> DEFINE p == parsed(f.relocs[k])
               c == Append(b, p)
    <3>1. Turn(b, k) = c
      BY <2>3
    <3>2. DOMAIN p = RelocFields
      BY <1>2
    <3> HIDE DEF p
    <3>3. /\ IsSeq(c) /\ Len(c) = Len(b) + 1 /\ c[Len(b) + 1] = p
          /\ \A x \in 1..Len(b) : c[x] = b[x]
      BY <2>1, SeqGrown
    <3>4. Len(b) \in Nat /\ DOMAIN b = 1..Len(b)
      BY <2>1, SeqHas
    <3> HIDE DEF c
    <3>5. DOMAIN c = 1..Len(c)
      BY <3>3, SeqHas
    <3>6. \A x \in DOMAIN c : x \in DOMAIN b \/ x = Len(b) + 1
      BY <3>3, <3>4, <3>5
    <3>7. \A x \in DOMAIN c : DOMAIN c[x] = RelocFields
      BY <2>1, <3>2, <3>3, <3>4, <3>6
    <3> HIDE DEF Turn
    <3>8. QED
      BY <3>1, <3>3, <3>7
  <2>4. QED
    BY <2>2, <2>3
<1> HIDE DEF Turn
<1>4. \A n \in Nat : \E g : g = Run(g, n)
  <2> DEFINE T == {n \in Nat : ~\E g : g = Run(g, n)}
  <2>1. SUFFICES ASSUME T # {} PROVE FALSE
    OBVIOUS
  <2>2. PICK m \in T : \A n \in T : m <= n
    BY <2>1, Least
  <2>3. m \in Nat /\ ~\E g : g = Run(g, m)
    OBVIOUS
  <2>4. CASE m = 0
    <3> DEFINE g == [k \in 0..0 |-> <<>>]
    <3>1. g = Run(g, 0)
      OBVIOUS
    <3>2. QED
      BY <2>3, <2>4, <3>1
  <2>5. CASE m # 0
    <3>1. m - 1 \in Nat /\ ~(m <= m - 1)
      BY <2>3, <2>5
    <3>2. m - 1 \notin T
      BY <2>2, <3>1
    <3>3. PICK g : g = Run(g, m - 1)
      BY <3>1, <3>2
    <3> DEFINE h == [k \in 0..m |-> IF k = m THEN Turn(g[m - 1], m) ELSE g[k]]
    <3>4. ASSUME NEW k \in 0..m
          PROVE  h[k] = IF k = 0 THEN <<>> ELSE Turn(h[k - 1], k)
      <4>1. CASE k = 0
        BY <2>3, <2>5, <3>3, <4>1
      <4>2. CASE k = m
        <5>1. m - 1 \in 0..m /\ m - 1 # m
          BY <2>3, <3>1
        <5>2. h[m - 1] = g[m - 1]
          BY <5>1
        <5>3. QED
          BY <2>5, <4>2, <5>2
      <4>3. CASE k # 0 /\ k # m
        <5>1. k \in 0..(m - 1) /\ k - 1 \in 0..m /\ k - 1 # m
          BY <2>3, <4>3
        <5>2. h[k] = g[k] /\ h[k - 1] = g[k - 1]
          BY <4>3, <5>1
        <5>3. g[k] = Turn(g[k - 1], k)
          BY <3>3, <4>3, <5>1
        <5>4. QED
          BY <4>3, <5>2, <5>3
      <4>4. QED
        BY <4>1, <4>2, <4>3
    <3>5. h = [k \in 0..m |-> h[k]]
      OBVIOUS
    <3> HIDE DEF h
    <3>6. h = Run(h, m)
      BY <3>4, <3>5
    <3>7. QED
      BY <2>3, <3>6
  <2>6. QED
    BY <2>4, <2>5
<1> DEFINE found == CHOOSE g : g = Run(g, N)
<1>5. found = Run(found, N)
  BY <1>0, <1>4
<1>6. ParsedRelocs(f) = found[N]
  BY <1>1
<1> HIDE DEF found
<1>7. 0 \in 0..N /\ \A k \in 1..N : k \in 0..N /\ k # 0
  BY <1>0
<1>8. found[0] = <<>> /\ \A k \in 1..N : found[k] = Turn(found[k - 1], k)
  BY <1>5, <1>7
<1> DEFINE Good(b) == IsSeq(b) /\ \A x \in DOMAIN b : DOMAIN b[x] = RelocFields
           B == {k \in 0..N : ~Good(found[k])}
<1>9. Good(<<>>)
  <2>1. <<>> \in Seq({})
    OBVIOUS
  <2>2. IsSeq(<<>>)
    BY <2>1, SeqIs
  <2>3. ASSUME NEW x \in DOMAIN <<>> PROVE FALSE
    OBVIOUS
  <2>4. QED
    BY <2>2, <2>3
<1>10. ASSUME NEW k \in 1..N, Good(found[k - 1]) PROVE Good(found[k])
  BY <1>3, <1>8, <1>10
<1> HIDE DEF Good
<1>11. ASSUME B # {} PROVE FALSE
  <2>1. B \in SUBSET Nat
    BY <1>0
  <2>2. PICK m \in B : \A n \in B : m <= n
    BY <1>11, <2>1, Least
  <2>3. m \in 0..N /\ ~Good(found[m])
    OBVIOUS
  <2>4. m # 0
    BY <1>8, <1>9, <2>3
  <2>5. m \in 1..N /\ m - 1 \in 0..N /\ ~(m <= m - 1)
    BY <1>0, <2>3, <2>4
  <2>6. Good(found[m - 1])
    BY <2>2, <2>5
  <2>7. QED
    BY <1>10, <2>3, <2>5, <2>6
<1>12. N \in 0..N
  BY <1>0
<1>13. Good(found[N])
  BY <1>11, <1>12
<1>14. QED
  BY <1>6, <1>13 DEF Good

\* The tables of the objects of a link job.
LEMMA TablesRead ==
    ASSUME ScaleAssumption, LinksAssumption, job \in Links
    PROVE  AreTables(Objects)
<1>1. ASSUME NEW i \in DOMAIN job.files PROVE IsTable(Objects[i])
  <2> DEFINE f == job.files[i]
  <2>1. /\ Objects[i].symbols = ParsedSymbols(f) /\ Objects[i].relocs = ParsedRelocs(f)
        /\ Objects[i].sections = ParsedSections(f)
    BY DEF Objects, Parsed
  <2>2. IsSeq(f.sections) /\ IsSeq(f.symbols) /\ IsSeq(f.relocs)
    BY DEF LinksAssumption, IsSeq
  <2> HIDE DEF f
  <2>3. DOMAIN ParsedSections(f) = 1..Cardinality(Kept(f))
    BY DEF ParsedSections
  <2>4. QED
    BY <2>1, <2>2, <2>3, SymbolsRead, RelocsRead DEF IsTable
<1>2. DOMAIN Objects = DOMAIN job.files
  BY DEF Objects
<1>3. QED
  BY <1>1, <1>2 DEF AreTables

-----------------------------------------------------------------------------
(* The tables of the merged object: those of the objects, one behind the     *)
(* other.                                                                    *)

\* Every object has a table, and `EntriesBefore' adds up their lengths.
HasTable(objs, table) ==
    /\ Len(objs) \in Nat /\ DOMAIN objs = 1..Len(objs)
    /\ \A i \in DOMAIN objs : Len(objs[i][table]) \in Nat
Adding(objs, table) ==
    /\ EntriesBefore(objs, table, 1) = 0
    /\ \A i \in 1..Len(objs) + 1 : EntriesBefore(objs, table, i) \in Nat
    /\ \A i \in 1..Len(objs) :
          EntriesBefore(objs, table, i + 1) = EntriesBefore(objs, table, i) + Len(objs[i][table])

LEMMA EntriesAdd ==
    ASSUME NEW objs, NEW table, HasTable(objs, table)
    PROVE  Adding(objs, table)
<1> DEFINE N == Len(objs)
           Turn(b, k) == b + Len(objs[k][table])
           Run(g, n) == [k \in 0..n |-> IF k = 0 THEN 0 ELSE Turn(g[k - 1], k)]
           sum == CHOOSE g : g = Run(g, N)
<1>1. \A i : EntriesBefore(objs, table, i) = sum[i - 1]
  BY DEF EntriesBefore
<1>2. N \in Nat /\ \A k \in 1..N : Len(objs[k][table]) \in Nat
  BY DEF HasTable
<1> HIDE DEF Turn
<1>3. \A n \in Nat : \E g : g = Run(g, n)
  <2> DEFINE T == {n \in Nat : ~\E g : g = Run(g, n)}
  <2>1. SUFFICES ASSUME T # {} PROVE FALSE
    OBVIOUS
  <2>2. PICK m \in T : \A n \in T : m <= n
    BY <2>1, Least
  <2>3. m \in Nat /\ ~\E g : g = Run(g, m)
    OBVIOUS
  <2>4. CASE m = 0
    <3> DEFINE g == [k \in 0..0 |-> 0]
    <3>1. g = Run(g, 0)
      OBVIOUS
    <3>2. QED
      BY <2>3, <2>4, <3>1
  <2>5. CASE m # 0
    <3>1. m - 1 \in Nat /\ ~(m <= m - 1)
      BY <2>3, <2>5
    <3>2. m - 1 \notin T
      BY <2>2, <3>1
    <3>3. PICK g : g = Run(g, m - 1)
      BY <3>1, <3>2
    <3> DEFINE h == [k \in 0..m |-> IF k = m THEN Turn(g[m - 1], m) ELSE g[k]]
    <3>4. ASSUME NEW k \in 0..m
          PROVE  h[k] = IF k = 0 THEN 0 ELSE Turn(h[k - 1], k)
      <4>1. CASE k = 0
        BY <2>3, <2>5, <3>3, <4>1
      <4>2. CASE k = m
        <5>1. m - 1 \in 0..m /\ m - 1 # m
          BY <2>3, <3>1
        <5>2. h[m - 1] = g[m - 1]
          BY <5>1
        <5>3. QED
          BY <2>5, <4>2, <5>2
      <4>3. CASE k # 0 /\ k # m
        <5>1. k \in 0..(m - 1) /\ k - 1 \in 0..m /\ k - 1 # m
          BY <2>3, <4>3
        <5>2. h[k] = g[k] /\ h[k - 1] = g[k - 1]
          BY <4>3, <5>1
        <5>3. g[k] = Turn(g[k - 1], k)
          BY <3>3, <4>3, <5>1
        <5>4. QED
          BY <4>3, <5>2, <5>3
      <4>4. QED
        BY <4>1, <4>2, <4>3
    <3>5. h = [k \in 0..m |-> h[k]]
      OBVIOUS
    <3> HIDE DEF h
    <3>6. h = Run(h, m)
      BY <3>4, <3>5
    <3>7. QED
      BY <2>3, <3>6
  <2>6. QED
    BY <2>4, <2>5
<1>4. sum = Run(sum, N)
  BY <1>2, <1>3
<1> HIDE DEF sum
<1>5. 0 \in 0..N /\ \A k \in 1..N : k \in 0..N /\ k # 0
  BY <1>2
<1>6. sum[0] = 0 /\ \A k \in 1..N : sum[k] = sum[k - 1] + Len(objs[k][table])
  BY <1>4, <1>5 DEF Turn
<1> DEFINE B == {k \in 0..N : sum[k] \notin Nat}
<1>7. ASSUME B # {} PROVE FALSE
  <2>1. B \in SUBSET Nat
    BY <1>2
  <2>2. PICK m \in B : \A n \in B : m <= n
    BY <1>7, <2>1, Least
  <2>3. m \in 0..N /\ sum[m] \notin Nat
    OBVIOUS
  <2>4. m # 0
    BY <1>6, <2>3
  <2>5. m \in 1..N /\ m - 1 \in 0..N /\ ~(m <= m - 1)
    BY <1>2, <2>3, <2>4
  <2>6. sum[m - 1] \in Nat
    BY <2>2, <2>5
  <2>7. QED
    BY <1>2, <1>6, <2>3, <2>5, <2>6
<1>8. \A k \in 0..N : sum[k] \in Nat
  BY <1>7
<1>9. EntriesBefore(objs, table, 1) = 0
  BY <1>1, <1>6
<1>10. ASSUME NEW i \in 1..N + 1 PROVE EntriesBefore(objs, table, i) \in Nat
  <2>1. i - 1 \in 0..N
    BY <1>2
  <2>2. QED
    BY <1>1, <1>8, <2>1
<1>11. ASSUME NEW i \in 1..N
       PROVE  EntriesBefore(objs, table, i + 1) = EntriesBefore(objs, table, i) + Len(objs[i][table])
  <2>1. i + 1 - 1 = i
    BY <1>2
  <2>2. EntriesBefore(objs, table, i + 1) = sum[i]
    BY <1>1, <2>1
  <2>3. EntriesBefore(objs, table, i) = sum[i - 1]
    BY <1>1
  <2>4. QED
    BY <1>6, <2>2, <2>3
<1>12. QED
  BY <1>9, <1>10, <1>11 DEF Adding

\* list is made of the parts, which replace the tables of the first objects.
Strung(objs, table, parts, list) ==
    /\ IsSeq(parts) /\ IsSeq(list) /\ Len(list) = EntriesBefore(objs, table, Len(parts) + 1)
    /\ \A i \in DOMAIN parts :
          /\ DOMAIN parts[i] = 1..Len(objs[i][table])
          /\ \A k \in DOMAIN parts[i] :
                /\ EntriesBefore(objs, table, i) + k \in DOMAIN list
                /\ list[EntriesBefore(objs, table, i) + k] = parts[i][k]

\* One part more.
LEMMA StrungOn ==
    ASSUME NEW objs, NEW table, HasTable(objs, table), NEW parts, NEW list,
           Strung(objs, table, parts, list), Len(parts) < Len(objs),
           NEW q, IsSeq(q), Len(q) = Len(objs[Len(parts) + 1][table])
    PROVE  Strung(objs, table, Append(parts, q), list \o q)
<1> DEFINE N == Len(objs)
           j == Len(parts) + 1
           more == Append(parts, q)
           both == list \o q
           e(k) == EntriesBefore(objs, table, k)
<1>1. IsSeq(parts) /\ IsSeq(list) /\ Len(list) = e(j)
  BY DEF Strung
<1>2. N \in Nat /\ DOMAIN objs = 1..N /\ \A i \in 1..N : Len(objs[i][table]) \in Nat
  BY DEF HasTable
<1>3. Len(parts) \in Nat /\ DOMAIN parts = 1..Len(parts)
  BY <1>1, SeqHas
<1>4. /\ IsSeq(more) /\ Len(more) = Len(parts) + 1 /\ more[j] = q
      /\ \A k \in 1..Len(parts) : more[k] = parts[k]
  BY <1>1, SeqGrown
<1>5. /\ IsSeq(both) /\ Len(both) = Len(list) + Len(q)
      /\ \A k \in 1..Len(list) : both[k] = list[k]
      /\ \A k \in 1..Len(q) : both[Len(list) + k] = q[k]
  BY <1>1, SeqJoined
<1> HIDE DEF more, both, e
<1>6. Len(list) \in Nat /\ DOMAIN list = 1..Len(list) /\ Len(q) \in Nat /\ DOMAIN q = 1..Len(q)
  BY <1>1, SeqHas
<1>7. DOMAIN more = 1..j /\ DOMAIN both = 1..Len(list) + Len(q)
  BY <1>4, <1>5, SeqHas
<1>8. j \in 1..N /\ Len(more) + 1 = j + 1
  BY <1>2, <1>3, <1>4
<1>9. Len(both) = e(Len(more) + 1)
  <2>1. e(j + 1) = e(j) + Len(objs[j][table])
    BY <1>8, EntriesAdd DEF Adding, e
  <2>2. QED
    BY <1>1, <1>5, <1>8, <2>1
<1>10. ASSUME NEW i \in DOMAIN more
       PROVE  /\ DOMAIN more[i] = 1..Len(objs[i][table])
              /\ \A k \in DOMAIN more[i] : e(i) + k \in DOMAIN both /\ both[e(i) + k] = more[i][k]
  <2>1. CASE i = j
    <3>1. more[i] = q /\ e(i) = Len(list)
      BY <1>1, <1>4, <2>1
    <3>2. ASSUME NEW k \in DOMAIN q PROVE Len(list) + k \in DOMAIN both /\ both[Len(list) + k] = q[k]
      BY <1>5, <1>6, <1>7
    <3>3. QED
      BY <1>6, <2>1, <3>1, <3>2
  <2>2. CASE i # j
    <3>1. i \in DOMAIN parts /\ more[i] = parts[i]
      BY <1>3, <1>4, <1>7, <2>2
    <3>2. /\ DOMAIN parts[i] = 1..Len(objs[i][table])
          /\ \A k \in DOMAIN parts[i] : e(i) + k \in DOMAIN list /\ list[e(i) + k] = parts[i][k]
      BY <3>1 DEF Strung, e
    <3>3. \A x \in DOMAIN list : x \in DOMAIN both /\ both[x] = list[x]
      BY <1>5, <1>6, <1>7
    <3>4. QED
      BY <3>1, <3>2, <3>3
  <2>3. QED
    BY <2>1, <2>2
<1>11. QED
  BY <1>4, <1>5, <1>9, <1>10 DEF Strung, more, both, e

\* Every entry is one of a part.
LEMMA StrungAll ==
    ASSUME NEW objs, NEW table, HasTable(objs, table), NEW parts, NEW list,
           Strung(objs, table, parts, list), Len(parts) <= Len(objs),
           NEW x \in DOMAIN list
    PROVE  \E i \in DOMAIN parts : \E k \in DOMAIN parts[i] : x = EntriesBefore(objs, table, i) + k
<1> DEFINE N == Len(parts)
           e(k) == EntriesBefore(objs, table, k)
           T == {k \in 1..N + 1 : x <= e(k)}
<1>1. IsSeq(parts) /\ IsSeq(list) /\ Len(list) = e(N + 1)
  BY DEF Strung
<1>2. N \in Nat /\ DOMAIN parts = 1..N /\ Len(list) \in Nat /\ DOMAIN list = 1..Len(list)
  BY <1>1, SeqHas
<1>3. /\ Len(objs) \in Nat /\ \A k \in 1..N + 1 : k \in 1..Len(objs) + 1
      /\ \A k \in 1..N : k \in 1..Len(objs) /\ k \in DOMAIN objs
  BY <1>2 DEF HasTable
<1>4. /\ e(1) = 0 /\ \A k \in 1..N + 1 : e(k) \in Nat
      /\ \A k \in 1..N : e(k + 1) = e(k) + Len(objs[k][table]) /\ Len(objs[k][table]) \in Nat
  BY <1>3, EntriesAdd DEF Adding, HasTable
<1> HIDE DEF e
<1>5. x \in Nat /\ x >= 1 /\ x <= e(N + 1) /\ N + 1 \in T
  BY <1>1, <1>2
<1>6. T \in SUBSET Nat /\ T # {}
  BY <1>2, <1>5
<1>7. PICK m \in T : \A n \in T : m <= n
  BY <1>6, Least
<1>8. m \in 1..N + 1 /\ x <= e(m)
  OBVIOUS
<1>9. m # 1
  BY <1>4, <1>5, <1>8
<1> DEFINE i == m - 1
<1>10. i \in 1..N /\ i \in 1..N + 1 /\ i + 1 = m /\ ~(m <= i)
  BY <1>2, <1>8, <1>9
<1> HIDE DEF i
<1>11. ~(x <= e(i))
  BY <1>7, <1>10
<1>12. e(m) = e(i) + Len(objs[i][table]) /\ Len(objs[i][table]) \in Nat /\ e(i) \in Nat
  BY <1>4, <1>10
<1> DEFINE k == x - e(i)
<1>13. k \in 1..Len(objs[i][table]) /\ x = e(i) + k
  BY <1>5, <1>8, <1>11, <1>12
<1> HIDE DEF k
<1>14. k \in DOMAIN parts[i] /\ i \in DOMAIN parts
  BY <1>2, <1>10, <1>13 DEF Strung
<1>15. QED
  BY <1>13, <1>14 DEF e

-----------------------------------------------------------------------------
(* The state of the linker.                                                  *)

\* The words of each contribution, but for those that relocations have written.
KeptWords(objs, secs, pl, relocs, n) ==
    \A i \in DOMAIN pl : \A a \in DOMAIN pl[i] : \A k \in DOMAIN objs[i].sections[a].data :
        \/ secs[pl[i][a].sec].data[pl[i][a].off + k] = objs[i].sections[a].data[k]
        \/ \E m \in 1..n : relocs[m].section = pl[i][a].sec /\ pl[i][a].off + k \in FieldOf(relocs[m])

AllFit(objs, secs, pl) ==
    \A i \in DOMAIN pl :
        /\ DOMAIN pl[i] = DOMAIN objs[i].sections
        /\ \A a \in DOMAIN pl[i] : Fits(secs, pl[i][a], objs[i].sections[a])

Linked(objs, secs, pl, relocs, n) ==
    /\ Tidy(secs) /\ IsSeq(pl) /\ Len(pl) <= Len(objs)
    /\ AllFit(objs, secs, pl) /\ InOrder(objs, pl)
    /\ KeptWords(objs, secs, pl, relocs, n)

Apart(secs, va, ord) ==
    /\ \A n \in DOMAIN ord : ord[n] \in DOMAIN secs
    /\ \A m, n \in DOMAIN ord : m < n => va[ord[m]] + VaSize(secs[ord[m]]) <= va[ord[n]]

\* The inductive invariant.
LinkInv ==
    /\ job \in Links
    /\ DOMAIN out = {"sections", "symbols", "relocs"}
    /\ applied \in Nat
    /\ Linked(Objects, out.sections, placed, out.relocs, applied)
    /\ Apart(out.sections, secVa, order)
    /\ phase \in {"merge", "layout"} => order = <<>>
    /\ phase = "merge" => Merging(Objects, out.sections, placed)
    /\ phase \notin {"merge", "failed"} => Len(placed) = Len(Objects)

\* What was merged is linked, whatever the relocations.
LEMMA MergedIsLinked ==
    ASSUME NEW objs, NEW secs, NEW pl, Merging(objs, secs, pl), IsSeq(pl), Len(pl) <= Len(objs),
           \A i \in DOMAIN pl : DOMAIN pl[i] = DOMAIN objs[i].sections,
           NEW relocs, NEW n
    PROVE  Linked(objs, secs, pl, relocs, n)
<1>1. AllFit(objs, secs, pl)
  BY DEF Merging, InPlace, Holds, AllFit
<1>2. KeptWords(objs, secs, pl, relocs, n)
  BY DEF Merging, InPlace, Holds, KeptWords
<1>3. QED
  BY <1>1, <1>2 DEF Merging, Linked

\* The sections only grow, and only the fields of relocations are overwritten.
OnlyFields(secs, later, relocs, l) ==
    \A x \in DOMAIN secs :
        /\ x \in DOMAIN later /\ later[x].name = secs[x].name
        /\ Len(secs[x].data) <= Len(later[x].data)
        /\ \A k \in DOMAIN secs[x].data :
              \/ later[x].data[k] = secs[x].data[k]
              \/ \E m \in 1..l : relocs[m].section = x /\ k \in FieldOf(relocs[m])

\* What is linked stays so.
LEMMA StaysLinked ==
    ASSUME NEW objs, AreObjects(objs), NEW secs, NEW pl, NEW relocs, NEW n \in Nat,
           Linked(objs, secs, pl, relocs, n),
           NEW later, Tidy(later), NEW l \in Nat, n <= l,
           OnlyFields(secs, later, relocs, l)
    PROVE  Linked(objs, later, pl, relocs, l)
<1>0. \A x \in DOMAIN secs :
         /\ x \in DOMAIN later /\ later[x].name = secs[x].name
         /\ Len(secs[x].data) <= Len(later[x].data)
         /\ \A k \in DOMAIN secs[x].data :
               \/ later[x].data[k] = secs[x].data[k]
               \/ \E m \in 1..l : relocs[m].section = x /\ k \in FieldOf(relocs[m])
  BY DEF OnlyFields
<1>1. \A x \in DOMAIN secs : Len(secs[x].data) \in Nat /\ DOMAIN secs[x].data = 1..Len(secs[x].data)
  BY SeqHas DEF Linked, Tidy, IsSec
<1>2. \A x \in DOMAIN later : Len(later[x].data) \in Nat
  BY SeqHas DEF Tidy, IsSec
<1>3. DOMAIN objs = 1..Len(objs) /\ Len(objs) \in Nat /\ DOMAIN pl = 1..Len(pl) /\ Len(pl) \in Nat
  BY SeqHas DEF AreObjects, Linked
<1>4. \A i \in DOMAIN pl : i \in DOMAIN objs
  BY <1>3 DEF Linked
<1>5. ASSUME NEW i \in DOMAIN pl, NEW a \in DOMAIN pl[i]
      PROVE  LET p == pl[i][a]  s == objs[i].sections[a]
             IN /\ p.sec \in DOMAIN secs /\ p.off \in Nat /\ secs[p.sec].name = s.name
                /\ p.off + Len(s.data) <= Len(secs[p.sec].data)
                /\ Len(s.data) \in Nat /\ DOMAIN s.data = 1..Len(s.data)
  <2>1. Fits(secs, pl[i][a], objs[i].sections[a]) /\ a \in DOMAIN objs[i].sections
    BY DEF Linked, AllFit
  <2>2. IsSeq(objs[i].sections[a].data)
    BY <1>4, <2>1 DEF AreObjects, IsBrought, IsSec
  <2>3. QED
    BY <2>1, <2>2, SeqHas DEF Fits
<1>6. AllFit(objs, later, pl)
  <2>1. ASSUME NEW i \in DOMAIN pl, NEW a \in DOMAIN pl[i]
        PROVE  Fits(later, pl[i][a], objs[i].sections[a])
    <3> DEFINE p == pl[i][a]
               s == objs[i].sections[a]
    <3>1. /\ p.sec \in DOMAIN secs /\ p.off \in Nat /\ secs[p.sec].name = s.name
          /\ p.off + Len(s.data) <= Len(secs[p.sec].data)
          /\ Len(s.data) \in Nat
      BY <1>5
    <3> HIDE DEF p, s
    <3>2. p.sec \in DOMAIN later /\ later[p.sec].name = secs[p.sec].name
          /\ Len(secs[p.sec].data) <= Len(later[p.sec].data)
      BY <1>0, <3>1
    <3>3. p.off + Len(s.data) <= Len(later[p.sec].data)
      BY <1>1, <1>2, <3>1, <3>2
    <3>4. Fits(later, p, s)
      BY <3>1, <3>2, <3>3 DEF Fits
    <3>5. QED
      BY <3>4 DEF p, s
  <2>2. \A i \in DOMAIN pl : DOMAIN pl[i] = DOMAIN objs[i].sections
    BY DEF Linked, AllFit
  <2>3. QED
    BY <2>1, <2>2 DEF AllFit
<1>7. KeptWords(objs, later, pl, relocs, l)
  <2>1. ASSUME NEW i \in DOMAIN pl, NEW a \in DOMAIN pl[i], NEW k \in DOMAIN objs[i].sections[a].data
        PROVE  \/ later[pl[i][a].sec].data[pl[i][a].off + k] = objs[i].sections[a].data[k]
               \/ \E m \in 1..l : relocs[m].section = pl[i][a].sec /\ pl[i][a].off + k \in FieldOf(relocs[m])
    <3> DEFINE p == pl[i][a]
               s == objs[i].sections[a]
               field(m) == relocs[m].section = p.sec /\ p.off + k \in FieldOf(relocs[m])
    <3>1. \/ secs[p.sec].data[p.off + k] = s.data[k]
          \/ \E m \in 1..n : field(m)
      BY DEF Linked, KeptWords
    <3>2. /\ p.sec \in DOMAIN secs /\ p.off \in Nat
          /\ p.off + Len(s.data) <= Len(secs[p.sec].data)
          /\ Len(s.data) \in Nat /\ k \in 1..Len(s.data)
      BY <1>5
    <3> HIDE DEF p, s
    <3>3. p.off + k \in DOMAIN secs[p.sec].data
      BY <1>1, <3>2
    <3>4. \/ later[p.sec].data[p.off + k] = secs[p.sec].data[p.off + k]
          \/ \E m \in 1..l : field(m)
      BY <1>0, <3>2, <3>3
    <3>5. \A m \in 1..n : m \in 1..l
      OBVIOUS
    <3> HIDE DEF field
    <3>6. later[p.sec].data[p.off + k] = s.data[k] \/ \E m \in 1..l : field(m)
      BY <3>1, <3>4, <3>5
    <3>7. QED
      BY <3>6 DEF p, s, field
  <2>2. QED
    BY <2>1 DEF KeptWords
<1>8. QED
  BY <1>6, <1>7 DEF Linked

\* Nothing is linked at first.
LEMMA LinkInit ==
    ASSUME ScaleAssumption, LinksAssumption, LinkerInit
    PROVE  LinkInv
<1>1. /\ job \in Links /\ placed = <<>> /\ order = <<>> /\ applied = 0
      /\ out = [sections |-> <<>>, symbols |-> <<>>, relocs |-> <<>>] /\ phase = "merge"
  BY DEF LinkerInit, NothingLinked
<1>2. out.sections = <<>> /\ DOMAIN out = {"sections", "symbols", "relocs"}
  BY <1>1
<1>3. IsSeq(<<>>) /\ Len(<<>>) = 0 /\ \A x : x \notin DOMAIN <<>>
  <2>1. <<>> \in Seq({}) /\ Len(<<>>) = 0
    <3>1. <<>> \in Seq({})
      OBVIOUS
    <3>2. QED
      BY <3>1, EmptySeq
  <2>2. IsSeq(<<>>)
    BY <2>1, SeqIs
  <2>3. ASSUME NEW x \in DOMAIN <<>> PROVE FALSE
    OBVIOUS
  <2>4. QED
    BY <2>1, <2>2, <2>3
<1>4. AreObjects(Objects)
  BY <1>1, ObjectsRead
<1>5. Len(Objects) \in Nat
  BY <1>4, SeqHas DEF AreObjects
<1>6. Merging(Objects, <<>>, <<>>)
  BY <1>3 DEF Merging, Tidy, InPlace, InOrder
<1>7. Linked(Objects, <<>>, <<>>, out.relocs, applied)
  BY <1>3, <1>5, <1>6, MergedIsLinked
<1>8. Apart(<<>>, secVa, <<>>)
  BY <1>3 DEF Apart
<1>9. QED
  BY <1>1, <1>2, <1>6, <1>7, <1>8 DEF LinkInv


-----------------------------------------------------------------------------
(* Symbols and relocations are moved with their sections.                    *)

\* The symbols of an object, moved, and its relocations.
SymbolsOf(objs, pl, i) == [k \in DOMAIN objs[i].symbols |-> MovedSymbol(objs[i].symbols[k], pl[i])]
RelocsOf(objs, pl, i) ==
    [k \in DOMAIN objs[i].relocs |->
        MovedReloc(objs[i].relocs[k], pl[i], EntriesBefore(objs, "symbols", i))]
SymbolsIn(objs, pl, list) ==
    \E parts : /\ Strung(objs, "symbols", parts, list) /\ Len(parts) = Len(pl)
               /\ \A i \in DOMAIN pl : parts[i] = SymbolsOf(objs, pl, i)
RelocsIn(objs, pl, list) ==
    \E parts : /\ Strung(objs, "relocs", parts, list) /\ Len(parts) = Len(pl)
               /\ \A i \in DOMAIN pl : parts[i] = RelocsOf(objs, pl, i)

\* Every object has both tables.
LEMMA BothTables ==
    ASSUME NEW objs, AreObjects(objs), AreTables(objs)
    PROVE  HasTable(objs, "symbols") /\ HasTable(objs, "relocs")
<1>1. Len(objs) \in Nat /\ DOMAIN objs = 1..Len(objs)
  BY SeqHas DEF AreObjects
<1>2. ASSUME NEW i \in DOMAIN objs PROVE Len(objs[i].symbols) \in Nat /\ Len(objs[i].relocs) \in Nat
  BY SeqHas DEF AreTables, IsTable
<1>3. QED
  BY <1>1, <1>2 DEF HasTable

\* At the place of an entry is the entry, moved.
LEMMA SymbolAt ==
    ASSUME NEW objs, NEW pl, IsSeq(pl), NEW list, SymbolsIn(objs, pl, list),
           NEW i \in DOMAIN pl, NEW k \in DOMAIN objs[i].symbols
    PROVE  /\ EntriesBefore(objs, "symbols", i) + k \in DOMAIN list
           /\ list[EntriesBefore(objs, "symbols", i) + k] = MovedSymbol(objs[i].symbols[k], pl[i])
<1>1. PICK parts : /\ Strung(objs, "symbols", parts, list) /\ Len(parts) = Len(pl)
                   /\ \A x \in DOMAIN pl : parts[x] = SymbolsOf(objs, pl, x)
  BY DEF SymbolsIn
<1>2. DOMAIN parts = DOMAIN pl
  BY <1>1, SeqHas DEF Strung
<1>3. parts[i] = [y \in DOMAIN objs[i].symbols |-> MovedSymbol(objs[i].symbols[y], pl[i])]
  BY <1>1 DEF SymbolsOf
<1>4. k \in DOMAIN parts[i] /\ parts[i][k] = MovedSymbol(objs[i].symbols[k], pl[i])
  BY <1>3
<1>5. QED
  BY <1>1, <1>2, <1>4 DEF Strung

LEMMA RelocAt ==
    ASSUME NEW objs, NEW pl, IsSeq(pl), NEW list, RelocsIn(objs, pl, list),
           NEW i \in DOMAIN pl, NEW k \in DOMAIN objs[i].relocs
    PROVE  list[EntriesBefore(objs, "relocs", i) + k] =
              MovedReloc(objs[i].relocs[k], pl[i], EntriesBefore(objs, "symbols", i))
<1>1. PICK parts : /\ Strung(objs, "relocs", parts, list) /\ Len(parts) = Len(pl)
                   /\ \A x \in DOMAIN pl : parts[x] = RelocsOf(objs, pl, x)
  BY DEF RelocsIn
<1>2. DOMAIN parts = DOMAIN pl
  BY <1>1, SeqHas DEF Strung
<1> DEFINE base == EntriesBefore(objs, "symbols", i)
<1>3. parts[i] = [y \in DOMAIN objs[i].relocs |-> MovedReloc(objs[i].relocs[y], pl[i], base)]
  BY <1>1 DEF RelocsOf
<1> HIDE DEF base
<1>4. k \in DOMAIN parts[i] /\ parts[i][k] = MovedReloc(objs[i].relocs[k], pl[i], base)
  BY <1>3
<1>5. QED
  BY <1>1, <1>2, <1>4 DEF Strung, base

\* The tables after one object more.
LEMMA SymbolsGrow ==
    ASSUME NEW objs, AreObjects(objs), AreTables(objs), NEW pl, IsSeq(pl), Len(pl) < Len(objs),
           NEW list, SymbolsIn(objs, pl, list), NEW at, NEW syms,
           syms = [k \in DOMAIN objs[Len(pl) + 1].symbols |->
                      MovedSymbol(objs[Len(pl) + 1].symbols[k], at)]
    PROVE  SymbolsIn(objs, Append(pl, at), list \o syms)
<1> DEFINE j == Len(pl) + 1
           more == Append(pl, at)
           both == list \o syms
<1>1. PICK parts : /\ Strung(objs, "symbols", parts, list) /\ Len(parts) = Len(pl)
                   /\ \A x \in DOMAIN pl : parts[x] = SymbolsOf(objs, pl, x)
  BY DEF SymbolsIn
<1>2. /\ Len(pl) \in Nat /\ DOMAIN pl = 1..Len(pl) /\ IsSeq(parts)
      /\ Len(objs) \in Nat /\ DOMAIN objs = 1..Len(objs)
  BY <1>1, SeqHas DEF AreObjects, Strung
<1>3. j \in DOMAIN objs
  BY <1>2
<1>4. HasTable(objs, "symbols")
  BY BothTables
<1>5. IsSeq(objs[j].symbols)
  BY <1>3 DEF AreTables, IsTable
<1>6. Len(objs[j].symbols) \in Nat /\ DOMAIN objs[j].symbols = 1..Len(objs[j].symbols)
  BY <1>5, SeqHas
<1>7. IsSeq(syms) /\ Len(syms) = Len(objs[j].symbols)
  <2>1. syms = [k \in 1..Len(objs[j].symbols) |-> syms[k]]
    BY <1>6
  <2> HIDE DEF j
  <2>2. QED
    BY <1>6, <2>1, SeqMade
<1> DEFINE next == Append(parts, syms)
<1>8. Strung(objs, "symbols", next, both)
  BY <1>1, <1>4, <1>7, StrungOn
<1>9. /\ Len(next) = Len(parts) + 1 /\ next[j] = syms /\ \A k \in 1..Len(parts) : next[k] = parts[k]
  BY <1>1, <1>2, SeqGrown
<1>10. /\ IsSeq(more) /\ Len(more) = j /\ more[j] = at /\ \A k \in 1..Len(pl) : more[k] = pl[k]
  BY SeqGrown
<1> HIDE DEF next, more, both
<1>11. DOMAIN more = 1..j
  BY <1>10, SeqHas
<1>12. ASSUME NEW i \in DOMAIN more PROVE next[i] = SymbolsOf(objs, more, i)
  <2>1. CASE i = j
    BY <1>9, <1>10, <2>1 DEF SymbolsOf
  <2>2. CASE i # j
    <3>1. i \in DOMAIN pl
      BY <1>2, <1>11, <2>2
    <3>2. next[i] = parts[i] /\ more[i] = pl[i]
      BY <1>1, <1>2, <1>9, <1>10, <3>1
    <3>3. QED
      BY <1>1, <3>1, <3>2 DEF SymbolsOf
  <2>3. QED
    BY <2>1, <2>2
<1>13. Len(next) = Len(more)
  BY <1>1, <1>9, <1>10
<1>14. SymbolsIn(objs, more, both)
  BY <1>8, <1>12, <1>13 DEF SymbolsIn
<1>15. QED
  BY <1>14 DEF more, both

LEMMA RelocsGrow ==
    ASSUME NEW objs, AreObjects(objs), AreTables(objs), NEW pl, IsSeq(pl), Len(pl) < Len(objs),
           NEW list, RelocsIn(objs, pl, list), NEW at, NEW rels,
           rels = [k \in DOMAIN objs[Len(pl) + 1].relocs |->
                      MovedReloc(objs[Len(pl) + 1].relocs[k], at, EntriesBefore(objs, "symbols", Len(pl) + 1))]
    PROVE  RelocsIn(objs, Append(pl, at), list \o rels)
<1> DEFINE j == Len(pl) + 1
           more == Append(pl, at)
           both == list \o rels
<1>1. PICK parts : /\ Strung(objs, "relocs", parts, list) /\ Len(parts) = Len(pl)
                   /\ \A x \in DOMAIN pl : parts[x] = RelocsOf(objs, pl, x)
  BY DEF RelocsIn
<1>2. /\ Len(pl) \in Nat /\ DOMAIN pl = 1..Len(pl) /\ IsSeq(parts)
      /\ Len(objs) \in Nat /\ DOMAIN objs = 1..Len(objs)
  BY <1>1, SeqHas DEF AreObjects, Strung
<1>3. j \in DOMAIN objs
  BY <1>2
<1>4. HasTable(objs, "relocs")
  BY BothTables
<1>5. IsSeq(objs[j].relocs)
  BY <1>3 DEF AreTables, IsTable
<1>6. Len(objs[j].relocs) \in Nat /\ DOMAIN objs[j].relocs = 1..Len(objs[j].relocs)
  BY <1>5, SeqHas
<1>7. IsSeq(rels) /\ Len(rels) = Len(objs[j].relocs)
  <2>1. rels = [k \in 1..Len(objs[j].relocs) |-> rels[k]]
    BY <1>6
  <2> HIDE DEF j
  <2>2. QED
    BY <1>6, <2>1, SeqMade
<1> DEFINE next == Append(parts, rels)
<1>8. Strung(objs, "relocs", next, both)
  BY <1>1, <1>4, <1>7, StrungOn
<1>9. /\ Len(next) = Len(parts) + 1 /\ next[j] = rels /\ \A k \in 1..Len(parts) : next[k] = parts[k]
  BY <1>1, <1>2, SeqGrown
<1>10. /\ IsSeq(more) /\ Len(more) = j /\ more[j] = at /\ \A k \in 1..Len(pl) : more[k] = pl[k]
  BY SeqGrown
<1> HIDE DEF next, more, both
<1>11. DOMAIN more = 1..j
  BY <1>10, SeqHas
<1>12. ASSUME NEW i \in DOMAIN more PROVE next[i] = RelocsOf(objs, more, i)
  <2>1. CASE i = j
    BY <1>9, <1>10, <2>1 DEF RelocsOf
  <2>2. CASE i # j
    <3>1. i \in DOMAIN pl
      BY <1>2, <1>11, <2>2
    <3>2. next[i] = parts[i] /\ more[i] = pl[i]
      BY <1>1, <1>2, <1>9, <1>10, <3>1
    <3>3. QED
      BY <1>1, <3>1, <3>2 DEF RelocsOf
  <2>3. QED
    BY <2>1, <2>2
<1>13. Len(next) = Len(more)
  BY <1>1, <1>9, <1>10
<1>14. RelocsIn(objs, more, both)
  BY <1>8, <1>12, <1>13 DEF RelocsIn
<1>15. QED
  BY <1>14 DEF more, both

\* The first of the merged symbols has the number that the next one gets.
LEMMA SymbolsBase ==
    ASSUME NEW objs, NEW pl, NEW list, SymbolsIn(objs, pl, list)
    PROVE  Len(list) = EntriesBefore(objs, "symbols", Len(pl) + 1)
BY DEF SymbolsIn, Strung

-----------------------------------------------------------------------------
(* What resolution makes of the symbols.                                     *)

\* What becomes of symbol k of object i: it is moved with its section; an
\* undefined one is bound to a definition of its name, if there is one.
BoundTo(objs, pl, t, name) ==
    \E j \in DOMAIN pl : \E m \in DOMAIN objs[j].symbols :
        /\ Defines(objs[j].symbols[m], name)
        /\ IsMoved(t, objs[j].symbols[m], pl[j][objs[j].symbols[m].section])
NoneDefines(objs, pl, name) ==
    \A j \in DOMAIN pl : \A m \in DOMAIN objs[j].symbols : ~Defines(objs[j].symbols[m], name)
Became(objs, pl, i, s, t, all) ==
    /\ t.name = s.name
    /\ s.section # NoSection => IsMoved(t, s, pl[i][s.section])
    /\ s.section = NoSection /\ t # s => BoundTo(objs, pl, t, s.name)
    /\ s.section = NoSection /\ t = s /\ s.name # "" /\ all => NoneDefines(objs, pl, s.name)
AllBecame(objs, pl, syms, all) ==
    \A i \in DOMAIN pl : \A k \in DOMAIN objs[i].symbols :
        Became(objs, pl, i, objs[i].symbols[k], syms[EntriesBefore(objs, "symbols", i) + k], all)

\* A symbol that is moved keeps its name and defines what it defined.
MovesWell(s, at, t) ==
    /\ DOMAIN t = SymbolFields /\ t.name = s.name
    /\ s.section = NoSection => t = s
    /\ s.section # NoSection => t.section # NoSection /\ IsMoved(t, s, at[s.section])
    /\ \A name : Defines(t, name) <=> Defines(s, name)

LEMMA MovedIs ==
    ASSUME NEW s, DOMAIN s = SymbolFields, NEW at,
           s.section # NoSection => at[s.section].sec # NoSection
    PROVE  MovesWell(s, at, MovedSymbol(s, at))
<1> DEFINE t == MovedSymbol(s, at)
<1>1. CASE s.section = NoSection
  <2>1. t = s
    BY <1>1 DEF MovedSymbol
  <2> HIDE DEF t
  <2>2. MovesWell(s, at, t)
    BY <1>1, <2>1 DEF MovesWell
  <2>3. QED
    BY <2>2 DEF t
<1>2. CASE s.section # NoSection
  <2> DEFINE sec == at[s.section].sec
             val == s.value + at[s.section].off
  <2>1. t = [s EXCEPT !.section = sec, !.value = val]
    BY <1>2 DEF MovedSymbol
  <2>2. sec # NoSection
    BY <1>2
  <2> HIDE DEF t, sec, val
  <2>3. /\ DOMAIN t = SymbolFields /\ t.name = s.name /\ t.bind = s.bind
        /\ t.section = sec /\ t.value = val
    BY <2>1 DEF SymbolFields
  <2>4. IsMoved(t, s, at[s.section])
    BY <2>3 DEF IsMoved, sec, val
  <2>5. \A name : Defines(t, name) <=> Defines(s, name)
    BY <1>2, <2>2, <2>3 DEF Defines
  <2>6. MovesWell(s, at, t)
    BY <1>2, <2>2, <2>3, <2>4, <2>5 DEF MovesWell
  <2>7. QED
    BY <2>6 DEF t
<1>3. QED
  BY <1>1, <1>2

\* The first symbol of a list that defines a name.
LEMMA FoundFirst ==
    ASSUME NEW syms, IsSeq(syms), NEW name, NEW d, d = Definition(syms, name)
    PROVE  \/ d = 0 /\ \A x \in DOMAIN syms : ~Defines(syms[x], name)
           \/ /\ d \in DOMAIN syms /\ Defines(syms[d], name)
              /\ \A x \in DOMAIN syms : Defines(syms[x], name) => d <= x
<1> DEFINE I == {x \in 1..Len(syms) : Defines(syms[x], name)}
<1>1. d = IF I # {} THEN Min(I) ELSE 0
  BY DEF Definition, SelectInSeq
<1>2. DOMAIN syms = 1..Len(syms) /\ Len(syms) \in Nat
  BY SeqHas
<1>3. CASE I = {}
  BY <1>1, <1>2, <1>3
<1>4. CASE I # {}
  <2>1. I \subseteq Nat
    BY <1>2
  <2> HIDE DEF I
  <2>2. \E i \in I : \A j \in I : i <= j
    BY <1>4, <2>1, Least
  <2>3. Min(I) \in I /\ \A j \in I : Min(I) <= j
    BY <2>2 DEF Min
  <2>4. d \in I /\ \A j \in I : d <= j
    BY <1>1, <1>4, <2>3
  <2>5. QED
    BY <1>2, <2>4 DEF I
<1>5. QED
  BY <1>3, <1>4

\* The symbols of an object, with the places of its sections.
LEMMA SymbolsFit ==
    ASSUME NEW objs, AreObjects(objs), AreTables(objs), NEW secs, Tidy(secs), NEW pl, IsSeq(pl),
           Len(pl) <= Len(objs), AllFit(objs, secs, pl),
           NEW i \in DOMAIN pl, NEW k \in DOMAIN objs[i].symbols
    PROVE  /\ i \in DOMAIN objs /\ k \in 1..Len(objs[i].symbols)
           /\ MovesWell(objs[i].symbols[k], pl[i], MovedSymbol(objs[i].symbols[k], pl[i]))
<1>1. i \in DOMAIN objs
  BY SeqHas DEF AreObjects
<1>2. IsTable(objs[i])
  BY <1>1 DEF AreTables
<1>3. k \in 1..Len(objs[i].symbols)
  BY <1>2, SeqHas DEF IsTable
<1> DEFINE s == objs[i].symbols[k]
<1>4. DOMAIN s = SymbolFields /\ (s.section = NoSection \/ s.section \in DOMAIN objs[i].sections)
  BY <1>2 DEF IsTable
<1>5. ASSUME s.section # NoSection PROVE pl[i][s.section].sec # NoSection
  <2>1. s.section \in DOMAIN pl[i]
    BY <1>4, <1>5 DEF AllFit
  <2>2. pl[i][s.section].sec \in DOMAIN secs
    BY <2>1 DEF AllFit, Fits
  <2>3. QED
    BY <2>2, SeqHas DEF Tidy, NoSection
<1> HIDE DEF s
<1>6. MovesWell(s, pl[i], MovedSymbol(s, pl[i]))
  BY <1>4, <1>5, MovedIs
<1>7. QED
  BY <1>1, <1>3, <1>6 DEF s

\* Before resolution, undefined symbols stay what they are.
LEMMA MergedBecame ==
    ASSUME NEW objs, AreObjects(objs), AreTables(objs), NEW secs, Tidy(secs), NEW pl, IsSeq(pl),
           Len(pl) <= Len(objs), AllFit(objs, secs, pl), NEW syms, SymbolsIn(objs, pl, syms)
    PROVE  AllBecame(objs, pl, syms, FALSE)
<1>1. ASSUME NEW i \in DOMAIN pl, NEW k \in DOMAIN objs[i].symbols
      PROVE  Became(objs, pl, i, objs[i].symbols[k],
                    syms[EntriesBefore(objs, "symbols", i) + k], FALSE)
  <2> DEFINE s == objs[i].symbols[k]
             t == MovedSymbol(s, pl[i])
  <2>1. MovesWell(s, pl[i], t)
    BY SymbolsFit
  <2>2. syms[EntriesBefore(objs, "symbols", i) + k] = t
    BY SymbolAt
  <2> HIDE DEF s, t
  <2>3. Became(objs, pl, i, s, t, FALSE)
    BY <2>1 DEF MovesWell, Became
  <2>4. QED
    BY <2>2, <2>3 DEF s
<1>2. QED
  BY <1>1 DEF AllBecame

\* The copy of a symbol that is resolved.
Copied(syms, s) ==
    LET d == Definition(syms, s.name)
    IN IF s.section # NoSection \/ s.name = "" \/ d = 0 THEN s
       ELSE [s EXCEPT !.section = syms[d].section, !.value = syms[d].value, !.bind = syms[d].bind]

\* Resolution binds undefined symbols to a definition of their name.
LEMMA ResolvedBecame ==
    ASSUME NEW objs, AreObjects(objs), AreTables(objs), NEW secs, Tidy(secs), NEW pl, IsSeq(pl),
           Len(pl) <= Len(objs), AllFit(objs, secs, pl), NEW syms, SymbolsIn(objs, pl, syms),
           NEW later, \A x \in DOMAIN syms : later[x] = Copied(syms, syms[x])
    PROVE  AllBecame(objs, pl, later, TRUE)
<1> DEFINE e(i) == EntriesBefore(objs, "symbols", i)
<1>1. PICK parts : /\ Strung(objs, "symbols", parts, syms) /\ Len(parts) = Len(pl)
                   /\ \A i \in DOMAIN pl : parts[i] = SymbolsOf(objs, pl, i)
  BY DEF SymbolsIn
<1>2. IsSeq(syms) /\ DOMAIN parts = DOMAIN pl /\ HasTable(objs, "symbols")
  BY <1>1, BothTables, SeqHas DEF Strung
<1>3. \A i \in DOMAIN pl : DOMAIN parts[i] = DOMAIN objs[i].symbols
  BY <1>1 DEF SymbolsOf
<1>4. \A x \in DOMAIN syms : x \in Int
  BY <1>2, SeqHas
<1>5. ASSUME NEW i \in DOMAIN pl, NEW k \in DOMAIN objs[i].symbols
      PROVE  /\ e(i) + k \in DOMAIN syms
             /\ MovesWell(objs[i].symbols[k], pl[i], syms[e(i) + k])
  BY SymbolAt, SymbolsFit
<1>6. ASSUME NEW x \in DOMAIN syms
      PROVE  \E j \in DOMAIN pl : \E m \in DOMAIN objs[j].symbols : x = e(j) + m
  BY <1>1, <1>2, <1>3, StrungAll
<1> HIDE DEF e
<1>8. ASSUME NEW i \in DOMAIN pl, NEW k \in DOMAIN objs[i].symbols
      PROVE  Became(objs, pl, i, objs[i].symbols[k], later[e(i) + k], TRUE)
  <2> DEFINE s == objs[i].symbols[k]
             u == syms[e(i) + k]
             t == later[e(i) + k]
             d == Definition(syms, u.name)
  <2>1. MovesWell(s, pl[i], u) /\ t = Copied(syms, u)
    BY <1>5
  <2>2. CASE s.section # NoSection
    <3>1. u.section # NoSection /\ u.name = s.name /\ IsMoved(u, s, pl[i][s.section])
      BY <2>1, <2>2 DEF MovesWell
    <3> HIDE DEF u, s, t
    <3>2. t = u
      BY <2>1, <3>1 DEF Copied
    <3>3. Became(objs, pl, i, s, t, TRUE)
      BY <2>2, <3>1, <3>2 DEF Became
    <3>4. QED
      BY <3>3 DEF s, t
  <2>3. CASE s.section = NoSection
    <3>1. u = s
      BY <2>1, <2>3 DEF MovesWell
    <3>2. DOMAIN s = SymbolFields
      BY <2>1, <3>1 DEF MovesWell
    <3> DEFINE name == s.name
    <3>3. d = Definition(syms, name)
      BY <3>1
    <3> HIDE DEF u, s, t, d
    <3>4. \/ d = 0 /\ \A x \in DOMAIN syms : ~Defines(syms[x], name)
          \/ /\ d \in DOMAIN syms /\ Defines(syms[d], name)
             /\ \A x \in DOMAIN syms : Defines(syms[x], name) => d <= x
      BY <1>2, <3>3, FoundFirst
    <3>5. t = IF name = "" \/ d = 0 THEN s
              ELSE [s EXCEPT !.section = syms[d].section, !.value = syms[d].value,
                             !.bind = syms[d].bind]
      BY <2>1, <2>3, <3>1, <3>3 DEF Copied
    <3>6. CASE name = ""
      <4>1. Became(objs, pl, i, s, t, TRUE)
        BY <2>3, <3>5, <3>6 DEF Became
      <4>2. QED
        BY <4>1 DEF s, t
    <3>7. CASE d = 0
      <4>1. t = s
        BY <3>5, <3>7
      <4>2. 0 \notin DOMAIN syms
        BY <1>2, SeqHas
      <4>3. NoneDefines(objs, pl, name)
        <5>1. ASSUME NEW j \in DOMAIN pl, NEW m \in DOMAIN objs[j].symbols
              PROVE  ~Defines(objs[j].symbols[m], name)
          <6>1. e(j) + m \in DOMAIN syms /\ MovesWell(objs[j].symbols[m], pl[j], syms[e(j) + m])
            BY <1>5
          <6>2. ~Defines(syms[e(j) + m], name)
            BY <3>4, <3>7, <4>2, <6>1
          <6>3. QED
            BY <6>1, <6>2 DEF MovesWell
        <5>2. QED
          BY <5>1 DEF NoneDefines
      <4>4. Became(objs, pl, i, s, t, TRUE)
        BY <2>3, <4>1, <4>3 DEF Became
      <4>5. QED
        BY <4>4 DEF s, t
    <3>8. CASE name # "" /\ d # 0
      <4>1. /\ d \in DOMAIN syms /\ Defines(syms[d], name)
            /\ \A x \in DOMAIN syms : Defines(syms[x], name) => d <= x
        BY <3>4, <3>8
      <4>2. PICK j \in DOMAIN pl : \E m \in DOMAIN objs[j].symbols : d = e(j) + m
        BY <1>6, <4>1
      <4>3. PICK m \in DOMAIN objs[j].symbols : d = e(j) + m
        BY <4>2
      <4> DEFINE b == objs[j].symbols[m]
                 v == syms[d]
      <4>4. MovesWell(b, pl[j], v)
        BY <1>5, <4>3
      <4>5. t = [s EXCEPT !.section = v.section, !.value = v.value, !.bind = v.bind]
        BY <3>5, <3>8
      <4>6. Defines(v, name)
        BY <4>1
      <4>7. Defines(b, name)
        BY <4>4, <4>6 DEF MovesWell
      <4> HIDE DEF v
      <4>8. /\ t.name = name /\ t.section = v.section /\ t.value = v.value /\ t.bind = v.bind
        BY <3>2, <4>5 DEF SymbolFields
      <4>9. b.section # NoSection
        BY <4>4, <4>6 DEF MovesWell, Defines
      <4>10. IsMoved(v, b, pl[j][b.section]) /\ v.section # NoSection
        BY <4>4, <4>9 DEF MovesWell
      <4>11. IsMoved(t, b, pl[j][b.section])
        BY <4>8, <4>10 DEF IsMoved
      <4>12. BoundTo(objs, pl, t, name)
        BY <4>7, <4>11 DEF BoundTo
      <4>13. t # s
        BY <2>3, <4>8, <4>10
      <4>14. Became(objs, pl, i, s, t, TRUE)
        BY <2>3, <4>8, <4>12, <4>13 DEF Became
      <4>15. QED
        BY <4>14 DEF s, t
    <3>9. QED
      BY <3>6, <3>7, <3>8
  <2>4. QED
    BY <2>2, <2>3
<1>9. QED
  BY <1>8 DEF AllBecame, e

-----------------------------------------------------------------------------
(* The steps of the linker.                                                  *)

\* The objects are those of the link job.
LEMMA SameObjects ==
    ASSUME job' = job
    PROVE  Objects' = Objects
BY DEF Objects

\* merge() of one object.
LEMMA LinkMerge ==
    ASSUME ScaleAssumption, LinksAssumption, LinkInv, MergeObject
    PROVE  LinkInv'
<1>1. /\ job' = job /\ secVa' = secVa /\ order' = order /\ applied' = applied
      /\ phase = "merge" /\ Len(placed) < Len(Objects)
  BY DEF MergeObject
<1>2. Objects' = Objects /\ AreObjects(Objects)
  BY <1>1, SameObjects, ObjectsRead DEF LinkInv
<1>3. order = <<>> /\ Merging(Objects, out.sections, placed) /\ IsSeq(placed)
  BY <1>1 DEF LinkInv, Linked
<1>4. \A x : x \notin DOMAIN <<>>
  <2>1. ASSUME NEW x \in DOMAIN <<>> PROVE FALSE
    OBVIOUS
  <2>2. QED
    BY <2>1
<1>5. CASE phase' = "failed" /\ out' = out /\ placed' = placed
  BY <1>1, <1>2, <1>5 DEF LinkInv
<1>6. CASE ~(phase' = "failed" /\ out' = out /\ placed' = placed)
  <2> DEFINE n   == Len(placed) + 1
             o   == Objects[n]
             put == PutSections(out.sections, o.sections)
             more == Append(placed, put.at)
  <2>1. /\ DOMAIN out' = {"sections", "symbols", "relocs"} /\ out'.sections = put.secs
        /\ placed' = more /\ phase' = phase
    <3>1. \E x, y : /\ out' = [sections |-> put.secs, symbols |-> x, relocs |-> y]
                   /\ placed' = more /\ phase' = phase
      BY <1>6, Zenon DEF MergeObject
    <3>2. QED
      BY <3>1
  <2>2. /\ Merging(Objects, put.secs, more)
        /\ IsSeq(put.at) /\ Len(put.at) = Len(o.sections)
    BY <1>1, <1>2, <1>3, MergeSections
  <2>3. /\ Len(placed) \in Nat /\ DOMAIN placed = 1..Len(placed)
        /\ Len(Objects) \in Nat /\ DOMAIN Objects = 1..Len(Objects)
    BY <1>2, <1>3, SeqHas DEF AreObjects
  <2>4. IsSeq(o.sections)
    <3>1. n \in DOMAIN Objects
      BY <1>1, <2>3
    <3>2. QED
      BY <1>2, <3>1 DEF AreObjects
  <2>5. DOMAIN put.at = DOMAIN o.sections
    BY <2>2, <2>4, SeqHas
  <2> HIDE DEF o, put
  <2>6. /\ IsSeq(more) /\ Len(more) = Len(placed) + 1
        /\ \A k \in 1..Len(placed) : more[k] = placed[k]
        /\ more[Len(placed) + 1] = put.at
    BY <1>3, SeqGrown
  <2> HIDE DEF more
  <2>7. Len(more) <= Len(Objects) /\ DOMAIN more = 1..(Len(placed) + 1)
    BY <1>1, <2>3, <2>6, SeqHas
  <2>8. \A i \in DOMAIN more : DOMAIN more[i] = DOMAIN Objects[i].sections
    <3>1. \A i \in DOMAIN placed : DOMAIN placed[i] = DOMAIN Objects[i].sections
      BY DEF LinkInv, Linked, AllFit
    <3>2. \A i \in DOMAIN more : i = n \/ i \in 1..Len(placed)
      BY <2>3, <2>7
    <3>3. DOMAIN more[n] = DOMAIN Objects[n].sections
      BY <2>5, <2>6 DEF o
    <3>4. QED
      BY <2>3, <2>6, <3>1, <3>2, <3>3
  <2>9. Linked(Objects, put.secs, more, out'.relocs, applied)
    BY <2>2, <2>6, <2>7, <2>8, MergedIsLinked
  <2>10. Apart(put.secs, secVa, <<>>)
    BY <1>4 DEF Apart
  <2>11. QED
    BY <1>1, <1>2, <1>3, <2>1, <2>2, <2>9, <2>10 DEF LinkInv
<1>7. QED
  BY <1>5, <1>6

\* The redirects touch no section.
LEMMA LinkResolve ==
    ASSUME LinkInv, Resolve
    PROVE  LinkInv'
<1>1. /\ job' = job /\ secVa' = secVa /\ order' = order /\ applied' = applied /\ placed' = placed
      /\ phase = "merge" /\ Len(placed) = Len(Objects) /\ phase' \in {"failed", "layout"}
  BY DEF Resolve
<1>2. Objects' = Objects
  BY <1>1, SameObjects
<1>3. /\ DOMAIN out' = {"sections", "symbols", "relocs"}
      /\ out'.sections = out.sections /\ out'.relocs = out.relocs
  <2>1. \E x : out' = [out EXCEPT !.symbols = x]
    BY DEF Resolve
  <2>2. QED
    BY <2>1 DEF LinkInv
<1>4. QED
  BY <1>1, <1>2, <1>3 DEF LinkInv

\* Emission changes nothing that was linked.
LEMMA LinkEmit ==
    ASSUME LinkInv, Emit
    PROVE  LinkInv'
<1>1. /\ job' = job /\ secVa' = secVa /\ order' = order /\ applied' = applied /\ placed' = placed
      /\ out' = out /\ phase = "relocate" /\ phase' \in {"failed", "done"}
  BY DEF Emit
<1>2. Objects' = Objects
  BY <1>1, SameObjects
<1>3. QED
  BY <1>1, <1>2 DEF LinkInv

\* A stutter changes nothing.
LEMMA LinkStutter ==
    ASSUME LinkInv, UNCHANGED linker
    PROVE  LinkInv'
<1>1. /\ job' = job /\ secVa' = secVa /\ order' = order /\ applied' = applied /\ placed' = placed
      /\ out' = out /\ phase' = phase
  BY DEF linker
<1>2. Objects' = Objects
  BY <1>1, SameObjects
<1>3. QED
  BY <1>1, <1>2 DEF LinkInv

\* What layout() makes of one section: the same one, padded to its size.
LEMMA PaddedSection ==
    ASSUME NEW s, IsSec(s), NEW z, IsSeq(z), Len(z) = VaSize(s) - Len(s.data),
           NEW t, t = [s EXCEPT !.data = s.data \o z]
    PROVE  /\ IsSec(t) /\ t.name = s.name /\ VaSize(t) = VaSize(s)
           /\ Len(s.data) <= Len(t.data)
           /\ \A k \in DOMAIN s.data : t.data[k] = s.data[k]
<1>1. DOMAIN s = Fields /\ IsSeq(s.data) /\ s.align \in Nat /\ s.size \in Nat
  BY DEF IsSec
<1>2. /\ DOMAIN t = Fields /\ t.data = s.data \o z /\ t.align = s.align /\ t.size = s.size
      /\ t.name = s.name
  BY <1>1 DEF Fields
<1>3. /\ IsSeq(t.data) /\ Len(t.data) = Len(s.data) + Len(z)
      /\ \A k \in 1..Len(s.data) : t.data[k] = s.data[k]
  <2> DEFINE old == s.data
             both == old \o z
  <2>1. IsSeq(old)
    BY <1>1
  <2> HIDE DEF old
  <2>2. /\ IsSeq(both) /\ Len(both) = Len(old) + Len(z)
        /\ \A k \in 1..Len(old) : both[k] = old[k]
    BY <2>1, SeqJoined
  <2> HIDE DEF both
  <2>3. t.data = both
    BY <1>2 DEF both, old
  <2>4. QED
    BY <2>2, <2>3 DEF old
<1>4. /\ Len(s.data) \in Nat /\ DOMAIN s.data = 1..Len(s.data)
      /\ VaSize(s) \in Nat /\ VaSize(s) >= Len(s.data) /\ VaSize(s) >= s.size /\ VaSize(s) >= 1
  BY <1>1, SeqHas, VaSizeIs
<1>5. Len(t.data) = VaSize(s)
  BY <1>3, <1>4
<1>6. VaSize(t) = VaSize(s)
  BY <1>1, <1>2, <1>4, <1>5 DEF VaSize, LargerOf
<1>7. IsSec(t)
  BY <1>1, <1>2, <1>3 DEF IsSec
<1>8. QED
  BY <1>2, <1>3, <1>4, <1>5, <1>6, <1>7

\* Sections that keep their names and sizes.
SameBooks(secs, later) ==
    /\ IsSeq(later) /\ DOMAIN later = DOMAIN secs
    /\ \A x \in DOMAIN secs :
          IsSec(later[x]) /\ later[x].name = secs[x].name /\ VaSize(later[x]) = VaSize(secs[x])

\* Sections that keep their names and sizes stay apart.
LEMMA BooksKept ==
    ASSUME NEW secs, Tidy(secs), NEW later, SameBooks(secs, later), NEW va, NEW ord,
           Apart(secs, va, ord)
    PROVE  Tidy(later) /\ Apart(later, va, ord)
BY DEF SameBooks, Tidy, Apart

\* The layout pads sections and gives them their addresses.
LEMMA LinkLayout ==
    ASSUME ScaleAssumption, LinksAssumption, LinkInv, Layout
    PROVE  LinkInv'
<1> DEFINE secs == out.sections
           pad(s) == IF s.kind = "bss" \/ s.name \in NotLoaded THEN s
                     ELSE [s EXCEPT !.data = @ \o Zeros(VaSize(s) - Len(@))]
           later == [i \in DOMAIN secs |-> pad(secs[i])]
           ord == Loaded(secs)
           va == Addresses(secs, ord, DefaultBase)
<1>1. /\ job' = job /\ applied' = applied /\ placed' = placed
      /\ phase = "layout" /\ phase' = "relocate" /\ order' = ord /\ secVa' = va
      /\ out' = [out EXCEPT !.sections = later]
  BY DEF Layout
<1>2. Objects' = Objects /\ AreObjects(Objects)
  BY <1>1, SameObjects, ObjectsRead DEF LinkInv
<1>3. /\ DOMAIN out' = {"sections", "symbols", "relocs"}
      /\ out'.sections = later /\ out'.relocs = out.relocs
  BY <1>1 DEF LinkInv
<1>4. /\ Tidy(secs) /\ Linked(Objects, secs, placed, out.relocs, applied)
      /\ applied \in Nat /\ Len(placed) = Len(Objects)
  BY <1>1 DEF LinkInv, Linked
<1>5. IsSeq(secs) /\ Len(secs) \in Nat /\ DOMAIN secs = 1..Len(secs)
  BY <1>4, SeqHas DEF Tidy
<1>6. ASSUME NEW x \in DOMAIN secs
      PROVE  /\ IsSec(later[x]) /\ later[x].name = secs[x].name
             /\ VaSize(later[x]) = VaSize(secs[x])
             /\ Len(secs[x].data) <= Len(later[x].data)
             /\ \A k \in DOMAIN secs[x].data : later[x].data[k] = secs[x].data[k]
  <2> DEFINE s == secs[x]
             n == VaSize(s) - Len(s.data)
             z == Zeros(n)
  <2>1. IsSec(s)
    BY <1>4 DEF Tidy
  <2>2. Len(s.data) \in Nat
    BY <2>1, SeqHas DEF IsSec
  <2>3. n \in Nat
    <3>1. VaSize(s) \in Nat /\ VaSize(s) >= Len(s.data)
      BY <2>1, VaSizeIs
    <3>2. QED
      BY <2>2, <3>1
  <2>4. IsSeq(z) /\ Len(z) = n
    <3> HIDE DEF n
    <3>1. QED
      BY <2>3, SeqOfZeros
  <2>5. later[x] = IF s.kind = "bss" \/ s.name \in NotLoaded THEN s ELSE [s EXCEPT !.data = s.data \o z]
    BY Zenon
  <2> DEFINE t == [s EXCEPT !.data = s.data \o z]
  <2>6. /\ IsSec(t) /\ t.name = s.name /\ VaSize(t) = VaSize(s)
        /\ Len(s.data) <= Len(t.data)
        /\ \A k \in DOMAIN s.data : t.data[k] = s.data[k]
    <3> HIDE DEF z, s
    <3>1. Len(z) = VaSize(s) - Len(s.data)
      BY <2>4
    <3>2. QED
      BY <2>1, <2>4, <3>1, PaddedSection
  <2>7. Len(s.data) <= Len(s.data)
    BY <2>2
  <2>8. later[x] = t \/ later[x] = s
    BY <2>5
  <2>9. QED
    <3> HIDE DEF t, later
    <3>1. /\ IsSec(later[x]) /\ later[x].name = s.name
          /\ VaSize(later[x]) = VaSize(s)
          /\ Len(s.data) <= Len(later[x].data)
          /\ \A k \in DOMAIN s.data : later[x].data[k] = s.data[k]
      <4> HIDE DEF s
      <4>1. QED
        BY <2>1, <2>6, <2>7, <2>8
    <3>2. QED
      BY <3>1
<1>7. IsSeq(later) /\ DOMAIN later = DOMAIN secs
  <2>1. later = [k \in 1..Len(secs) |-> later[k]]
    BY <1>5, Zenon
  <2> HIDE DEF later
  <2>2. QED
    BY <1>5, <2>1, SeqMade
<1> HIDE DEF later, secs
<1>8. SameBooks(secs, later)
  BY <1>6, <1>7 DEF SameBooks
<1>9. Tidy(later)
  <2>1. Apart(secs, va, <<>>)
    <3>1. ASSUME NEW x \in DOMAIN <<>> PROVE FALSE
      OBVIOUS
    <3>2. QED
      BY <3>1 DEF Apart
  <2>2. QED
    BY <1>4, <1>8, <2>1, BooksKept
<1>10. Linked(Objects, later, placed, out.relocs, applied)
  <2>1. applied <= applied
    BY <1>4
  <2>2. \A x \in DOMAIN secs : x \in DOMAIN later
    BY <1>7
  <2>3. OnlyFields(secs, later, out.relocs, applied)
    BY <1>6, <2>2 DEF OnlyFields
  <2>4. QED
    BY <1>2, <1>4, <1>9, <2>1, <2>3, StaysLinked
<1>11. Apart(secs, va, ord)
  <2>1. DefaultBase \in Nat
    <3>1. Page \in Nat /\ Span \in Nat
      BY DEF ScaleAssumption
    <3>2. QED
      BY <3>1 DEF DefaultBase, ImageBase
  <2>2. PICK kinds : Picks(ord, secs, Len(secs), kinds)
    BY <1>5, LoadedPicks
  <2> HIDE DEF ord
  <2>3. \A m, n \in DOMAIN ord : m < n => va[ord[m]] + VaSize(secs[ord[m]]) <= va[ord[n]]
    BY <1>4, <2>1, <2>2, AddressesApart
  <2>4. \A n \in DOMAIN ord : ord[n] \in DOMAIN secs
    BY <1>5, <2>2 DEF Picks
  <2>5. QED
    BY <2>3, <2>4 DEF Apart
<1>12. Apart(later, va, ord)
  BY <1>4, <1>8, <1>11, BooksKept
<1> HIDE DEF ord, va
<1>13. QED
  BY <1>1, <1>2, <1>3, <1>4, <1>10, <1>12 DEF LinkInv

\* One relocation writes into its field, and nothing else.
LEMMA LinkRelocate ==
    ASSUME ScaleAssumption, LinksAssumption, LinkInv, Relocate
    PROVE  LinkInv'
<1> DEFINE secs == out.sections
           r == out.relocs[applied + 1]
           sec == secs[r.section]
           val == Field(r.kind, SymAddr(out.symbols[r.symbol]), secVa[r.section] + r.offset, r.addend)
           cell(k) == IF k \notin FieldOf(r) THEN sec.data[k]
                      ELSE IF k = r.offset + 1 THEN <<"ref", val>> ELSE <<"high">>
           words == [k \in DOMAIN sec.data |-> cell(k)]
<1>1. /\ job' = job /\ secVa' = secVa /\ order' = order /\ placed' = placed
      /\ phase = "relocate"
  BY DEF Relocate
<1>2. Objects' = Objects /\ AreObjects(Objects)
  BY <1>1, SameObjects, ObjectsRead DEF LinkInv
<1>3. /\ Tidy(secs) /\ Linked(Objects, secs, placed, out.relocs, applied)
      /\ applied \in Nat /\ Len(placed) = Len(Objects) /\ Apart(secs, secVa, order)
  BY <1>1 DEF LinkInv, Linked
<1>4. CASE phase' = "failed" /\ out' = out /\ applied' = applied
  BY <1>1, <1>2, <1>3, <1>4 DEF LinkInv
<1>5. CASE ~(phase' = "failed" /\ out' = out /\ applied' = applied)
  <2>1. /\ out' = [out EXCEPT !.sections[r.section].data = words]
        /\ applied' = applied + 1 /\ phase' = phase
    BY <1>5, Zenon DEF Relocate
  <2> DEFINE later == out'.sections
  <2>2. /\ DOMAIN out' = {"sections", "symbols", "relocs"}
        /\ out'.relocs = out.relocs
        /\ later = [secs EXCEPT ![r.section].data = words]
    <3> HIDE DEF words
    <3>1. QED
      BY <2>1 DEF LinkInv
  <2>3. IsSeq(secs) /\ Len(secs) \in Nat /\ DOMAIN secs = 1..Len(secs)
    BY <1>3, SeqHas DEF Tidy
  <2>4. DOMAIN later = DOMAIN secs
    BY <2>2
  <2>5. ASSUME NEW x \in DOMAIN secs
        PROVE  /\ IsSec(later[x]) /\ later[x].name = secs[x].name
               /\ VaSize(later[x]) = VaSize(secs[x])
               /\ Len(secs[x].data) = Len(later[x].data)
               /\ \A k \in DOMAIN secs[x].data :
                     \/ later[x].data[k] = secs[x].data[k]
                     \/ r.section = x /\ k \in FieldOf(r)
    <3>1. IsSec(secs[x]) /\ DOMAIN secs[x] = Fields /\ IsSeq(secs[x].data)
      BY <1>3 DEF Tidy, IsSec
    <3>2. CASE x # r.section
      <4>1. later[x] = secs[x]
        BY <2>2, <3>2
      <4>2. QED
        BY <3>1, <4>1
    <3>3. CASE x = r.section
      <4>1. later[x] = [sec EXCEPT !.data = words]
        <5> HIDE DEF words
        <5>1. QED
          BY <2>2, <3>3
      <4>2. Len(sec.data) \in Nat /\ DOMAIN sec.data = 1..Len(sec.data)
        BY <3>1, <3>3, SeqHas
      <4>3. IsSeq(words) /\ Len(words) = Len(sec.data)
        <5>1. words = [k \in 1..Len(sec.data) |-> words[k]]
          BY <4>2, Zenon
        <5> HIDE DEF words
        <5>2. QED
          BY <4>2, <5>1, SeqMade
      <4>4. \A k \in DOMAIN sec.data : words[k] = sec.data[k] \/ k \in FieldOf(r)
        <5> HIDE DEF r, sec
        <5>1. QED
          BY Zenon
      <4> HIDE DEF words, sec
      <4>5. sec = secs[x]
        BY <3>3 DEF sec
      <4>6. /\ DOMAIN later[x] = Fields /\ later[x].data = words /\ later[x].name = sec.name
            /\ later[x].align = sec.align /\ later[x].size = sec.size
        BY <3>1, <4>1, <4>5 DEF Fields
      <4>7. IsSec(later[x])
        BY <3>1, <4>3, <4>5, <4>6 DEF IsSec
      <4>8. VaSize(later[x]) = VaSize(sec)
        BY <4>3, <4>6 DEF VaSize
      <4>9. QED
        BY <3>3, <4>3, <4>4, <4>5, <4>6, <4>7, <4>8
    <3>4. QED
      BY <3>2, <3>3
  <2>6. IsSeq(later)
    <3>1. later = [k \in 1..Len(secs) |-> later[k]]
      <4> HIDE DEF words
      <4>1. QED
        BY <2>2, <2>3
    <3> HIDE DEF later
    <3>2. QED
      BY <2>3, <3>1, SeqMade
  <2> HIDE DEF later, secs, words, sec
  <2>7. SameBooks(secs, later)
    BY <2>4, <2>5, <2>6 DEF SameBooks
  <2>8. Tidy(later) /\ Apart(later, secVa, order)
    BY <1>3, <2>7, BooksKept
  <2> DEFINE l == applied + 1
  <2>9. l \in Nat /\ applied <= l /\ l \in 1..l
    BY <1>3
  <2>10. r = out.relocs[l]
    OBVIOUS
  <2> HIDE DEF l, r
  <2>11. OnlyFields(secs, later, out.relocs, l)
    <3>1. ASSUME NEW x \in DOMAIN secs PROVE Len(secs[x].data) \in Nat
      BY <1>3, SeqHas DEF Tidy, IsSec
    <3>2. \A x \in DOMAIN secs : Len(secs[x].data) <= Len(later[x].data)
      BY <2>5, <3>1
    <3>3. QED
      BY <2>4, <2>5, <2>9, <2>10, <3>2 DEF OnlyFields
  <2>12. Linked(Objects, later, placed, out.relocs, l)
    BY <1>2, <1>3, <2>8, <2>9, <2>11, StaysLinked
  <2>13. QED
    BY <1>1, <1>2, <1>3, <2>1, <2>2, <2>8, <2>9, <2>12 DEF LinkInv, later, l
<1>6. QED
  BY <1>4, <1>5

-----------------------------------------------------------------------------
(* The tables, step by step.                                                 *)

\* The invariant of the tables.
TableInv ==
    /\ RelocsIn(Objects, placed, out.relocs)
    /\ phase = "merge" => SymbolsIn(Objects, placed, out.symbols)
    /\ AllBecame(Objects, placed, out.symbols, phase \notin {"merge", "failed"})

\* What LinkInv says of the objects and the places.
LEMMA TablesKnown ==
    ASSUME ScaleAssumption, LinksAssumption, LinkInv
    PROVE  /\ AreObjects(Objects) /\ AreTables(Objects) /\ Tidy(out.sections) /\ IsSeq(placed)
           /\ Len(placed) <= Len(Objects) /\ AllFit(Objects, out.sections, placed)
BY ObjectsRead, TablesRead DEF LinkInv, Linked

\* Nothing is in the tables at first.
LEMMA TablesInit ==
    ASSUME ScaleAssumption, LinksAssumption, LinkerInit
    PROVE  TableInv
<1>1. /\ job \in Links /\ placed = <<>> /\ phase = "merge"
      /\ out.symbols = <<>> /\ out.relocs = <<>>
  BY DEF LinkerInit, NothingLinked
<1>2. LinkInv
  BY LinkInit
<1>3. AreObjects(Objects) /\ AreTables(Objects)
  BY <1>2, TablesKnown
<1>4. IsSeq(<<>>) /\ Len(<<>>) = 0 /\ \A x : x \notin DOMAIN <<>>
  <2>1. <<>> \in Seq({})
    OBVIOUS
  <2>2. Len(<<>>) = 0
    BY <2>1, EmptySeq
  <2>3. IsSeq(<<>>)
    BY <2>1, SeqIs
  <2>4. ASSUME NEW x \in DOMAIN <<>> PROVE FALSE
    OBVIOUS
  <2>5. QED
    BY <2>2, <2>3, <2>4
<1>5. /\ EntriesBefore(Objects, "symbols", 1) = 0 /\ EntriesBefore(Objects, "relocs", 1) = 0
  BY <1>3, BothTables, EntriesAdd DEF Adding
<1>6. Strung(Objects, "symbols", <<>>, <<>>) /\ Strung(Objects, "relocs", <<>>, <<>>)
  BY <1>4, <1>5 DEF Strung
<1>7. SymbolsIn(Objects, <<>>, <<>>) /\ RelocsIn(Objects, <<>>, <<>>)
  BY <1>4, <1>6 DEF SymbolsIn, RelocsIn
<1>8. AllBecame(Objects, <<>>, <<>>, phase \notin {"merge", "failed"})
  BY <1>4 DEF AllBecame
<1>9. QED
  BY <1>1, <1>7, <1>8 DEF TableInv

\* merge() of one object.
LEMMA TablesMerge ==
    ASSUME ScaleAssumption, LinksAssumption, LinkInv, TableInv, MergeObject
    PROVE  TableInv'
<1>1. /\ job' = job /\ phase = "merge" /\ Len(placed) < Len(Objects)
  BY DEF MergeObject
<1>2. Objects' = Objects
  BY <1>1, SameObjects
<1>3. /\ AreObjects(Objects) /\ AreTables(Objects) /\ IsSeq(placed)
      /\ RelocsIn(Objects, placed, out.relocs) /\ SymbolsIn(Objects, placed, out.symbols)
      /\ AllBecame(Objects, placed, out.symbols, FALSE)
  BY <1>1, TablesKnown DEF TableInv
<1>4. CASE phase' = "failed" /\ out' = out /\ placed' = placed
  BY <1>2, <1>3, <1>4 DEF TableInv
<1>5. CASE ~(phase' = "failed" /\ out' = out /\ placed' = placed)
  <2> DEFINE o == Objects[Len(placed) + 1]
             put == PutSections(out.sections, o.sections)
             syms == [k \in DOMAIN o.symbols |-> MovedSymbol(o.symbols[k], put.at)]
             rels == [k \in DOMAIN o.relocs |-> MovedReloc(o.relocs[k], put.at, Len(out.symbols))]
             more == Append(placed, put.at)
  <2>1. /\ out' = [sections |-> put.secs, symbols |-> out.symbols \o syms,
                   relocs |-> out.relocs \o rels]
        /\ placed' = more /\ phase' = phase
    BY <1>5, Zenon DEF MergeObject
  <2> DEFINE allSyms == out.symbols \o syms
             allRels == out.relocs \o rels
  <2>2. Len(out.symbols) = EntriesBefore(Objects, "symbols", Len(placed) + 1)
    BY <1>3, SymbolsBase
  <2>3. rels = [k \in DOMAIN o.relocs |->
                   MovedReloc(o.relocs[k], put.at, EntriesBefore(Objects, "symbols", Len(placed) + 1))]
    BY <2>2
  <2> HIDE DEF put
  <2>4. SymbolsIn(Objects, more, allSyms)
    <3>1. syms = [k \in DOMAIN Objects[Len(placed) + 1].symbols |->
                     MovedSymbol(Objects[Len(placed) + 1].symbols[k], put.at)]
      OBVIOUS
    <3> HIDE DEF syms
    <3>2. QED
      BY <1>1, <1>3, <3>1, SymbolsGrow
  <2>5. RelocsIn(Objects, more, allRels)
    <3>1. rels = [k \in DOMAIN Objects[Len(placed) + 1].relocs |->
                     MovedReloc(Objects[Len(placed) + 1].relocs[k], put.at,
                                EntriesBefore(Objects, "symbols", Len(placed) + 1))]
      BY <2>3
    <3> HIDE DEF rels
    <3>2. QED
      BY <1>1, <1>3, <3>1, RelocsGrow
  <2> HIDE DEF allSyms, allRels, more, syms, rels, o
  <2>6. out'.symbols = allSyms /\ out'.relocs = allRels /\ placed' = more /\ phase' = "merge"
    BY <1>1, <2>1 DEF allSyms, allRels
  <2>7. LinkInv'
    BY LinkMerge
  <2>8. /\ Tidy(out'.sections) /\ IsSeq(more) /\ Len(more) <= Len(Objects)
        /\ AllFit(Objects, out'.sections, more)
    BY <1>2, <2>6, <2>7 DEF LinkInv, Linked
  <2>9. AllBecame(Objects, more, allSyms, FALSE)
    BY <1>3, <2>4, <2>8, MergedBecame
  <2>10. QED
    BY <1>2, <2>4, <2>5, <2>6, <2>9 DEF TableInv
<1>6. QED
  BY <1>4, <1>5

\* A symbol that is bound although nothing asks for it is bound all the same.
LEMMA BecameLess ==
    ASSUME NEW objs, NEW pl, NEW syms, AllBecame(objs, pl, syms, TRUE), NEW all \in BOOLEAN
    PROVE  AllBecame(objs, pl, syms, all)
BY DEF AllBecame, Became

\* The redirects.
LEMMA TablesResolve ==
    ASSUME ScaleAssumption, LinksAssumption, LinkInv, TableInv, Resolve
    PROVE  TableInv'
<1>1. /\ job' = job /\ placed' = placed /\ phase = "merge" /\ phase' # "merge"
  BY DEF Resolve
<1>2. Objects' = Objects
  BY <1>1, SameObjects
<1>3. /\ AreObjects(Objects) /\ AreTables(Objects) /\ Tidy(out.sections) /\ IsSeq(placed)
      /\ Len(placed) <= Len(Objects) /\ AllFit(Objects, out.sections, placed)
      /\ RelocsIn(Objects, placed, out.relocs) /\ SymbolsIn(Objects, placed, out.symbols)
  BY <1>1, TablesKnown DEF TableInv
<1> DEFINE syms == out.symbols
           later == [k \in DOMAIN syms |-> Copied(syms, syms[k])]
<1>4. out' = [out EXCEPT !.symbols = later]
  BY Zenon DEF Resolve, Copied
<1>5. DOMAIN out = {"sections", "symbols", "relocs"}
  BY DEF LinkInv
<1>6. \A x \in DOMAIN syms : later[x] = Copied(syms, syms[x])
  OBVIOUS
<1> HIDE DEF later
<1>7. out'.symbols = later /\ out'.relocs = out.relocs
  BY <1>4, <1>5
<1>8. AllBecame(Objects, placed, later, TRUE)
  BY <1>3, <1>6, ResolvedBecame
<1>9. AllBecame(Objects, placed, later, phase' \notin {"merge", "failed"})
  BY <1>8, BecameLess
<1>10. QED
  BY <1>1, <1>2, <1>3, <1>7, <1>9 DEF TableInv

\* Nothing after resolution touches the tables.
LEMMA TablesStay ==
    ASSUME TableInv, job' = job, placed' = placed,
           out'.symbols = out.symbols, out'.relocs = out.relocs,
           \/ phase' = phase
           \/ phase' # "merge" /\ (phase \in {"merge", "failed"} => phase' \in {"merge", "failed"})
    PROVE  TableInv'
<1>1. Objects' = Objects
  BY SameObjects
<1>2. phase' = "merge" => phase = "merge"
  OBVIOUS
<1>3. phase' \notin {"merge", "failed"} => phase \notin {"merge", "failed"}
  OBVIOUS
<1>4. AllBecame(Objects, placed, out.symbols, phase' \notin {"merge", "failed"})
  <2>1. CASE phase \in {"merge", "failed"}
    <3>1. (phase' \notin {"merge", "failed"}) = (phase \notin {"merge", "failed"})
      BY <1>3, <2>1
    <3>2. QED
      BY <3>1 DEF TableInv
  <2>2. CASE phase \notin {"merge", "failed"}
    <3>1. AllBecame(Objects, placed, out.symbols, TRUE)
      BY <2>2 DEF TableInv
    <3>2. QED
      BY <3>1, BecameLess
  <2>3. QED
    BY <2>1, <2>2
<1>5. QED
  BY <1>1, <1>2, <1>4 DEF TableInv

\* Layout, relocations, emission and stutters.
LEMMA TablesLater ==
    ASSUME LinkInv, TableInv, Layout \/ Relocate \/ Emit \/ UNCHANGED linker
    PROVE  TableInv'
<1>0. DOMAIN out = {"sections", "symbols", "relocs"}
  BY DEF LinkInv
<1>1. CASE Layout
  <2>1. \E x : out' = [out EXCEPT !.sections = x]
    BY <1>1, Zenon DEF Layout
  <2>2. out'.symbols = out.symbols /\ out'.relocs = out.relocs
    BY <1>0, <2>1
  <2>3. job' = job /\ placed' = placed /\ phase = "layout" /\ phase' = "relocate"
    BY <1>1 DEF Layout
  <2>4. QED
    BY <2>2, <2>3, TablesStay
<1>2. CASE Relocate
  <2>1. job' = job /\ placed' = placed /\ phase = "relocate" /\ phase' \in {"relocate", "failed"}
    BY <1>2 DEF Relocate
  <2>2. out' = out \/ \E x, w : out' = [out EXCEPT !.sections[x].data = w]
    BY <1>2, Zenon DEF Relocate
  <2>3. out'.symbols = out.symbols /\ out'.relocs = out.relocs
    BY <1>0, <2>2
  <2>4. QED
    BY <2>1, <2>3, TablesStay
<1>3. CASE Emit
  <2>1. job' = job /\ placed' = placed /\ out' = out
    BY <1>3 DEF Emit
  <2>2. phase = "relocate" /\ phase' \in {"done", "failed"}
    BY <1>3 DEF Emit
  <2>3. QED
    BY <2>1, <2>2, TablesStay
<1>4. CASE UNCHANGED linker
  <2>1. job' = job /\ placed' = placed /\ out' = out /\ phase' = phase
    BY <1>4 DEF linker
  <2>2. QED
    BY <2>1, TablesStay
<1>5. QED
  BY <1>1, <1>2, <1>3, <1>4

-----------------------------------------------------------------------------
(* What the invariant says of the contributions.                             *)

\* Words stay where they were put.
LEMMA KeepsContents ==
    ASSUME LinksAssumption, ScaleAssumption, LinkInv
    PROVE  ContentsKept
<1>1. AreObjects(Objects) /\ IsSeq(placed)
  BY ObjectsRead DEF LinkInv, Linked
<1>2. phase \notin {"merge", "failed"} => DOMAIN placed = DOMAIN Objects
  BY <1>1, SeqHas DEF LinkInv, AreObjects
<1>3. \A i \in DOMAIN placed : DOMAIN placed[i] = DOMAIN Objects[i].sections
  BY DEF LinkInv, Linked, AllFit
<1>4. ASSUME NEW i \in DOMAIN placed, NEW a \in DOMAIN placed[i],
             NEW k \in DOMAIN Objects[i].sections[a].data
      PROVE  LET p == placed[i][a]  words == Objects[i].sections[a].data
             IN \/ out.sections[p.sec].data[p.off + k] = words[k]
                \/ Written(p.sec, p.off + k)
  BY DEF LinkInv, Linked, KeptWords, Written
<1>5. QED
  BY <1>2, <1>3, <1>4 DEF ContentsKept

\* What is put into a section after words lies behind them.
LEMMA KeepsPlaces ==
    ASSUME LinksAssumption, ScaleAssumption, LinkInv
    PROVE  PlacesApart
<1>1. /\ AreObjects(Objects) /\ IsSeq(placed) /\ Len(placed) <= Len(Objects)
      /\ AllFit(Objects, out.sections, placed) /\ InOrder(Objects, placed)
  BY ObjectsRead DEF LinkInv, Linked
<1>2. \A i \in DOMAIN placed : i \in DOMAIN Objects
  BY <1>1, SeqHas DEF AreObjects
<1>3. ASSUME NEW i \in DOMAIN placed, NEW j \in DOMAIN placed,
             NEW a \in DOMAIN placed[i], NEW b \in DOMAIN placed[j],
             Precedes(<<i, a>>, <<j, b>>) /\ placed[i][a].sec = placed[j][b].sec
                /\ Objects[i].sections[a].data # <<>>
      PROVE  Extent(placed[i][a], Objects[i].sections[a])
                \cap Extent(placed[j][b], Objects[j].sections[b]) = {}
  <2> DEFINE p == placed[i][a]
             s == Objects[i].sections[a]
             q == placed[j][b]
             t == Objects[j].sections[b]
  <2>1. /\ a \in DOMAIN Objects[i].sections /\ b \in DOMAIN Objects[j].sections
        /\ Fits(out.sections, p, s) /\ Fits(out.sections, q, t)
    BY <1>1 DEF AllFit
  <2>2. IsBrought(s) /\ IsBrought(t) /\ s.data # <<>>
    BY <1>1, <1>2, <1>3, <2>1 DEF AreObjects
  <2>3. p.off + Len(s.data) <= q.off
    BY <1>1, <1>3 DEF InOrder
  <2> HIDE DEF p, s, q, t
  <2>4. p.off \in Nat /\ q.off \in Nat /\ s.size \in Nat /\ t.size \in Nat
    BY <2>1, <2>2 DEF Fits, IsBrought, IsSec
  <2>5. Len(s.data) = s.size
    BY <2>2 DEF IsBrought
  <2>6. \A x \in Extent(p, s), y \in Extent(q, t) : x < y
    BY <2>3, <2>4, <2>5 DEF Extent
  <2>7. \A x \in Extent(p, s) : x \in Int
    BY <2>4 DEF Extent
  <2>8. QED
    BY <2>6, <2>7 DEF p, s, q, t
<1>4. QED
  BY <1>3, Zenon DEF PlacesApart

\* Loaded sections share no address.
LEMMA KeepsSections ==
    ASSUME LinkInv
    PROVE  SectionsApart
BY DEF LinkInv, Apart, SectionsApart

\* Symbols are moved with their sections, or bound to a definition.
LEMMA KeepsSymbols ==
    ASSUME TableInv
    PROVE  SymbolsMoved
<1>1. ASSUME NEW i \in DOMAIN placed, NEW k \in DOMAIN Objects[i].symbols
      PROVE  LET s == Objects[i].symbols[k]
                 t == out.symbols[EntriesBefore(Objects, "symbols", i) + k]
             IN /\ t.name = s.name
                /\ s.section # NoSection => IsMoved(t, s, placed[i][s.section])
                /\ s.section = NoSection /\ t # s =>
                      \E j \in DOMAIN placed : \E m \in DOMAIN Objects[j].symbols :
                         LET d == Objects[j].symbols[m]
                         IN Defines(d, s.name) /\ IsMoved(t, d, placed[j][d.section])
                /\ s.section = NoSection /\ t = s /\ s.name # "" /\ phase \notin {"merge", "failed"} =>
                      \A j \in DOMAIN placed : \A m \in DOMAIN Objects[j].symbols :
                         ~Defines(Objects[j].symbols[m], s.name)
  <2> DEFINE s == Objects[i].symbols[k]
             t == out.symbols[EntriesBefore(Objects, "symbols", i) + k]
  <2>1. Became(Objects, placed, i, s, t, phase \notin {"merge", "failed"})
    BY DEF TableInv, AllBecame
  <2> HIDE DEF s, t
  <2>3. BoundTo(Objects, placed, t, s.name) =>
           \E j \in DOMAIN placed : \E m \in DOMAIN Objects[j].symbols :
              LET d == Objects[j].symbols[m]
              IN Defines(d, s.name) /\ IsMoved(t, d, placed[j][d.section])
    BY DEF BoundTo
  <2>4. NoneDefines(Objects, placed, s.name) =>
           \A j \in DOMAIN placed : \A m \in DOMAIN Objects[j].symbols :
              ~Defines(Objects[j].symbols[m], s.name)
    BY DEF NoneDefines
  <2>5. QED
    BY <2>1, <2>3, <2>4, Zenon DEF Became, s, t
<1>2. QED
  BY <1>1, Zenon DEF SymbolsMoved

\* Relocations are moved with their sections and name the symbols they named.
LEMMA KeepsRelocs ==
    ASSUME ScaleAssumption, LinksAssumption, LinkInv, TableInv
    PROVE  RelocsMoved
<1>1. AreObjects(Objects) /\ AreTables(Objects) /\ IsSeq(placed) /\ Len(placed) <= Len(Objects)
  BY TablesKnown
<1>2. ASSUME NEW i \in DOMAIN placed, NEW k \in DOMAIN Objects[i].relocs
      PROVE  LET r == Objects[i].relocs[k]
                 t == out.relocs[EntriesBefore(Objects, "relocs", i) + k]
             IN /\ t.section = placed[i][r.section].sec
                /\ t.offset = r.offset + placed[i][r.section].off
                /\ t.symbol = EntriesBefore(Objects, "symbols", i) + r.symbol
                /\ t.addend = r.addend /\ t.kind = r.kind
  <2> DEFINE r == Objects[i].relocs[k]
             t == out.relocs[EntriesBefore(Objects, "relocs", i) + k]
             base == EntriesBefore(Objects, "symbols", i)
  <2>1. i \in DOMAIN Objects
    BY <1>1, SeqHas DEF AreObjects
  <2>2. DOMAIN r = RelocFields
    BY <1>1, <2>1 DEF AreTables, IsTable
  <2>3. t = MovedReloc(r, placed[i], base)
    BY <1>1, RelocAt DEF TableInv
  <2> HIDE DEF r, t, base
  <2> DEFINE sec == placed[i][r.section].sec
             off == r.offset + placed[i][r.section].off
             sym == base + r.symbol
  <2>4. t = [r EXCEPT !.section = sec, !.offset = off, !.symbol = sym]
    BY <2>3 DEF MovedReloc
  <2> HIDE DEF sec, off, sym
  <2>5. /\ t.section = sec /\ t.offset = off /\ t.symbol = sym
        /\ t.addend = r.addend /\ t.kind = r.kind
    BY <2>2, <2>4 DEF RelocFields
  <2>6. QED
    BY <2>5 DEF sec, off, sym, r, t, base
<1>3. QED
  BY <1>2, Zenon DEF RelocsMoved

\* Nothing an object brings is lost, whatever the objects and the sizes of a
\* page, an alignment and a 32-bit field: the words of a contribution stay where
\* merge() put them unless a relocation is written there, what is put into the
\* section after them lies behind them, no two loaded sections share an address,
\* and symbols and relocations are moved with their sections, undefined symbols
\* bound to a definition of their name that is not local, if there is one.
THEOREM ContributionsAreKept ==
    ASSUME ScaleAssumption, LinksAssumption
    PROVE  LinkerSpec => []ContributionsKept
<1>1. LinkerInit => LinkInv /\ TableInv
  BY LinkInit, TablesInit
<1>2. LinkInv /\ TableInv /\ [LinkerNext]_linker => LinkInv' /\ TableInv'
  <2>1. SUFFICES ASSUME LinkInv, TableInv, [LinkerNext]_linker PROVE LinkInv' /\ TableInv'
    OBVIOUS
  <2>2. CASE MergeObject
    BY <2>1, <2>2, LinkMerge, TablesMerge
  <2>3. CASE Resolve
    BY <2>1, <2>3, LinkResolve, TablesResolve
  <2>4. CASE Layout
    BY <2>1, <2>4, LinkLayout, TablesLater
  <2>5. CASE Relocate
    BY <2>1, <2>5, LinkRelocate, TablesLater
  <2>6. CASE Emit
    BY <2>1, <2>6, LinkEmit, TablesLater
  <2>7. CASE UNCHANGED linker
    BY <2>1, <2>7, LinkStutter, TablesLater
  <2>8. QED
    BY <2>1, <2>2, <2>3, <2>4, <2>5, <2>6, <2>7 DEF LinkerNext
<1>3. LinkInv /\ TableInv => ContributionsKept
  BY KeepsContents, KeepsPlaces, KeepsSections, KeepsSymbols, KeepsRelocs DEF ContributionsKept
<1>4. QED
  BY <1>1, <1>2, <1>3, PTL DEF LinkerSpec
=============================================================================
