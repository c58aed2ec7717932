---------------------------- MODULE ThreadsProofs ----------------------------
(***************************************************************************)
(* The channel delivers and rounds of Lock .. Unlock add up, for every     *)
(* number of coroutines, messages and rounds and every depth of nested     *)
(* Thread.Run calls.                                                       *)
(***************************************************************************)
EXTENDS Threads, SequenceTheorems, TLAPS

\* A call nests in its coroutine: there is always the outermost one.
Stacks == \A c \in Coroutines : copies[c] \in Seq(Nat) /\ copies[c] # <<>>

TypeOK ==
    /\ messages \in Seq(Nat) /\ accepted \in Seq(Nat) /\ received \in Seq(Nat)
    /\ closed \in BOOLEAN /\ ended \in BOOLEAN /\ lapsed \in BOOLEAN /\ blocked \in BOOLEAN
    /\ cell \in Nat \ {0} /\ updates \in Nat
    /\ cur \in Coroutines
    /\ copies = [c \in Coroutines |-> copies[c]] /\ Stacks

\* The only call that may hold a copy is the innermost of the coroutine that
\* runs, and its copy is the value: nobody has come in between.
OneFreshCopy ==
    \A c \in Coroutines : \A i \in DOMAIN copies[c] :
        copies[c][i] # NoCopy => c = cur /\ i = Len(copies[c]) /\ copies[c][i] = cell

ThreadsInv == /\ TypeOK
              /\ ChannelDelivers
              /\ lapsed \/ (cell = updates + 1 /\ OneFreshCopy)

-----------------------------------------------------------------------------
(* The operations on the stack of a coroutine.                               *)
LEMMA ReplaceTop ==
    ASSUME NEW s \in Seq(Nat), s # <<>>, NEW x \in Nat
    PROVE  LET r == Append(Front(s), x)
           IN /\ r \in Seq(Nat) /\ DOMAIN r = DOMAIN s /\ Len(r) = Len(s)
              /\ \A i \in DOMAIN r : r[i] = IF i = Len(s) THEN x ELSE s[i]
<1> DEFINE n == Len(s) - 1
           f == Front(s)
           r == Append(f, x)
<1>1. n \in Nat /\ Len(s) = n + 1 /\ DOMAIN s = 1..(n + 1)
  BY EmptySeq, LenProperties
<1>2. f = SubSeq(s, 1, n) /\ \A i \in 1..n : s[i] \in Nat
  BY <1>1, ElementOfSeq DEF Front
<1>3. f \in Seq(Nat)
  BY <1>1, <1>2, SubSeqProperties
<1>4. Len(f) = n /\ \A i \in 1..n : f[i] = s[i]
  BY <1>1, <1>2, SubSeqProperties
<1> HIDE DEF f, n
<1>5. r \in Seq(Nat) /\ Len(r) = n + 1 /\ r[n + 1] = x
  BY <1>1, <1>3, <1>4, AppendProperties
<1>6. \A i \in 1..n : r[i] = f[i]
  BY <1>1, <1>3, <1>4, AppendProperties
<1> HIDE DEF r
<1>7. DOMAIN r = 1..(n + 1)
  BY <1>5, LenProperties
<1>8. \A i \in 1..(n + 1) : r[i] = IF i = n + 1 THEN x ELSE s[i]
  BY <1>1, <1>4, <1>5, <1>6
<1>9. QED
  BY <1>1, <1>5, <1>7, <1>8 DEF f, r

LEMMA DropTop ==
    ASSUME NEW s \in Seq(Nat), Len(s) > 1
    PROVE  /\ Front(s) \in Seq(Nat) /\ Front(s) # <<>>
           /\ \A i \in DOMAIN Front(s) : i \in DOMAIN s \ {Len(s)} /\ Front(s)[i] = s[i]
<1> DEFINE n == Len(s) - 1
           f == Front(s)
<1>1. n \in Nat /\ n > 0 /\ Len(s) = n + 1 /\ DOMAIN s = 1..(n + 1)
  <2>1. Len(s) \in Nat /\ DOMAIN s = 1..Len(s)
    BY LenProperties
  <2>2. n \in Nat /\ n > 0 /\ Len(s) = n + 1
    BY <2>1
  <2>3. QED
    BY <2>1, <2>2
<1>2. f = SubSeq(s, 1, n) /\ \A i \in 1..n : s[i] \in Nat
  BY <1>1, ElementOfSeq DEF Front
<1>3. f \in Seq(Nat)
  BY <1>1, <1>2, SubSeqProperties
<1>4. Len(f) = n /\ \A i \in 1..n : f[i] = s[i]
  BY <1>1, <1>2, SubSeqProperties
<1> HIDE DEF f, n
<1>5. f # <<>> /\ DOMAIN f = 1..n
  BY <1>1, <1>3, <1>4, EmptySeq, LenProperties
<1>6. \A i \in 1..n : i \in 1..(n + 1) /\ i # n + 1
  BY <1>1
<1>7. QED
  BY <1>1, <1>3, <1>4, <1>5, <1>6 DEF f

LEMMA PushTop ==
    ASSUME NEW s \in Seq(Nat), NEW x \in Nat
    PROVE  LET r == Append(s, x)
           IN /\ r \in Seq(Nat) /\ r # <<>>
              /\ \A i \in DOMAIN r : r[i] = x \/ (i \in DOMAIN s /\ r[i] = s[i])
<1> DEFINE r == Append(s, x)
<1>1. r \in Seq(Nat) /\ r # <<>> /\ Len(r) = Len(s) + 1 /\ r[Len(s) + 1] = x
  BY AppendProperties
<1>2. \A i \in 1..Len(s) : r[i] = s[i]
  BY AppendProperties
<1>3. Len(s) \in Nat /\ DOMAIN s = 1..Len(s)
  BY LenProperties
<1> HIDE DEF r
<1>4. DOMAIN r = 1..(Len(s) + 1)
  BY <1>1, LenProperties
<1>5. \A i \in 1..(Len(s) + 1) : i = Len(s) + 1 \/ i \in 1..Len(s)
  BY <1>3
<1>6. QED
  BY <1>1, <1>2, <1>3, <1>4, <1>5 DEF r

\* The copy of the call that runs.
LEMMA CopyIsTop ==
    ASSUME TypeOK
    PROVE  /\ Len(copies[cur]) \in DOMAIN copies[cur] /\ DOMAIN copies[cur] = 1..Len(copies[cur])
           /\ Copy = copies[cur][Len(copies[cur])] /\ Copy \in Nat
<1>1. copies[cur] \in Seq(Nat) /\ Len(copies[cur]) > 0
  BY EmptySeq DEF TypeOK, Stacks
<1>2. QED
  BY <1>1, LenProperties, ElementOfSeq DEF Copy, Last

-----------------------------------------------------------------------------
(* Channel.                                                                  *)
LEMMA SendDelivers == ASSUME ThreadsInv, Send PROVE ChannelDelivers'
<1> DEFINE x == Len(accepted) + 1
<1>1. /\ received \in Seq(Nat) /\ messages \in Seq(Nat) /\ x \in Nat
      /\ <<x>> \in Seq(Nat) /\ received \o messages \in Seq(Nat)
  BY LenProperties, ConcatProperties DEF ThreadsInv, TypeOK
<1> HIDE DEF x
<1>2. Append(messages, x) = messages \o <<x>>
  BY <1>1, AppendIsConcat
<1>3. Append(received \o messages, x) = (received \o messages) \o <<x>>
  BY <1>1, AppendIsConcat
<1>4. received \o Append(messages, x) = Append(received \o messages, x)
  BY <1>1, <1>2, <1>3, ConcatAssociative
<1>5. QED
  BY <1>4 DEF Send, x, ThreadsInv, TypeOK, ChannelDelivers

LEMMA TakeDelivers ==
    ASSUME ThreadsInv, messages # <<>>, TakeFirst
    PROVE  ChannelDelivers' /\ messages' \in Seq(Nat) /\ received' \in Seq(Nat)
<1> DEFINE h == Head(messages)
           t == Tail(messages)
<1>1. h \in Nat /\ t \in Seq(Nat) /\ messages = <<h>> \o t
  BY HeadTailProperties DEF ThreadsInv, TypeOK
<1>2. Append(received, h) \o t = received \o (<<h>> \o t)
  <2>1. <<h>> \in Seq(Nat) /\ received \in Seq(Nat)
    BY <1>1 DEF ThreadsInv, TypeOK
  <2>2. Append(received, h) = received \o <<h>>
    BY <1>1, <2>1, AppendIsConcat
  <2>3. QED
    BY <1>1, <2>1, <2>2, ConcatAssociative
<1>3. Append(received, h) \in Seq(Nat)
  BY <1>1 DEF ThreadsInv, TypeOK
<1>4. QED
  BY <1>1, <1>2, <1>3 DEF TakeFirst, ThreadsInv, ChannelDelivers

LEMMA RecvDelivers == ASSUME ThreadsInv, Recv \/ TryRecv PROVE ChannelDelivers'
<1>1. CASE messages # <<>> /\ TakeFirst
  BY <1>1, TakeDelivers
<1>2. CASE ~(messages # <<>> /\ TakeFirst)
  BY <1>2 DEF Recv, TryRecv, ThreadsInv, ChannelDelivers
<1>3. QED
  BY <1>1, <1>2

-----------------------------------------------------------------------------
LEMMA TypeNext == ASSUME ThreadsInv, [ThreadsNext]_threads PROVE TypeOK'
<1> USE DEF ThreadsInv
<1>1. CASE Send
  BY <1>1, LenProperties DEF Send, mutex, TypeOK, Stacks
<1>2. CASE Recv \/ TryRecv
  <2>1. CASE messages # <<>> /\ TakeFirst
    BY <1>2, <2>1, TakeDelivers DEF TakeFirst, Recv, TryRecv, mutex, TypeOK, Stacks
  <2>2. CASE ~(messages # <<>> /\ TakeFirst)
    BY <1>2, <2>2 DEF Recv, TryRecv, mutex, TypeOK, Stacks
  <2>3. QED
    BY <2>1, <2>2
<1>3. CASE Close
  BY <1>3 DEF Close, mutex, TypeOK, Stacks
<1>4. CASE Lock
  <2>1. copies[cur] \in Seq(Nat) /\ copies[cur] # <<>> /\ cell \in Nat
    BY DEF TypeOK, Stacks
  <2>2. Append(Front(copies[cur]), cell) \in Seq(Nat) /\ Append(Front(copies[cur]), cell) # <<>>
    <3>1. Append(Front(copies[cur]), cell) \in Seq(Nat) /\ Len(Append(Front(copies[cur]), cell)) = Len(copies[cur])
      BY <2>1, ReplaceTop
    <3>2. QED
      BY <2>1, <3>1, EmptySeq
  <2>3. QED
    BY <1>4, <2>2 DEF Lock, channel, mutex, TypeOK, Stacks
<1>5. CASE Unlock
  <2>1. copies[cur] \in Seq(Nat) /\ copies[cur] # <<>> /\ NoCopy \in Nat
    BY DEF TypeOK, Stacks, NoCopy
  <2>2. Append(Front(copies[cur]), NoCopy) \in Seq(Nat) /\ Append(Front(copies[cur]), NoCopy) # <<>>
    <3>1. Append(Front(copies[cur]), NoCopy) \in Seq(Nat) /\ Len(Append(Front(copies[cur]), NoCopy)) = Len(copies[cur])
      BY <2>1, ReplaceTop
    <3>2. QED
      BY <2>1, <3>1, EmptySeq
  <2>3. cell' \in Nat \ {0} /\ updates' \in Nat
    BY <1>5, CopyIsTop DEF Unlock, TypeOK
  <2>4. QED
    BY <1>5, <2>2, <2>3 DEF Unlock, channel, TypeOK, Stacks
<1>6. CASE Await
  BY <1>6 DEF Await, channel, TypeOK, Stacks
<1>7. CASE ThreadRun
  <2>1. Append(copies[cur], NoCopy) \in Seq(Nat) /\ Append(copies[cur], NoCopy) # <<>>
    BY PushTop DEF TypeOK, Stacks, NoCopy
  <2>2. QED
    BY <1>7, <2>1 DEF ThreadRun, channel, TypeOK, Stacks
<1>8. CASE ThreadDone
  <2>1. Front(copies[cur]) \in Seq(Nat) /\ Front(copies[cur]) # <<>>
    BY <1>8, DropTop DEF ThreadDone, TypeOK, Stacks
  <2>2. QED
    BY <1>8, <2>1 DEF ThreadDone, channel, mutex, TypeOK, Stacks
<1>9. CASE UNCHANGED threads
  BY <1>9 DEF threads, TypeOK, Stacks
<1>10. QED
  BY <1>1, <1>2, <1>3, <1>4, <1>5, <1>6, <1>7, <1>8, <1>9 DEF ThreadsNext

LEMMA DeliversNext == ASSUME ThreadsInv, [ThreadsNext]_threads PROVE ChannelDelivers'
<1>1. CASE Send
  BY <1>1, SendDelivers
<1>2. CASE Recv \/ TryRecv
  BY <1>2, RecvDelivers
<1>3. CASE Close
  BY <1>3 DEF Close, ThreadsInv, ChannelDelivers
<1>4. CASE Lock \/ Unlock \/ Await \/ ThreadRun \/ ThreadDone \/ UNCHANGED threads
  <2>1. /\ messages' = messages /\ received' = received /\ accepted' = accepted
        /\ ended' = ended /\ closed' = closed
    BY <1>4 DEF Lock, Unlock, Await, ThreadRun, ThreadDone, channel, threads
  <2>2. QED
    BY <2>1 DEF ThreadsInv, ChannelDelivers
<1>5. QED
  BY <1>1, <1>2, <1>3, <1>4 DEF ThreadsNext

-----------------------------------------------------------------------------
(* Mutex.                                                                    *)
Counted == cell = updates + 1 /\ OneFreshCopy

\* The rounds add up after a step that leaves the counts and the turn alone and
\* every stack but that of the coroutine that runs, in which it leaves r.
LEMMA FreshAfter ==
    ASSUME TypeOK, Counted, cur' = cur,
           NEW r, copies' = [copies EXCEPT ![cur] = r],
           cell' = updates' + 1,
           cell' = cell \/ \A c \in Coroutines \ {cur} : \A i \in DOMAIN copies[c] : copies[c][i] = NoCopy,
           \A i \in DOMAIN r : r[i] # NoCopy => i = Len(r) /\ r[i] = cell'
    PROVE  Counted'
<1>1. copies' = [c \in Coroutines |-> IF c = cur THEN r ELSE copies[c]] /\ cur \in Coroutines
  BY DEF TypeOK
<1>2. ASSUME NEW c \in Coroutines, NEW i \in DOMAIN copies'[c], copies'[c][i] # NoCopy
      PROVE  c = cur' /\ i = Len(copies'[c]) /\ copies'[c][i] = cell'
  <2>1. CASE c = cur
    BY <1>1, <1>2, <2>1
  <2>2. CASE c # cur
    BY <1>1, <1>2, <2>2 DEF Counted, OneFreshCopy
  <2>3. QED
    BY <2>1, <2>2
<1>3. QED
  BY <1>2 DEF Counted, OneFreshCopy

LEMMA CountedNext == ASSUME ThreadsInv, ~lapsed, [ThreadsNext]_threads PROVE lapsed' \/ Counted'
<1> DEFINE s == copies[cur]
           n == Len(s)
<1>1. TypeOK /\ Counted /\ s \in Seq(Nat) /\ s # <<>> /\ cell \in Nat \ {0} /\ updates \in Nat
  BY DEF ThreadsInv, TypeOK, Stacks, Counted
<1>2. n \in DOMAIN s /\ Copy = s[n]
  BY <1>1, CopyIsTop
<1>3. \A i \in DOMAIN s : s[i] # NoCopy => i = n /\ s[i] = cell
  BY <1>1 DEF Counted, OneFreshCopy, TypeOK
<1>4. \A c \in Coroutines \ {cur} : \A i \in DOMAIN copies[c] : copies[c][i] = NoCopy
  BY <1>1 DEF Counted, OneFreshCopy
<1>5. ~Holding => \A c \in Coroutines : \A i \in DOMAIN copies[c] : copies[c][i] = NoCopy
  BY <1>2, <1>3, <1>4 DEF Holding
<1>6. CASE Send \/ Recv \/ TryRecv \/ Close \/ UNCHANGED threads
  BY <1>1, <1>6 DEF Send, Recv, TryRecv, Close, mutex, threads, Counted, OneFreshCopy
<1>7. CASE Lock
  <2> DEFINE r == Append(Front(s), cell)
  <2>1. copies' = [copies EXCEPT ![cur] = r] /\ cell' = cell /\ updates' = updates /\ cur' = cur
    BY <1>7 DEF Lock, mutex
  <2>2. DOMAIN r = DOMAIN s /\ Len(r) = n /\ \A i \in DOMAIN r : r[i] = IF i = n THEN cell ELSE s[i]
    BY <1>1, ReplaceTop
  <2> HIDE DEF r
  <2>3. \A i \in DOMAIN r : r[i] # NoCopy => i = Len(r) /\ r[i] = cell'
    BY <1>3, <2>1, <2>2
  <2>4. QED
    BY <1>1, <2>1, <2>3, FreshAfter DEF Counted
<1>8. CASE Unlock
  <2> DEFINE r == Append(Front(s), NoCopy)
  <2>1. /\ copies' = [copies EXCEPT ![cur] = r] /\ cell' = Copy + 1 /\ updates' = updates + 1 /\ cur' = cur
        /\ Copy # NoCopy
    BY <1>8 DEF Unlock, Holding
  <2>2. DOMAIN r = DOMAIN s /\ Len(r) = n /\ \A i \in DOMAIN r : r[i] = IF i = n THEN NoCopy ELSE s[i]
    BY <1>1, ReplaceTop DEF NoCopy
  <2> HIDE DEF r
  <2>3. \A i \in DOMAIN r : r[i] = NoCopy
    BY <1>3, <2>2
  <2>4. Copy = cell
    BY <1>2, <1>3, <2>1
  <2>5. cell' = updates' + 1
    BY <1>1, <2>1, <2>4 DEF Counted
  <2>6. QED
    BY <1>1, <1>4, <2>1, <2>3, <2>5, FreshAfter
<1>9. CASE Await
  <2>1. copies' = copies /\ cell' = cell /\ updates' = updates /\ lapsed' = (lapsed \/ (Holding /\ cur' # cur))
    BY <1>9 DEF Await
  <2>2. CASE cur' = cur \/ Holding
    BY <1>1, <2>1, <2>2 DEF Counted, OneFreshCopy
  <2>3. CASE ~Holding
    BY <1>1, <1>5, <2>1, <2>3 DEF Counted, OneFreshCopy
  <2>4. QED
    BY <2>2, <2>3
<1>10. CASE ThreadRun
  <2> DEFINE r == Append(s, NoCopy)
  <2>1. copies' = [copies EXCEPT ![cur] = r] /\ cell' = cell /\ updates' = updates /\ cur' = cur
    BY <1>10 DEF ThreadRun
  <2>2. lapsed' \/ ~Holding
    BY <1>10 DEF ThreadRun
  <2>3. SUFFICES ASSUME ~Holding PROVE Counted'
    BY <2>2
  <2>4. \A i \in DOMAIN r : r[i] = NoCopy \/ (i \in DOMAIN s /\ r[i] = s[i])
    BY <1>1, PushTop DEF NoCopy
  <2> HIDE DEF r
  <2>5. \A i \in DOMAIN s : s[i] = NoCopy
    BY <1>2, <1>3, <2>3 DEF Holding
  <2>6. \A i \in DOMAIN r : r[i] = NoCopy
    BY <2>4, <2>5
  <2>7. QED
    BY <1>1, <2>1, <2>6, FreshAfter DEF Counted
<1>11. CASE ThreadDone
  <2> DEFINE r == Front(s)
  <2>1. copies' = [copies EXCEPT ![cur] = r] /\ cell' = cell /\ updates' = updates /\ cur' = cur
    BY <1>11 DEF ThreadDone, mutex
  <2>2. \A i \in DOMAIN r : i \in DOMAIN s \ {n} /\ r[i] = s[i]
    BY <1>1, <1>11, DropTop DEF ThreadDone
  <2> HIDE DEF r
  <2>3. \A i \in DOMAIN r : r[i] = NoCopy
    BY <1>3, <2>2
  <2>4. QED
    BY <1>1, <2>1, <2>3, FreshAfter DEF Counted
<1>12. QED
  BY <1>6, <1>7, <1>8, <1>9, <1>10, <1>11 DEF ThreadsNext

LEMMA LapseStays == ASSUME lapsed, TypeOK, [ThreadsNext]_threads PROVE lapsed'
BY DEF ThreadsNext, Send, Recv, TryRecv, TakeFirst, Close, Lock, Unlock, Await, ThreadRun, ThreadDone,
       mutex, threads

-----------------------------------------------------------------------------
LEMMA InvInit == ThreadsInit => ThreadsInv
<1> SUFFICES ASSUME ThreadsInit PROVE ThreadsInv
  OBVIOUS
<1>1. <<NoCopy>> \in Seq(Nat) /\ <<NoCopy>> # <<>> /\ <<>> \in Seq(Nat) /\ <<>> \o <<>> = <<>>
  BY DEF NoCopy
<1>2. TypeOK
  <2>1. cell \in Nat \ {0} /\ updates \in Nat
    BY DEF ThreadsInit
  <2>2. copies = [c \in Coroutines |-> copies[c]]
    BY DEF ThreadsInit
  <2>3. Stacks
    BY <1>1 DEF ThreadsInit, Stacks
  <2>4. QED
    BY <1>1, <2>1, <2>2, <2>3 DEF ThreadsInit, TypeOK
<1>5. ChannelDelivers
  BY <1>1 DEF ThreadsInit, ChannelDelivers
<1>3. cell = updates + 1 /\ OneFreshCopy
  BY DEF ThreadsInit, OneFreshCopy, NoCopy
<1>6. QED
  BY <1>2, <1>3, <1>5 DEF ThreadsInv

LEMMA InvNext == ThreadsInv /\ [ThreadsNext]_threads => ThreadsInv'
<1> SUFFICES ASSUME ThreadsInv, [ThreadsNext]_threads PROVE ThreadsInv'
  OBVIOUS
<1>1. TypeOK' /\ ChannelDelivers'
  BY TypeNext, DeliversNext
<1>2. lapsed' \/ Counted'
  BY CountedNext, LapseStays DEF ThreadsInv
<1>3. QED
  BY <1>1, <1>2 DEF ThreadsInv, Counted

(* The inductive invariant: at most one call holds a copy that is of use, the *)
(* innermost call of the coroutine that runs, and its copy is the value.      *)
THEOREM ThreadsInvariant == ThreadsSpec => []ThreadsInv
BY InvInit, InvNext, PTL DEF ThreadsSpec

(* Every message Send took is received once and in order, or still queued,   *)
(* and a receiver that was told the end has missed none: channel_recv and     *)
(* channel_try_recv take from the front before they look at the flag.         *)
THEOREM Delivered == ThreadsSpec => []ChannelDelivers
<1>1. ThreadsInv => ChannelDelivers
  BY DEF ThreadsInv
<1>2. QED
  BY <1>1, ThreadsInvariant, PTL

(* Rounds of Lock .. Unlock(copy + 1) add up unless somebody awaited with a   *)
(* copy in hand and another coroutine ran, or ran a thread with one.          *)
THEOREM RoundsAddUp == ThreadsSpec => []UpdatesAddUp
<1>1. ThreadsInv => UpdatesAddUp
  BY DEF ThreadsInv, UpdatesAddUp
<1>2. QED
  BY <1>1, ThreadsInvariant, PTL
=============================================================================
