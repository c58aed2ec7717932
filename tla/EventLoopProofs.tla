-------------------------- MODULE EventLoopProofs --------------------------
(***************************************************************************)
(* Proofs about EventLoop, for every number of tasks, coroutines, scopes,  *)
(* try frames and callbacks.                                               *)
(***************************************************************************)
EXTENDS EventLoopRefines, WellFoundedInduction, SequenceTheorems, TLAPS

-----------------------------------------------------------------------------
(* Facts about the sequences the queues are made of.                       *)

\* A queue without repetitions.
Distinct(q) == \A i, j \in DOMAIN q : q[i] = q[j] => i = j

LEMMA AppendFacts ==
  ASSUME NEW S, NEW q \in Seq(S), NEW c \in S
  PROVE  Append(q, c) \in Seq(S) /\ RangeOf(Append(q, c)) = RangeOf(q) \cup {c}
<1>1. Append(q, c) \in Seq(S) /\ Len(Append(q, c)) = Len(q) + 1
  OBVIOUS
<1>2. \A i \in 1 .. Len(q) : Append(q, c)[i] = q[i]
  OBVIOUS
<1>3. Append(q, c)[Len(q) + 1] = c
  OBVIOUS
<1>4. QED
  BY <1>1, <1>2, <1>3 DEF RangeOf

LEMMA HeadTailFacts ==
  ASSUME NEW S, NEW q \in Seq(S), q # <<>>
  PROVE  /\ Head(q) \in S /\ Tail(q) \in Seq(S)
         /\ RangeOf(q) = {Head(q)} \cup RangeOf(Tail(q))
<1>1. Head(q) \in S /\ Tail(q) \in Seq(S) /\ Len(Tail(q)) = Len(q) - 1
  OBVIOUS
<1>2. \A i \in 1 .. Len(q) - 1 : Tail(q)[i] = q[i + 1]
  OBVIOUS
<1>3. \A i \in 1 .. Len(q) : i = 1 \/ (i - 1 \in 1 .. Len(q) - 1 /\ q[i] = Tail(q)[i - 1])
  BY <1>2
<1>4. Head(q) = q[1] /\ 1 \in 1 .. Len(q)
  OBVIOUS
<1>5. DOMAIN Tail(q) = 1 .. Len(q) - 1 /\ DOMAIN q = 1 .. Len(q)
  BY <1>1
<1>6. RangeOf(q) \subseteq {Head(q)} \cup RangeOf(Tail(q))
  <2> SUFFICES ASSUME NEW i \in DOMAIN q PROVE q[i] = Head(q) \/ q[i] \in RangeOf(Tail(q))
    BY DEF RangeOf
  <2>1. i = 1 \/ (i - 1 \in DOMAIN Tail(q) /\ q[i] = Tail(q)[i - 1])
    BY <1>3, <1>5
  <2>2. QED
    BY <1>4, <2>1 DEF RangeOf
<1>7. RangeOf(Tail(q)) \subseteq RangeOf(q)
  BY <1>2, <1>5 DEF RangeOf
<1>8. Head(q) \in RangeOf(q)
  BY <1>4 DEF RangeOf
<1>9. QED
  BY <1>1, <1>6, <1>7, <1>8

LEMMA PushFacts ==
  ASSUME NEW S, NEW q \in Seq(S), NEW c \in S
  PROVE  /\ Push(q, c) \in Seq(S)
         /\ RangeOf(Push(q, c)) = RangeOf(q) \cup {c}
         /\ Distinct(q) => Distinct(Push(q, c))
<1>1. CASE c \in RangeOf(q)
  BY <1>1 DEF Push, RangeOf
<1>2. CASE c \notin RangeOf(q)
  <2>1. Push(q, c) = Append(q, c)
    BY <1>2 DEF Push
  <2>2. ASSUME Distinct(q) PROVE Distinct(Append(q, c))
    <3>1. \A i \in 1 .. Len(q) : Append(q, c)[i] = q[i] /\ q[i] # c
      BY <1>2 DEF RangeOf
    <3>2. Append(q, c)[Len(q) + 1] = c /\ DOMAIN Append(q, c) = 1 .. Len(q) + 1
      OBVIOUS
    <3>3. QED
      BY <2>2, <3>1, <3>2 DEF Distinct
  <2>3. QED
    BY <2>1, <2>2, AppendFacts
<1>3. QED
  BY <1>1, <1>2

LEMMA DistinctTail ==
  ASSUME NEW S, NEW q \in Seq(S), q # <<>>, Distinct(q)
  PROVE  Distinct(Tail(q)) /\ Head(q) \notin RangeOf(Tail(q))
<1>1. \A i \in 1 .. Len(q) - 1 : Tail(q)[i] = q[i + 1]
  OBVIOUS
<1>2. DOMAIN Tail(q) = 1 .. Len(q) - 1 /\ Head(q) = q[1] /\ 1 \in DOMAIN q
  OBVIOUS
<1>3. QED
  BY <1>1, <1>2 DEF Distinct, RangeOf

\* Taking the element after the first k out of a sequence.
LEMMA RemoveFacts ==
  ASSUME NEW S, NEW q \in Seq(S), NEW k \in 0 .. Len(q) - 1
  PROVE  LET r == SubSeq(q, 1, k) \o SubSeq(q, k + 2, Len(q)) IN
         /\ r \in Seq(S) /\ Len(r) = Len(q) - 1
         /\ \A i \in 1 .. k : r[i] = q[i]
         /\ \A i \in k + 1 .. Len(q) - 1 : r[i] = q[i + 1]
<1> DEFINE a == SubSeq(q, 1, k)
           b == SubSeq(q, k + 2, Len(q))
           r == a \o b
<1>1. a \in Seq(S) /\ b \in Seq(S)
  OBVIOUS
<1>2. Len(a) = k /\ Len(b) = Len(q) - k - 1
  OBVIOUS
<1>3. \A i \in 1 .. k : a[i] = q[i]
  OBVIOUS
<1>4. \A i \in 1 .. Len(q) - k - 1 : b[i] = q[i + k + 1]
  OBVIOUS
<1>5. Len(q) \in Nat /\ k \in Nat /\ k < Len(q)
  OBVIOUS
<1> HIDE DEF a, b
<1>6. r \in Seq(S) /\ Len(r) = Len(a) + Len(b)
  BY <1>1
<1>7. \A i \in 1 .. Len(a) + Len(b) : r[i] = IF i <= Len(a) THEN a[i] ELSE b[i - Len(a)]
  BY <1>1, ConcatProperties, Zenon
<1> HIDE DEF r
<1>8. r \in Seq(S) /\ Len(r) = Len(q) - 1
  BY <1>2, <1>5, <1>6
<1>9. \A i \in 1 .. k : r[i] = q[i]
  BY <1>2, <1>3, <1>5, <1>7
<1>10. \A i \in k + 1 .. Len(q) - 1 : r[i] = q[i + 1]
  <2> TAKE i \in k + 1 .. Len(q) - 1
  <2>1. r[i] = b[i - k] /\ i - k \in 1 .. Len(q) - k - 1
    BY <1>2, <1>5, <1>7
  <2>2. b[i - k] = q[i - k + k + 1] /\ i - k + k + 1 = i + 1
    BY <1>4, <2>1
  <2>3. QED
    BY <2>1, <2>2
<1>11. QED
  BY <1>8, <1>9, <1>10 DEF r, a, b

LEMMA EmptyFacts ==
  ASSUME NEW S
  PROVE  <<>> \in Seq(S) /\ RangeOf(<<>>) = {} /\ Distinct(<<>>)
  BY DEF RangeOf, Distinct

-----------------------------------------------------------------------------
(* Type correctness.                                                       *)

LEMMA TypeInit == Init => TypeOK
  BY BoundsAssumption, NoneAssumption
  DEF Init, TypeOK, TaskStates, CoStates, Tasks, Cos, Root, Scopes

LEMMA SettleType ==
  ASSUME TypeOK, NEW t \in Tasks, NEW o \in {"ready", "failed"}, SettleTask(t, o)
  PROVE  /\ tstate' \in [Tasks -> TaskStates]
         /\ waiters' \in [Tasks -> Seq(Cos)]
         /\ woken' \in Seq(Cos)
<1>1. CASE tstate[t] = "pending"
  <2>1. tstate' \in [Tasks -> TaskStates]
    BY <1>1 DEF TypeOK, SettleTask, TaskStates
  <2>2. waiters' \in [Tasks -> Seq(Cos)]
    <3>1. <<>> \in Seq(Cos) /\ waiters \in [Tasks -> Seq(Cos)]
      BY DEF TypeOK
    <3>2. waiters' = [waiters EXCEPT ![t] = <<>>]
      BY <1>1 DEF SettleTask
    <3>3. QED
      BY <3>1, <3>2
  <2>3. woken' \in Seq(Cos)
    BY <1>1 DEF TypeOK, SettleTask
  <2>4. QED
    BY <2>1, <2>2, <2>3
<1>2. CASE tstate[t] # "pending"
  BY <1>2 DEF TypeOK, SettleTask
<1>3. QED
  BY <1>1, <1>2

LEMMA CreateType ==
  ASSUME TypeOK, NEW t \in Tasks, NEW o \in {"pending", "ready", "failed"},
         NEW s \in Scopes \cup {None}, CreateTask(t, o, s)
  PROVE  /\ tstate' \in [Tasks -> TaskStates]
         /\ ttoken' \in [Tasks -> Scopes \cup {None}]
  BY DEF TypeOK, CreateTask, TaskStates

\* Every step of the VM keeps the type of every variable.
LEMMA TypeNext == TypeOK /\ CurLoaded /\ [Next]_vars => TypeOK'
<1> SUFFICES ASSUME TypeOK, CurLoaded, [Next]_vars PROVE TypeOK'
  OBVIOUS
<1> USE BoundsAssumption, NoneAssumption
<1>1. CASE PushWoken
  <2>1. ready' \in Seq(Cos) /\ woken' \in Seq(Cos)
    BY <1>1, HeadTailFacts, PushFacts DEF PushWoken, TypeOK
  <2>2. QED
    BY <1>1, <2>1 DEF PushWoken, taskVars, scopeVars, coVars, ctrlVars, TypeOK
<1>2. CASE FireTimer
  <2>1. PICK t \in timers : timers' = timers \ {t} /\ SettleTask(t, "ready")
    BY <1>2 DEF FireTimer
  <2>2. /\ tstate' \in [Tasks -> TaskStates] /\ waiters' \in [Tasks -> Seq(Cos)]
        /\ woken' \in Seq(Cos)
    BY <2>1, SettleType DEF TypeOK
  <2>3. QED
    BY <1>2, <2>1, <2>2 DEF FireTimer, scopeVars, coVars, ctrlVars, TypeOK
<1>3. CASE TimersDone
  BY <1>3 DEF TimersDone, CallPoll, taskVars, scopeVars, coVars, queueVars, TypeOK
<1>4. CASE PollResolved
  <2> DEFINE j == joins[polled + 1]
  <2>1. /\ polled \in 0 .. Len(joins) - 1 /\ j \in Tasks
        /\ SettleTask(j, JoinOutcome(j)) /\ JoinOutcome(j) \in {"ready", "failed"}
        /\ joins' = SubSeq(joins, 1, polled) \o SubSeq(joins, polled + 2, Len(joins))
    BY <1>4 DEF PollResolved, JoinOutcome, TypeOK
  <2>2. /\ tstate' \in [Tasks -> TaskStates] /\ waiters' \in [Tasks -> Seq(Cos)]
        /\ woken' \in Seq(Cos)
    BY <2>1, SettleType
  <2>3. joins' \in Seq(Tasks) /\ Len(joins') = Len(joins) - 1
    <3>1. joins \in Seq(Tasks) /\ polled \in 0 .. Len(joins) - 1
      BY <2>1 DEF TypeOK
    <3>2. QED
      BY <2>1, <3>1, RemoveFacts
  <2>4. polled' \in 0 .. Len(joins')
    BY <1>4, <2>1, <2>3 DEF PollResolved, ctrlVars
  <2>5. QED
    BY <1>4, <2>2, <2>3, <2>4 DEF PollResolved, scopeVars, coVars, ctrlVars, TypeOK
<1>5. CASE PollKept
  <2>1. polled' \in 0 .. Len(joins) /\ joins' = joins
    BY <1>5 DEF PollKept, queueVars, TypeOK
  <2>2. UNCHANGED <<taskVars, scopeVars, coVars, queueVars, woken, cur, sync, pc, ret, exit>>
    BY <1>5 DEF PollKept
  <2>3. QED
    BY <2>1, <2>2 DEF taskVars, scopeVars, coVars, queueVars, TypeOK
<1>6. CASE PollDone
  BY <1>6 DEF PollDone, taskVars, scopeVars, coVars, queueVars, TypeOK
<1>7. CASE NothingReady
  BY <1>7 DEF NothingReady, taskVars, scopeVars, coVars, queueVars, TypeOK
<1>8. CASE ResumeNext
  <2> DEFINE c == Head(ready)
  <2>1. c \in Cos /\ ready' \in Seq(Cos)
    BY <1>8, HeadTailFacts DEF ResumeNext, TypeOK
  <2>2. /\ tstate' \in [Tasks -> TaskStates] /\ waiters' \in [Tasks -> Seq(Cos)]
        /\ woken' \in Seq(Cos) /\ cstat' \in [Cos -> CoStates]
        /\ awaiting' \in [Cos -> Tasks \cup {None}] /\ cur' \in Cos \cup {None}
        /\ pc' \in {"loop", "poll", "resume", "slice", "cancel", "done"}
        /\ polled' \in 0 .. Len(joins) /\ ret' \in {"loop", "resume", "slice"}
    <3>1. CASE UNCHANGED <<tstate, waiters, woken, cstat, awaiting, cur, pc, polled, ret>>
      BY <3>1 DEF TypeOK
    <3>2. CASE ResumeRun(c)
      BY <2>1, <3>2 DEF ResumeRun, TypeOK, CoStates
    <3>3. CASE ResumeFailed(c)
      <4>1. /\ tstate' \in [Tasks -> TaskStates] /\ waiters' \in [Tasks -> Seq(Cos)]
            /\ woken' \in Seq(Cos)
        <5>1. CASE cotask[c] # None
          BY <2>1, <3>3, <5>1, SettleType DEF ResumeFailed, TypeOK
        <5>2. CASE cotask[c] = None
          BY <3>3, <5>2 DEF ResumeFailed, TypeOK
        <5>3. QED
          BY <5>1, <5>2
      <4>2. QED
        <5>1. /\ cstat' \in [Cos -> CoStates] /\ awaiting' = awaiting /\ cur' = cur
          BY <2>1, <3>3 DEF ResumeFailed, TypeOK, CoStates
        <5>2. /\ pc' \in {"poll", pc} /\ polled' \in {0, polled} /\ ret' \in {"resume", ret}
          BY <3>3 DEF ResumeFailed, CallPoll
        <5>3. polled' \in 0 .. Len(joins)
          <6>1. Len(joins) \in Nat /\ polled \in 0 .. Len(joins)
            BY DEF TypeOK
          <6>2. QED
            BY <5>2, <6>1
        <5>4. QED
          BY <4>1, <5>1, <5>2, <5>3 DEF TypeOK
    <3>4. CASE awaiting[c] # None /\ ResumePending(c)
      <4>1. awaiting[c] \in Tasks
        BY <2>1, <3>4 DEF TypeOK
      <4>2. waiters' \in [Tasks -> Seq(Cos)]
        BY <2>1, <3>4, <4>1, AppendFacts DEF ResumePending, AddWaiter, TypeOK
      <4>3. QED
        BY <3>4, <4>2 DEF ResumePending, TypeOK
    <3>5. QED
      BY <1>8, <3>1, <3>2, <3>3, <3>4 DEF ResumeNext
  <2>3. QED
    BY <1>8, <2>1, <2>2 DEF ResumeNext, scopeVars, TypeOK
<1>9. ASSUME NEW s \in Scopes \cup {None}, RunTask(s) PROVE TypeOK'
  <2>1. PICK t \in Tasks :
          /\ IF s \in cancelled
             THEN CreateTask(t, "failed", s) /\ UNCHANGED <<cstat, cotask, ready>>
             ELSE CreateTask(t, "pending", s) /\ \E c \in Cos : Spawn(c, t)
          /\ tracked' = IF s = None THEN tracked
                        ELSE [tracked EXCEPT ![s] = Append(@, t)]
    BY <1>9 DEF RunTask
  <2>2. tstate' \in [Tasks -> TaskStates] /\ ttoken' \in [Tasks -> Scopes \cup {None}]
    BY <2>1, CreateType
  <2>3. tracked' \in [Scopes -> Seq(Tasks)]
    BY <2>1, AppendFacts DEF TypeOK
  <2>4. /\ cstat' \in [Cos -> CoStates] /\ cotask' \in [Cos -> Tasks \cup {None}]
        /\ ready' \in Seq(Cos)
    <3>1. CASE s \in cancelled
      BY <2>1, <3>1 DEF TypeOK
    <3>2. CASE s \notin cancelled
      <4>1. PICK c \in Cos : Spawn(c, t)
        BY <2>1, <3>2
      <4>2. ready' \in Seq(Cos)
        BY <4>1, PushFacts DEF Spawn, TypeOK
      <4>3. QED
        BY <4>1, <4>2 DEF Spawn, TypeOK, CoStates
    <3>3. QED
      BY <3>1, <3>2
  <2>5. QED
    BY <1>9, <2>2, <2>3, <2>4 DEF RunTask, ctrlVars, TypeOK
<1>10. ASSUME NEW s \in Sources \cup {None}, Delay(s) PROVE TypeOK'
  <2>1. PICK t \in Tasks :
          /\ CreateTask(t, IF s \in cancelled THEN "failed" ELSE "pending", s)
          /\ timers' = IF s \in cancelled THEN timers ELSE timers \cup {t}
          /\ tracked' = IF s = None THEN tracked
                        ELSE [tracked EXCEPT ![s] = Append(@, t)]
    BY <1>10 DEF Delay
  <2>2. tstate' \in [Tasks -> TaskStates] /\ ttoken' \in [Tasks -> Scopes \cup {None}]
    BY <2>1, CreateType DEF Scopes
  <2>3. tracked' \in [Scopes -> Seq(Tasks)]
    BY <2>1, AppendFacts DEF TypeOK, Scopes
  <2>4. QED
    BY <1>10, <2>1, <2>2, <2>3 DEF Delay, coVars, ctrlVars, TypeOK
<1>11. ASSUME NEW ts \in Seq(Tasks), NEW isAny \in BOOLEAN, NEW s \in Scopes \cup {None},
              NewJoin(ts, isAny, s),
              UNCHANGED <<waiters, scopeVars, coVars, ready, timers, woken, cur, sync, exit>>
       PROVE  TypeOK'
  <2>1. PICK t \in Tasks :
          /\ CreateTask(t, IF ts = <<>> THEN "ready" ELSE "pending", s)
          /\ members' = [members EXCEPT ![t] = ts]
          /\ any' = [any EXCEPT ![t] = isAny]
          /\ IF ts = <<>> THEN UNCHANGED <<joins, pc, polled, ret>>
             ELSE joins' = Append(joins, t) /\ CallPoll("slice")
    BY <1>11 DEF NewJoin
  <2>2. tstate' \in [Tasks -> TaskStates] /\ ttoken' \in [Tasks -> Scopes \cup {None}]
    BY <2>1, CreateType
  <2>3. /\ joins' \in Seq(Tasks) /\ polled' \in 0 .. Len(joins')
        /\ pc' \in {"loop", "poll", "resume", "slice", "cancel", "done"}
        /\ ret' \in {"loop", "resume", "slice"}
    <3>1. CASE ts = <<>>
      BY <2>1, <3>1 DEF TypeOK
    <3>2. CASE ts # <<>>
      <4>1. joins' \in Seq(Tasks) /\ Len(joins') \in Nat
        <5>1. joins' = Append(joins, t) /\ joins \in Seq(Tasks)
          BY <2>1, <3>2 DEF TypeOK
        <5>2. QED
          BY <5>1, AppendFacts
      <4>2. QED
        BY <2>1, <3>2, <4>1 DEF CallPoll
    <3>3. QED
      BY <3>1, <3>2
  <2>4. QED
    BY <1>11, <2>1, <2>2, <2>3 DEF scopeVars, coVars, TypeOK
<1>12. CASE Join
  <2>1. PICK ts \in JoinLists, isAny \in BOOLEAN : NewJoin(ts, isAny, None)
    BY <1>12 DEF Join
  <2>2. ts \in Seq(Tasks)
    BY <2>1 DEF JoinLists, Born
  <2>3. QED
    BY <1>11, <1>12, <2>1, <2>2 DEF Join
<1>13. ASSUME NEW g \in Groups, GroupJoin(g) PROVE TypeOK'
  <2>1. PICK isAny \in BOOLEAN : NewJoin(tracked[g], isAny, g)
    BY <1>13 DEF GroupJoin
  <2>2. tracked[g] \in Seq(Tasks) /\ g \in Scopes
    BY DEF TypeOK, Scopes
  <2>3. QED
    BY <1>11, <1>13, <2>1, <2>2 DEF GroupJoin
<1>14. ASSUME NEW s \in Scopes, Cancel(s) PROVE TypeOK'
  BY <1>14 DEF Cancel, taskVars, coVars, queueVars, TypeOK
<1>15. CASE CancelNext
  <2>1. Head(todo) \in Tasks /\ todo' \in Seq(Tasks)
    BY <1>15, HeadTailFacts DEF CancelNext, TypeOK
  <2>2. /\ tstate' \in [Tasks -> TaskStates] /\ waiters' \in [Tasks -> Seq(Cos)]
        /\ woken' \in Seq(Cos)
    BY <1>15, <2>1, SettleType DEF CancelNext
  <2>3. QED
    BY <1>15, <2>1, <2>2 DEF CancelNext, coVars, queueVars, ctrlVars, TypeOK
<1>16. CASE CancelDone
  BY <1>16 DEF CancelDone, CallPoll, taskVars, scopeVars, coVars, queueVars, TypeOK
<1>17. ASSUME cur \in Cos, Raise,
              UNCHANGED <<ttoken, members, any, scopeVars, awaiting, cotask, queueVars>>
       PROVE  TypeOK'
  <2>1. CASE tries[cur] > 0
    <3>1. tries' = [tries EXCEPT ![cur] = tries[cur] - 1] /\ sync' = 0
      BY <1>17, <2>1 DEF Raise
    <3>2. tries \in [Cos -> Nat] /\ tries[cur] - 1 \in Nat
      BY <1>17, <2>1 DEF TypeOK
    <3>3. tries' \in [Cos -> Nat]
      BY <3>1, <3>2
    <3>4. UNCHANGED <<tstate, waiters, woken, cstat, cur, polled, pc, ret, exit>>
      BY <1>17, <2>1 DEF Raise
    <3>5. QED
      BY <1>17, <3>1, <3>3, <3>4 DEF scopeVars, queueVars, TypeOK
  <2>2. CASE ~(tries[cur] > 0) /\ cotask[cur] # None
    <3>1. /\ SettleTask(cotask[cur], "failed") /\ cotask[cur] \in Tasks
          /\ cstat' = [cstat EXCEPT ![cur] = "ended"]
          /\ cur' = None /\ CallPoll("loop") /\ UNCHANGED <<tries, exit>> /\ sync' = 0
      BY <1>17, <2>2 DEF Raise, TypeOK
    <3>2. /\ tstate' \in [Tasks -> TaskStates] /\ waiters' \in [Tasks -> Seq(Cos)]
          /\ woken' \in Seq(Cos)
      BY <3>1, SettleType
    <3>3. cstat' \in [Cos -> CoStates]
      BY <1>17, <3>1 DEF TypeOK, CoStates
    <3>4. pc' = "poll" /\ polled' = 0 /\ ret' = "loop"
      BY <3>1 DEF CallPoll
    <3>5. QED
      BY <1>17, <3>1, <3>2, <3>3, <3>4 DEF scopeVars, queueVars, TypeOK
  <2>3. CASE ~(tries[cur] > 0) /\ cotask[cur] = None
    <3>1. /\ cstat' = [cstat EXCEPT ![cur] = "ended"]
          /\ cur' = None /\ pc' = "done" /\ exit' = "error" /\ sync' = 0
          /\ UNCHANGED <<tstate, waiters, woken, tries, polled, ret>>
      BY <1>17, <2>3 DEF Raise
    <3>2. QED
      BY <1>17, <3>1 DEF scopeVars, queueVars, TypeOK, CoStates
  <2>4. QED
    BY <2>1, <2>2, <2>3
<1>18. CASE Throw \/ AwaitRaise
  BY <1>17, <1>18 DEF Throw, AwaitRaise, At, CurLoaded, TypeOK
<1>19. CASE AwaitPark
  <2>1. cur \in Cos
    BY <1>19 DEF AwaitPark, At, CurLoaded, TypeOK
  <2>2. PICK t \in Tasks : AddWaiter(t, cur) /\ awaiting' = [awaiting EXCEPT ![cur] = t]
    BY <1>19 DEF AwaitPark, Born
  <2>3. waiters' \in [Tasks -> Seq(Cos)]
    BY <2>1, <2>2, AppendFacts DEF AddWaiter, TypeOK
  <2>4. QED
    BY <1>19, <2>1, <2>2, <2>3 DEF AwaitPark, scopeVars, queueVars, TypeOK, CoStates
<1>20. CASE TryBegin \/ TryEnd
  <2>1. cur \in Cos
    BY <1>20 DEF TryBegin, TryEnd, At, CurLoaded, TypeOK
  <2>2. tries' \in [Cos -> Nat]
    <3>1. tries \in [Cos -> Nat]
      BY DEF TypeOK
    <3>2. CASE TryBegin
      BY <2>1, <3>1, <3>2 DEF TryBegin
    <3>3. CASE TryEnd
      <4>1. tries[cur] - 1 \in Nat /\ tries' = [tries EXCEPT ![cur] = tries[cur] - 1]
        BY <2>1, <3>1, <3>3 DEF TryEnd
      <4>2. QED
        BY <2>1, <3>1, <4>1
    <3>4. QED
      BY <1>20, <3>2, <3>3
  <2>3. QED
    BY <1>20, <2>2 DEF TryBegin, TryEnd, taskVars, scopeVars, queueVars, ctrlVars, TypeOK
<1>21. CASE SyncCall \/ SyncReturn
  <2>1. sync' \in Nat
    BY <1>21 DEF SyncCall, SyncReturn, TypeOK
  <2>2. UNCHANGED <<taskVars, scopeVars, coVars, queueVars, woken, cur, polled, pc, ret, exit>>
    BY <1>21 DEF SyncCall, SyncReturn
  <2>3. QED
    BY <2>1, <2>2 DEF taskVars, scopeVars, coVars, queueVars, TypeOK
<1>22. CASE Finish
  <2> DEFINE o == IF ttoken[cotask[cur]] \in cancelled THEN "failed" ELSE "ready"
  <2>1. cur \in Cos /\ cotask[cur] \in Tasks /\ SettleTask(cotask[cur], o)
    BY <1>22 DEF Finish, At, CurLoaded, TypeOK
  <2>2. /\ tstate' \in [Tasks -> TaskStates] /\ waiters' \in [Tasks -> Seq(Cos)]
        /\ woken' \in Seq(Cos)
    BY <2>1, SettleType
  <2>3. QED
    BY <1>22, <2>1, <2>2 DEF Finish, CallPoll, scopeVars, queueVars, TypeOK, CoStates
<1>23. CASE Halt
  BY <1>23 DEF Halt, taskVars, scopeVars, queueVars, TypeOK, CoStates
<1>24. CASE UNCHANGED vars
  BY <1>24 DEF vars, taskVars, scopeVars, coVars, queueVars, ctrlVars, TypeOK
<1>25. QED
  BY <1>1, <1>2, <1>3, <1>4, <1>5, <1>6, <1>7, <1>8, <1>9, <1>10, <1>12, <1>13, <1>14,
     <1>15, <1>16, <1>18, <1>19, <1>20, <1>21, <1>22, <1>23, <1>24
  DEF Next, Loop, Poll, Resume, Slice, Exited

LEMMA CurInit == Init => CurLoaded
  BY DEF Init, CurLoaded

LEMMA CurNext == TypeOK /\ CurLoaded /\ [Next]_vars => CurLoaded'
<1> SUFFICES ASSUME TypeOK, CurLoaded, [Next]_vars PROVE CurLoaded'
  OBVIOUS
<1> USE NoneAssumption DEF CurLoaded
<1>1. CASE PushWoken \/ UNCHANGED vars \/ FireTimer
  BY <1>1 DEF PushWoken, FireTimer, vars, ctrlVars
<1>2. CASE TimersDone \/ PollDone
  <2>1. CASE TimersDone
    BY <2>1 DEF TimersDone, CallPoll
  <2>2. CASE PollDone
    <3>1. pc' = ret /\ cur' = cur /\ pc = "poll" /\ ret \in {"loop", "resume", "slice"}
      BY <2>2 DEF PollDone, At, TypeOK
    <3>2. QED
      BY <3>1
  <2>3. QED
    BY <1>2, <2>1, <2>2
<1>2a. CASE PollResolved \/ PollKept \/ NothingReady
  BY <1>2a DEF PollResolved, PollKept, NothingReady, ctrlVars
<1>3. CASE ResumeNext
  <2> DEFINE c == Head(ready)
  <2>1. pc = "resume" /\ c \in Cos
    BY <1>3, HeadTailFacts DEF ResumeNext, At, TypeOK
  <2>2. CASE pc' = pc
    BY <2>1, <2>2
  <2>3. CASE cur' = c /\ c # None
    BY <2>3
  <2>4. CASE CallPoll("resume")
    BY <2>4 DEF CallPoll
  <2>5. c # None
    BY <2>1, BoundsAssumption DEF Cos
  <2>6. QED
    BY <1>3, <2>2, <2>3, <2>4, <2>5 DEF ResumeNext, ResumeRun, ResumeFailed, ResumePending
<1>4. ASSUME NEW s \in Scopes \cup {None}, RunTask(s) \/ Delay(s) PROVE CurLoaded'
  BY <1>4 DEF RunTask, Delay, ctrlVars
<1>5. CASE Join \/ \E g \in Groups : GroupJoin(g)
  BY <1>5 DEF Join, GroupJoin, NewJoin, At, CallPoll
<1>6. CASE CancelNext \/ CancelDone \/ \E s \in Scopes : Cancel(s)
  BY <1>6 DEF CancelNext, CancelDone, Cancel, At, CallPoll, ctrlVars
<1>7. CASE Throw \/ AwaitRaise
  BY <1>7 DEF Throw, AwaitRaise, Raise, CallPoll, At
<1>8. CASE AwaitPark \/ Finish \/ Halt
  BY <1>8 DEF AwaitPark, Finish, Halt, CallPoll
<1>9. CASE TryBegin \/ TryEnd \/ SyncCall \/ SyncReturn
  BY <1>9 DEF TryBegin, TryEnd, SyncCall, SyncReturn, ctrlVars
<1>10. QED
  BY <1>1, <1>2, <1>3, <1>4, <1>2a, <1>5, <1>6, <1>7, <1>8, <1>9
  DEF Next, Loop, Poll, Resume, Slice, Exited, Scopes

\* Type correctness of the scheduler, and program code runs only in a loaded
\* coroutine.
THEOREM TypeCorrect == Spec => [](TypeOK /\ CurLoaded)
<1>1. Init => TypeOK /\ CurLoaded
  BY TypeInit, CurInit
<1>2. TypeOK /\ CurLoaded /\ [Next]_vars => (TypeOK /\ CurLoaded)'
  BY TypeNext, CurNext
<1>3. QED
  BY <1>1, <1>2, PTL DEF Spec

-----------------------------------------------------------------------------
(***************************************************************************)
(* No wakeup of the scheduler is lost and none is spurious, for every      *)
(* number of tasks, coroutines and scopes.                                 *)
(*                                                                         *)
(* NoLostWakeup is not inductive by itself: that the waiters handed over   *)
(* by a settled task become ready needs them to be parked on that very     *)
(* task, and that a resumed coroutine leaves no second copy of its id in   *)
(* the queue needs the queue to be free of repetitions.                    *)
(***************************************************************************)
\* A waiter of a task is parked on it, and the task is pending.
WaitersParked ==
  \A t \in Tasks : \A c \in RangeOf(waiters[t]) :
    tstate[t] = "pending" /\ cstat[c] = "parked" /\ awaiting[c] = t

Wake == WaitersParked /\ NoLostWakeup /\ NoSpuriousWakeup

\* Exactly the loaded coroutine is running, it awaits nothing, and no frames
\* are loaded while the next coroutine is being picked.
CurRunning ==
  /\ \A c \in Cos : cstat[c] = "running" <=> c = cur
  /\ \A c \in Cos : cstat[c] \in {"unborn", "running"} => awaiting[c] = None
  /\ pc = "resume" \/ (pc = "poll" /\ ret = "resume") => cur = None

WakeInv == TypeOK /\ CurLoaded /\ Wake /\ Distinct(ready) /\ CurRunning

-----------------------------------------------------------------------------
(* What one step may do to the tasks and the coroutines, whatever handler  *)
(* it belongs to, and that Wake survives it.                               *)

\* The step settles the pending tasks S, handing their waiters over, and
\* creates the tasks N.
TaskEffect(S, N) ==
  /\ \A u \in S : /\ tstate[u] = "pending" /\ tstate'[u] \in {"ready", "failed"}
                  /\ RangeOf(waiters'[u]) = {}
  /\ \A u \in N : tstate[u] = "unborn" /\ RangeOf(waiters'[u]) = RangeOf(waiters[u])
  /\ \A u \in Tasks \ (S \cup N) :
       tstate'[u] = tstate[u] /\ RangeOf(waiters'[u]) = RangeOf(waiters[u])
  /\ RangeOf(woken') = RangeOf(woken) \cup UNION {RangeOf(waiters[u]) : u \in S}

\* The step takes the coroutines D, which wait for nothing pending, out of the
\* queue and out of their await.
CoEffect(D) ==
  /\ \A c \in Cos \ D : cstat'[c] = cstat[c] /\ awaiting'[c] = awaiting[c]
  /\ \A c \in D : /\ cstat'[c] # "parked"
                  /\ c \notin RangeOf(woken)
                  /\ \A u \in Tasks : c \notin RangeOf(waiters[u])
  /\ RangeOf(ready') = RangeOf(ready) \ D

LEMMA RangeInCos ==
  ASSUME TypeOK
  PROVE  /\ RangeOf(ready) \subseteq Cos /\ RangeOf(woken) \subseteq Cos
         /\ \A u \in Tasks : RangeOf(waiters[u]) \subseteq Cos
<1>1. \A q \in Seq(Cos) : RangeOf(q) \subseteq Cos
  BY DEF RangeOf
<1>2. QED
  BY <1>1 DEF TypeOK

LEMMA WakeKept ==
  ASSUME TypeOK, Wake, NEW S \in SUBSET Tasks, NEW N \in SUBSET Tasks, NEW D \in SUBSET Cos,
         TaskEffect(S, N), CoEffect(D)
  PROVE  Wake'
<1> USE NoneAssumption
<1>1. /\ RangeOf(ready) \subseteq Cos /\ RangeOf(woken) \subseteq Cos
      /\ \A u \in Tasks : RangeOf(waiters[u]) \subseteq Cos
  BY RangeInCos
<1>2. \A c \in Cos : awaiting[c] \in Tasks \cup {None}
  BY DEF TypeOK
<1>3. ASSUME NEW u \in Tasks, NEW c \in RangeOf(waiters'[u])
      PROVE  tstate'[u] = "pending" /\ cstat'[c] = "parked" /\ awaiting'[c] = u
  <2>1. u \notin S /\ c \in RangeOf(waiters[u])
    BY <1>3 DEF TaskEffect
  <2>2. c \in Cos /\ tstate[u] = "pending" /\ cstat[c] = "parked" /\ awaiting[c] = u
    BY <1>1, <2>1 DEF Wake, WaitersParked
  <2>3. u \notin N /\ c \notin D
    BY <2>1, <2>2 DEF TaskEffect, CoEffect
  <2>4. QED
    BY <2>1, <2>2, <2>3 DEF TaskEffect, CoEffect
<1>4. ASSUME NEW c \in Cos, cstat'[c] = "parked"
      PROVE  IF awaiting'[c] # None /\ tstate'[awaiting'[c]] = "pending"
             THEN c \in RangeOf(waiters'[awaiting'[c]])
             ELSE c \in RangeOf(ready') \cup RangeOf(woken')
  <2> DEFINE a == awaiting[c]
  <2>1. c \notin D /\ cstat[c] = "parked" /\ awaiting'[c] = a
    BY <1>4 DEF CoEffect
  <2>2. CASE a # None /\ tstate[a] = "pending"
    <3>1. c \in RangeOf(waiters[a]) /\ a \in Tasks /\ a \notin N
      BY <1>2, <2>1, <2>2 DEF Wake, NoLostWakeup, TaskEffect
    <3>2. CASE a \in S
      BY <2>1, <2>2, <3>1, <3>2 DEF TaskEffect
    <3>3. CASE a \notin S
      BY <2>1, <2>2, <3>1, <3>3 DEF TaskEffect
    <3>4. QED
      BY <3>2, <3>3
  <2>3. CASE ~(a # None /\ tstate[a] = "pending")
    <3>1. c \in RangeOf(ready) \cup RangeOf(woken)
      BY <2>1, <2>3 DEF Wake, NoLostWakeup
    <3>2. a = None \/ Settled(a)
      BY <3>1 DEF Wake, NoSpuriousWakeup
    <3>3. c \in RangeOf(ready') \cup RangeOf(woken')
      BY <2>1, <3>1 DEF TaskEffect, CoEffect
    <3>4. a = None \/ tstate'[a] # "pending"
      BY <1>2, <3>2 DEF TaskEffect, Settled
    <3>5. QED
      BY <2>1, <3>3, <3>4
  <2>4. QED
    BY <2>2, <2>3
<1>5. ASSUME NEW c \in RangeOf(ready') \cup RangeOf(woken')
      PROVE  cstat'[c] = "parked" /\ (awaiting'[c] = None \/ tstate'[awaiting'[c]] \in {"ready", "failed"})
  <2>1. CASE c \in RangeOf(ready) \cup RangeOf(woken)
    <3>1. /\ c \in Cos /\ c \notin D /\ cstat[c] = "parked"
          /\ awaiting[c] = None \/ tstate[awaiting[c]] \in {"ready", "failed"}
      BY <1>1, <1>5, <2>1 DEF Wake, NoSpuriousWakeup, Settled, CoEffect, TaskEffect
    <3>2. QED
      BY <1>2, <3>1 DEF CoEffect, TaskEffect
  <2>2. CASE \E u \in S : c \in RangeOf(waiters[u])
    <3>1. PICK u \in S : c \in RangeOf(waiters[u])
      BY <2>2
    <3>2. c \in Cos /\ c \notin D /\ cstat[c] = "parked" /\ awaiting[c] = u
      BY <1>1, <3>1 DEF Wake, WaitersParked, CoEffect
    <3>3. QED
      BY <3>1, <3>2 DEF CoEffect, TaskEffect
  <2>3. QED
    BY <1>5, <2>1, <2>2 DEF CoEffect, TaskEffect
<1>6. WaitersParked'
  BY <1>3 DEF WaitersParked
<1>7. NoLostWakeup'
  BY <1>4 DEF NoLostWakeup
<1>8. NoSpuriousWakeup'
  BY <1>5 DEF NoSpuriousWakeup, Settled
<1>9. QED
  BY <1>6, <1>7, <1>8 DEF Wake

\* SettleTask settles one task or none.
LEMMA SettleEffect ==
  ASSUME TypeOK, woken = <<>>, NEW t \in Tasks, NEW o \in {"ready", "failed"}, SettleTask(t, o)
  PROVE  \E S \in SUBSET Tasks : TaskEffect(S, {})
<1>1. CASE tstate[t] = "pending"
  <2>1. /\ \A u \in Tasks : tstate'[u] = IF u = t THEN o ELSE tstate[u]
        /\ \A u \in Tasks : waiters'[u] = IF u = t THEN <<>> ELSE waiters[u]
        /\ woken' = waiters[t]
    BY <1>1 DEF SettleTask, TypeOK
  <2>2. RangeOf(<<>>) = {}
    BY DEF RangeOf
  <2>3. TaskEffect({t}, {})
    BY <1>1, <2>1, <2>2 DEF TaskEffect
  <2>4. QED
    BY <2>3
<1>2. CASE tstate[t] # "pending"
  <2>1. TaskEffect({}, {})
    BY <1>2 DEF SettleTask, TaskEffect
  <2>2. QED
    BY <2>1
<1>3. QED
  BY <1>1, <1>2

\* CreateTask creates one task.
LEMMA CreateEffect ==
  ASSUME TypeOK, NEW t \in Tasks, NEW o, NEW s, CreateTask(t, o, s), UNCHANGED <<waiters, woken>>
  PROVE  TaskEffect({}, {t})
  BY DEF CreateTask, TaskEffect, Unborn, TypeOK

LEMMA WakeUnchanged ==
  ASSUME TypeOK, Wake, UNCHANGED <<tstate, waiters, woken, cstat, awaiting, ready>>
  PROVE  Wake'
<1>1. TaskEffect({}, {}) /\ CoEffect({})
  BY DEF TaskEffect, CoEffect
<1>2. QED
  BY <1>1, WakeKept

\* An action that settles a task and leaves the coroutines alone.
LEMMA WakeSettle ==
  ASSUME TypeOK, Wake, woken = <<>>, NEW t \in Tasks, NEW o \in {"ready", "failed"},
         SettleTask(t, o), UNCHANGED <<cstat, awaiting, ready>>
  PROVE  Wake'
<1>1. PICK S \in SUBSET Tasks : TaskEffect(S, {})
  BY SettleEffect
<1>2. CoEffect({})
  BY DEF CoEffect
<1>3. QED
  BY <1>1, <1>2, WakeKept

\* An action that creates a task and leaves the coroutines alone.
LEMMA WakeCreate ==
  ASSUME TypeOK, Wake, NEW t \in Tasks, NEW o, NEW s, CreateTask(t, o, s),
         UNCHANGED <<waiters, woken, cstat, awaiting, ready>>
  PROVE  Wake'
<1>1. TaskEffect({}, {t}) /\ CoEffect({})
  BY CreateEffect DEF CoEffect
<1>2. QED
  BY <1>1, WakeKept

\* The running coroutine ends, and its task, if it has one, is settled.
LEMMA WakeEnd ==
  ASSUME WakeInv, woken = <<>>, cur \in Cos, UNCHANGED <<awaiting, ready>>,
         cstat' = [cstat EXCEPT ![cur] = "ended"],
         \/ UNCHANGED <<tstate, waiters, woken>>
         \/ \E t \in Tasks, o \in {"ready", "failed"} : SettleTask(t, o)
  PROVE  Wake'
<1> USE DEF WakeInv
<1>1. cstat[cur] = "running"
  BY DEF CurRunning
<1>2. \A u \in Tasks : cur \notin RangeOf(waiters[u])
  BY <1>1 DEF Wake, WaitersParked
<1>3. cur \notin RangeOf(ready) \cup RangeOf(woken)
  BY <1>1 DEF Wake, NoSpuriousWakeup
<1>4. CoEffect({cur})
  BY <1>2, <1>3 DEF CoEffect, TypeOK
<1>5. \E S \in SUBSET Tasks : TaskEffect(S, {})
  <2>1. CASE UNCHANGED <<tstate, waiters, woken>>
    <3>1. TaskEffect({}, {})
      BY <2>1 DEF TaskEffect
    <3>2. QED
      BY <3>1
  <2>2. CASE \E t \in Tasks, o \in {"ready", "failed"} : SettleTask(t, o)
    BY <2>2, SettleEffect
  <2>3. QED
    BY <2>1, <2>2
<1>6. QED
  BY <1>4, <1>5, WakeKept

\* The front of the ready queue is parked, waits for nothing pending, and has
\* no second copy in the queue.
LEMMA FrontFacts ==
  ASSUME WakeInv, ready # <<>>, woken = <<>>
  PROVE  LET c == Head(ready) IN
         /\ c \in Cos /\ cstat[c] = "parked"
         /\ awaiting[c] = None \/ Settled(awaiting[c])
         /\ \A u \in Tasks : c \notin RangeOf(waiters[u])
         /\ RangeOf(Tail(ready)) = RangeOf(ready) \ {c}
         /\ Distinct(Tail(ready))
<1> DEFINE c == Head(ready)
<1> USE DEF WakeInv
<1>1. c \in Cos /\ RangeOf(ready) = {c} \cup RangeOf(Tail(ready))
  BY HeadTailFacts DEF TypeOK
<1>2. Distinct(Tail(ready)) /\ c \notin RangeOf(Tail(ready))
  BY DistinctTail DEF TypeOK
<1>3. cstat[c] = "parked" /\ (awaiting[c] = None \/ Settled(awaiting[c]))
  BY <1>1 DEF Wake, NoSpuriousWakeup
<1>4. \A u \in Tasks : c \notin RangeOf(waiters[u])
  BY <1>3, NoneAssumption DEF Wake, WaitersParked, Settled, Tasks
<1>5. QED
  BY <1>1, <1>2, <1>3, <1>4

LEMMA WakeResume == WakeInv /\ ResumeNext => Wake'
<1> SUFFICES ASSUME WakeInv, ResumeNext PROVE Wake'
  OBVIOUS
<1> DEFINE c == Head(ready)
<1>0. TypeOK /\ Wake
  BY DEF WakeInv
<1>1. woken = <<>> /\ ready # <<>> /\ ready' = Tail(ready)
  BY DEF ResumeNext, At
<1>2. /\ c \in Cos /\ cstat[c] = "parked"
      /\ awaiting[c] = None \/ Settled(awaiting[c])
      /\ \A u \in Tasks : c \notin RangeOf(waiters[u])
      /\ RangeOf(ready') = RangeOf(ready) \ {c}
  BY <1>1, FrontFacts
<1>3. RangeOf(woken) = {}
  BY <1>1 DEF RangeOf
<1>4. CASE ResumeRun(c)
  <2>1. CoEffect({c}) /\ TaskEffect({}, {})
    BY <1>2, <1>3, <1>4 DEF ResumeRun, CoEffect, TaskEffect, WakeInv, TypeOK
  <2>2. QED
    BY <1>0, <1>2, <2>1, WakeKept
<1>5. CASE ResumeFailed(c)
  <2>1. CoEffect({c})
    BY <1>2, <1>3, <1>5 DEF ResumeFailed, CoEffect, WakeInv, TypeOK
  <2>2. CASE cotask[c] # None
    <3>1. cotask[c] \in Tasks /\ SettleTask(cotask[c], "failed")
      BY <1>2, <1>5, <2>2 DEF ResumeFailed, WakeInv, TypeOK
    <3>2. QED
      <4>1. PICK S \in SUBSET Tasks : TaskEffect(S, {})
        BY <1>0, <1>1, <3>1, SettleEffect
      <4>2. QED
        BY <1>0, <1>2, <2>1, <4>1, WakeKept
  <2>3. CASE cotask[c] = None
    <3>1. TaskEffect({}, {})
      BY <1>5, <2>3 DEF ResumeFailed, TaskEffect
    <3>2. QED
      BY <1>0, <1>2, <2>1, <3>1, WakeKept
  <2>4. QED
    BY <2>2, <2>3
<1>6. QED
  BY <1>2, <1>4, <1>5 DEF ResumeNext, Settled

\* A new task and its coroutine, parked with nothing to await and queued.
LEMMA WakeSpawn ==
  ASSUME WakeInv, NEW t \in Tasks, NEW s, NEW c \in Cos, CreateTask(t, "pending", s), Spawn(c, t),
         UNCHANGED <<waiters, woken, awaiting>>
  PROVE  Wake'
<1> USE NoneAssumption
<1>1. TypeOK /\ Wake
  BY DEF WakeInv
<1>2. TaskEffect({}, {t})
  BY <1>1, CreateEffect
<1>3. cstat[c] = "unborn" /\ awaiting[c] = None /\ cstat' = [cstat EXCEPT ![c] = "parked"]
  BY DEF Spawn, WakeInv, CurRunning
<1>4. RangeOf(ready') = RangeOf(ready) \cup {c}
  <2>1. ready \in Seq(Cos) /\ ready' = Push(ready, c)
    BY <1>1 DEF Spawn, TypeOK
  <2>2. QED
    BY <2>1, PushFacts
<1>5. /\ \A d \in Cos \ {c} : cstat'[d] = cstat[d]
      /\ cstat'[c] = "parked" /\ awaiting' = awaiting
      /\ \A d \in Cos : awaiting[d] \in Tasks \cup {None}
      /\ \A u \in Tasks : c \notin RangeOf(waiters[u])
      /\ waiters' = waiters /\ woken' = woken
      /\ \A u \in Tasks \ {t} : tstate'[u] = tstate[u]
      /\ tstate[t] = "unborn"
  BY <1>1, <1>2, <1>3 DEF Wake, WaitersParked, TypeOK, TaskEffect
<1>6. /\ RangeOf(ready) \subseteq Cos /\ RangeOf(woken) \subseteq Cos
      /\ \A u \in Tasks : RangeOf(waiters[u]) \subseteq Cos
  BY <1>1, RangeInCos
<1>7. WaitersParked'
  BY <1>1, <1>5, <1>6 DEF Wake, WaitersParked
<1>8. NoSpuriousWakeup'
  BY <1>1, <1>3, <1>4, <1>5, <1>6 DEF Wake, NoSpuriousWakeup, Settled
<1>9. NoLostWakeup'
  <2> SUFFICES ASSUME NEW d \in Cos, cstat'[d] = "parked"
               PROVE  IF awaiting[d] # None /\ tstate'[awaiting[d]] = "pending"
                      THEN d \in RangeOf(waiters[awaiting[d]])
                      ELSE d \in RangeOf(ready') \cup RangeOf(woken)
    BY <1>5 DEF NoLostWakeup
  <2>1. CASE d = c
    BY <1>3, <1>4, <2>1
  <2>2. CASE d # c
    <3>1. cstat[d] = "parked"
      BY <1>5, <2>2
    <3>2. CASE d \in RangeOf(ready) \cup RangeOf(woken)
      BY <1>1, <1>4, <1>5, <3>1, <3>2 DEF Wake, NoSpuriousWakeup, Settled
    <3>3. CASE d \notin RangeOf(ready) \cup RangeOf(woken)
      BY <1>1, <1>5, <3>1, <3>3 DEF Wake, NoLostWakeup
    <3>4. QED
      BY <3>2, <3>3
  <2>3. QED
    BY <2>1, <2>2
<1>10. QED
  BY <1>7, <1>8, <1>9 DEF Wake

\* park_await: the running coroutine becomes a waiter of a pending task.
LEMMA WakePark == WakeInv /\ AwaitPark => Wake'
<1> SUFFICES ASSUME WakeInv, AwaitPark PROVE Wake'
  OBVIOUS
<1> USE NoneAssumption
<1>1. TypeOK /\ Wake
  BY DEF WakeInv
<1>2. cur \in Cos
  BY <1>1 DEF WakeInv, CurLoaded, AwaitPark, At, TypeOK
<1>3. PICK t \in Tasks : /\ tstate[t] = "pending" /\ AddWaiter(t, cur)
                         /\ awaiting' = [awaiting EXCEPT ![cur] = t]
  BY DEF AwaitPark, Born
<1>4. cstat[cur] = "running"
  BY <1>2 DEF WakeInv, CurRunning
<1>5. /\ \A u \in Tasks : cur \notin RangeOf(waiters[u])
      /\ cur \notin RangeOf(ready) \cup RangeOf(woken)
  BY <1>1, <1>4 DEF Wake, WaitersParked, NoSpuriousWakeup
<1>6. waiters' = [waiters EXCEPT ![t] = Append(waiters[t], cur)]
  BY <1>3, <1>5 DEF AddWaiter
<1>7. /\ \A u \in Tasks \ {t} : waiters'[u] = waiters[u]
      /\ RangeOf(waiters'[t]) = RangeOf(waiters[t]) \cup {cur}
  <2>1. waiters \in [Tasks -> Seq(Cos)] /\ waiters[t] \in Seq(Cos)
    BY <1>1 DEF TypeOK
  <2>2. RangeOf(Append(waiters[t], cur)) = RangeOf(waiters[t]) \cup {cur}
    BY <1>2, <2>1, AppendFacts
  <2>3. QED
    BY <1>6, <2>1, <2>2
<1>8. /\ \A c \in Cos \ {cur} : cstat'[c] = cstat[c] /\ awaiting'[c] = awaiting[c]
      /\ cstat'[cur] = "parked" /\ awaiting'[cur] = t
      /\ tstate' = tstate /\ ready' = ready /\ woken' = woken
  BY <1>1, <1>2, <1>3 DEF AwaitPark, queueVars, TypeOK
<1>9. /\ RangeOf(ready) \subseteq Cos /\ RangeOf(woken) \subseteq Cos
      /\ \A u \in Tasks : RangeOf(waiters[u]) \subseteq Cos
      /\ \A c \in Cos : awaiting[c] \in Tasks \cup {None}
  BY <1>1, RangeInCos DEF TypeOK
<1>10. WaitersParked'
  BY <1>1, <1>3, <1>5, <1>7, <1>8, <1>9 DEF Wake, WaitersParked
<1>11. NoSpuriousWakeup'
  BY <1>1, <1>5, <1>8, <1>9 DEF Wake, NoSpuriousWakeup, Settled
<1>12. NoLostWakeup'
  <2> SUFFICES ASSUME NEW c \in Cos, cstat'[c] = "parked"
               PROVE  IF awaiting'[c] # None /\ tstate[awaiting'[c]] = "pending"
                      THEN c \in RangeOf(waiters'[awaiting'[c]])
                      ELSE c \in RangeOf(ready) \cup RangeOf(woken)
    BY <1>8 DEF NoLostWakeup
  <2>1. CASE c = cur
    BY <1>3, <1>7, <1>8, <2>1 DEF Tasks
  <2>2. CASE c # cur
    <3>1. cstat[c] = "parked" /\ awaiting'[c] = awaiting[c]
      BY <1>8, <2>2
    <3>2. \A u \in Tasks : RangeOf(waiters[u]) \subseteq RangeOf(waiters'[u])
      BY <1>7
    <3>3. QED
      BY <1>1, <1>9, <3>1, <3>2 DEF Wake, NoLostWakeup
  <2>3. QED
    BY <2>1, <2>2
<1>13. QED
  BY <1>10, <1>11, <1>12 DEF Wake

LEMMA WakePush == WakeInv /\ PushWoken => Wake'
<1> SUFFICES ASSUME WakeInv, PushWoken PROVE Wake'
  OBVIOUS
<1>1. TypeOK /\ Wake
  BY DEF WakeInv
<1>2. UNCHANGED <<tstate, waiters, cstat, awaiting>>
  BY DEF PushWoken, taskVars, coVars
<1>3. Head(woken) \in Cos /\ RangeOf(woken) = {Head(woken)} \cup RangeOf(woken')
  BY <1>1, HeadTailFacts DEF PushWoken, TypeOK
<1>4. RangeOf(ready') = RangeOf(ready) \cup {Head(woken)}
  <2>1. ready \in Seq(Cos) /\ ready' = Push(ready, Head(woken))
    BY <1>1 DEF PushWoken, TypeOK
  <2>2. QED
    BY <1>3, <2>1, PushFacts
<1>5. RangeOf(ready') \cup RangeOf(woken') = RangeOf(ready) \cup RangeOf(woken)
  BY <1>3, <1>4
<1>6. QED
  BY <1>1, <1>2, <1>5 DEF Wake, WaitersParked, NoLostWakeup, NoSpuriousWakeup, Settled

-----------------------------------------------------------------------------
(* The inductive invariant.                                                *)

LEMMA WakeNext == WakeInv /\ [Next]_vars => Wake'
<1> SUFFICES ASSUME WakeInv, [Next]_vars PROVE Wake'
  OBVIOUS
<1>0. TypeOK /\ Wake
  BY DEF WakeInv
<1>1. CASE PushWoken \/ ResumeNext \/ AwaitPark
  BY <1>1, WakePush, WakeResume, WakePark
<1>2. CASE FireTimer
  <2>1. PICK t \in timers : SettleTask(t, "ready")
    BY <1>2 DEF FireTimer
  <2>2. t \in Tasks /\ woken = <<>> /\ UNCHANGED <<cstat, awaiting, ready>>
    BY <1>0, <1>2, <2>1 DEF FireTimer, At, coVars, TypeOK
  <2>3. QED
    BY <1>0, <2>1, <2>2, WakeSettle
<1>3. CASE PollResolved
  <2>1. PICK j \in Tasks, o \in {"ready", "failed"} : SettleTask(j, o)
    BY <1>0, <1>3 DEF PollResolved, JoinOutcome, TypeOK
  <2>2. woken = <<>> /\ UNCHANGED <<cstat, awaiting, ready>>
    BY <1>3 DEF PollResolved, At, coVars
  <2>3. QED
    BY <1>0, <2>1, <2>2, WakeSettle
<1>4. CASE CancelNext
  <2>1. Head(todo) \in Tasks /\ SettleTask(Head(todo), "failed")
    BY <1>0, <1>4, HeadTailFacts DEF CancelNext, TypeOK
  <2>2. woken = <<>> /\ UNCHANGED <<cstat, awaiting, ready>>
    BY <1>4 DEF CancelNext, At, coVars, queueVars
  <2>3. QED
    BY <1>0, <2>1, <2>2, WakeSettle
<1>5. CASE TimersDone \/ PollKept \/ PollDone \/ NothingReady \/ CancelDone \/ SyncCall \/ SyncReturn
  <2>1. UNCHANGED <<tstate, waiters, woken, cstat, awaiting, ready>>
    BY <1>5 DEF TimersDone, PollKept, PollDone, NothingReady, CancelDone, SyncCall, SyncReturn,
      taskVars, coVars, queueVars
  <2>2. QED
    BY <1>0, <2>1, WakeUnchanged
<1>6. CASE TryBegin \/ TryEnd \/ (\E s \in Scopes : Cancel(s)) \/ UNCHANGED vars
  <2>1. UNCHANGED <<tstate, waiters, woken, cstat, awaiting, ready>>
    BY <1>6 DEF TryBegin, TryEnd, Cancel, vars, taskVars, coVars, queueVars
  <2>2. QED
    BY <1>0, <2>1, WakeUnchanged
<1>7. ASSUME NEW s \in Scopes \cup {None}, RunTask(s) PROVE Wake'
  <2>1. PICK t \in Tasks :
          IF s \in cancelled
          THEN CreateTask(t, "failed", s) /\ UNCHANGED <<cstat, cotask, ready>>
          ELSE CreateTask(t, "pending", s) /\ \E c \in Cos : Spawn(c, t)
    BY <1>7 DEF RunTask
  <2>2. UNCHANGED <<waiters, woken, awaiting>>
    BY <1>7 DEF RunTask
  <2>3. CASE s \in cancelled
    BY <1>0, <2>1, <2>2, <2>3, WakeCreate
  <2>4. CASE s \notin cancelled
    BY <2>1, <2>2, <2>4, WakeSpawn
  <2>5. QED
    BY <2>3, <2>4
<1>8. ASSUME NEW s \in Sources \cup {None}, Delay(s) PROVE Wake'
  <2>1. PICK t \in Tasks : CreateTask(t, IF s \in cancelled THEN "failed" ELSE "pending", s)
    BY <1>8 DEF Delay
  <2>2. UNCHANGED <<waiters, woken, cstat, awaiting, ready>>
    BY <1>8 DEF Delay, coVars
  <2>3. QED
    BY <1>0, <2>1, <2>2, WakeCreate
<1>9. CASE Join \/ \E g \in Groups : GroupJoin(g)
  <2>1. PICK ts, isAny, s : NewJoin(ts, isAny, s)
    BY <1>9 DEF Join, GroupJoin
  <2>2. PICK t \in Tasks : CreateTask(t, IF ts = <<>> THEN "ready" ELSE "pending", s)
    BY <2>1 DEF NewJoin
  <2>3. UNCHANGED <<waiters, woken, cstat, awaiting, ready>>
    BY <1>9 DEF Join, GroupJoin, coVars
  <2>4. QED
    BY <1>0, <2>2, <2>3, WakeCreate
<1>10. CASE Throw \/ AwaitRaise
  <2>1. woken = <<>> /\ Raise /\ UNCHANGED <<awaiting, ready, cotask>> /\ cur \in Cos
    BY <1>0, <1>10 DEF Throw, AwaitRaise, At, queueVars, WakeInv, CurLoaded, TypeOK
  <2>2. CASE tries[cur] > 0
    BY <1>0, <2>1, <2>2, WakeUnchanged DEF Raise
  <2>3. CASE ~(tries[cur] > 0)
    <3>1. \/ UNCHANGED <<tstate, waiters, woken>>
          \/ cotask[cur] # None /\ SettleTask(cotask[cur], "failed")
      BY <2>1, <2>3 DEF Raise
    <3>2. cstat' = [cstat EXCEPT ![cur] = "ended"]
      BY <2>1, <2>3 DEF Raise
    <3>3. cotask[cur] \in Tasks \cup {None}
      BY <1>0, <2>1 DEF TypeOK
    <3>4. QED
      BY <2>1, <3>1, <3>2, <3>3, WakeEnd
  <2>4. QED
    BY <2>2, <2>3
<1>11. CASE Finish
  <2>1. /\ woken = <<>> /\ UNCHANGED <<awaiting, ready, cotask>> /\ cur \in Cos
        /\ cotask[cur] \in Tasks
        /\ \E o \in {"ready", "failed"} : SettleTask(cotask[cur], o)
        /\ cstat' = [cstat EXCEPT ![cur] = "ended"]
    BY <1>0, <1>11 DEF Finish, At, queueVars, WakeInv, CurLoaded, TypeOK
  <2>2. QED
    BY <2>1, WakeEnd
<1>12. CASE Halt
  <2>1. /\ woken = <<>> /\ UNCHANGED <<awaiting, ready>> /\ cur \in Cos
        /\ cstat' = [cstat EXCEPT ![cur] = "ended"] /\ UNCHANGED <<tstate, waiters, woken>>
    BY <1>0, <1>12 DEF Halt, At, queueVars, taskVars, WakeInv, CurLoaded, TypeOK
  <2>2. QED
    BY <2>1, WakeEnd
<1>13. QED
  BY <1>1, <1>2, <1>3, <1>4, <1>5, <1>6, <1>7, <1>8, <1>9, <1>10, <1>11, <1>12
  DEF Next, Loop, Poll, Resume, Slice, Exited

LEMMA DistinctNext == WakeInv /\ [Next]_vars => Distinct(ready')
<1> SUFFICES ASSUME WakeInv, [Next]_vars PROVE Distinct(ready')
  OBVIOUS
<1>1. Distinct(ready) /\ ready \in Seq(Cos) /\ woken \in Seq(Cos)
  BY DEF WakeInv, TypeOK
<1>2. CASE PushWoken
  <2>1. Head(woken) \in Cos /\ ready' = Push(ready, Head(woken))
    BY <1>1, <1>2, HeadTailFacts DEF PushWoken
  <2>2. QED
    BY <1>1, <2>1, PushFacts
<1>3. CASE ResumeNext
  BY <1>3, FrontFacts DEF ResumeNext, At
<1>4. ASSUME NEW s \in Scopes \cup {None}, RunTask(s) PROVE Distinct(ready')
  <2>1. ready' = ready \/ \E c \in Cos : ready' = Push(ready, c)
    BY <1>4 DEF RunTask, Spawn
  <2>2. QED
    BY <1>1, <2>1, PushFacts
<1>5. CASE ready' = ready
  BY <1>1, <1>5
<1>6. QED
  BY <1>2, <1>3, <1>4, <1>5
  DEF Next, Loop, Poll, Resume, Slice, Exited, FireTimer, TimersDone, PollResolved, PollKept,
    PollDone, NothingReady, Delay, Join, GroupJoin, Cancel, CancelNext, CancelDone, Throw,
    AwaitRaise, AwaitPark, TryBegin, TryEnd, SyncCall, SyncReturn, Finish, Halt, vars, queueVars

LEMMA CurRunningNext == WakeInv /\ [Next]_vars => CurRunning'
<1> SUFFICES ASSUME WakeInv, [Next]_vars PROVE CurRunning'
  OBVIOUS
<1> USE NoneAssumption, BoundsAssumption
<1>0. /\ TypeOK /\ CurLoaded /\ CurRunning
      /\ cstat \in [Cos -> CoStates] /\ awaiting \in [Cos -> Tasks \cup {None}]
      /\ cur \in Cos \cup {None} /\ None \notin Cos
  BY DEF WakeInv, TypeOK, Cos
<1>1. ASSUME UNCHANGED <<cstat, awaiting, cur>>,
             pc' = "resume" \/ (pc' = "poll" /\ ret' = "resume") => cur = None
      PROVE  CurRunning'
  BY <1>0, <1>1 DEF CurRunning
<1>2. CASE PushWoken \/ FireTimer \/ PollResolved \/ CancelNext \/ UNCHANGED vars
  <2>1. UNCHANGED <<cstat, awaiting, cur, pc, ret>>
    BY <1>2 DEF PushWoken, FireTimer, PollResolved, CancelNext, coVars, ctrlVars, vars
  <2>2. QED
    BY <1>0, <1>1, <2>1 DEF CurRunning
<1>3. CASE TryBegin \/ TryEnd \/ SyncCall \/ SyncReturn \/ PollKept
  <2>1. UNCHANGED <<cstat, awaiting, cur, pc, ret>>
    BY <1>3 DEF TryBegin, TryEnd, SyncCall, SyncReturn, PollKept, coVars, ctrlVars
  <2>2. QED
    BY <1>0, <1>1, <2>1 DEF CurRunning
<1>4. CASE TimersDone \/ PollDone \/ NothingReady \/ CancelDone
  <2>1. UNCHANGED <<cstat, awaiting, cur>>
    BY <1>4 DEF TimersDone, PollDone, NothingReady, CancelDone, coVars
  <2>2. CASE TimersDone
    BY <1>1, <2>1, <2>2 DEF TimersDone, CallPoll
  <2>3. CASE PollDone
    BY <1>0, <1>1, <2>1, <2>3 DEF PollDone, At, CurRunning, TypeOK
  <2>4. CASE NothingReady
    BY <1>1, <2>1, <2>4 DEF NothingReady
  <2>5. CASE CancelDone
    BY <1>1, <2>1, <2>5 DEF CancelDone, CallPoll
  <2>6. QED
    BY <1>4, <2>2, <2>3, <2>4, <2>5
<1>5. CASE \E s \in Scopes : Cancel(s)
  <2>1. UNCHANGED <<cstat, awaiting, cur>> /\ pc' \in {"slice", "cancel"}
    BY <1>5 DEF Cancel, coVars
  <2>2. QED
    BY <1>1, <2>1
<1>6. CASE (\E s \in Sources \cup {None} : Delay(s)) \/ Join \/ \E g \in Groups : GroupJoin(g)
  <2>1. UNCHANGED <<cstat, awaiting, cur>> /\ pc = "slice"
    BY <1>6 DEF Delay, Join, GroupJoin, At, coVars, ctrlVars
  <2>2. pc' = pc \/ (ret' = "slice" /\ pc' = "poll")
    <3>1. CASE \E s \in Sources \cup {None} : Delay(s)
      BY <3>1 DEF Delay, ctrlVars
    <3>2. ASSUME NEW ts, NEW isAny, NEW s, NewJoin(ts, isAny, s)
          PROVE  pc' = pc \/ (ret' = "slice" /\ pc' = "poll")
      BY <3>2 DEF NewJoin, CallPoll
    <3>3. QED
      BY <1>6, <3>1, <3>2 DEF Join, GroupJoin
  <2>3. QED
    BY <1>1, <2>1, <2>2
<1>7. ASSUME NEW s \in Scopes \cup {None}, RunTask(s) PROVE CurRunning'
  <2>1. UNCHANGED <<awaiting, cur, pc, ret>> /\ pc = "slice"
    BY <1>7 DEF RunTask, At, ctrlVars
  <2>2. cstat' = cstat \/ \E c \in Cos : cstat[c] = "unborn" /\ cstat' = [cstat EXCEPT ![c] = "parked"]
    BY <1>7 DEF RunTask, Spawn
  <2>3. CASE cstat' = cstat
    BY <1>1, <2>1, <2>3
  <2>4. CASE \E c \in Cos : cstat[c] = "unborn" /\ cstat' = [cstat EXCEPT ![c] = "parked"]
    BY <1>0, <2>1, <2>4 DEF CurRunning
  <2>5. QED
    BY <2>2, <2>3, <2>4
<1>8. ASSUME cur \in Cos, cur' = None, \A c \in Cos \ {cur} : cstat'[c] = cstat[c] /\ awaiting'[c] = awaiting[c],
             cstat'[cur] \notin {"running", "unborn"}
      PROVE  CurRunning'
  BY <1>0, <1>8 DEF CurRunning
<1>9. CASE AwaitPark \/ Finish \/ Halt
  <2>1. cur \in Cos /\ cur' = None
    BY <1>0, <1>9 DEF AwaitPark, Finish, Halt, At, CurLoaded
  <2>2. \A c \in Cos \ {cur} : cstat'[c] = cstat[c] /\ awaiting'[c] = awaiting[c]
    BY <1>0, <1>9, <2>1 DEF AwaitPark, Finish, Halt
  <2>3. cstat'[cur] \notin {"running", "unborn"}
    BY <1>0, <1>9, <2>1 DEF AwaitPark, Finish, Halt
  <2>4. QED
    BY <1>8, <2>1, <2>2, <2>3
<1>10. CASE Throw \/ AwaitRaise
  <2>1. cur \in Cos /\ Raise /\ awaiting' = awaiting /\ pc = "slice"
    BY <1>0, <1>10 DEF Throw, AwaitRaise, At, CurLoaded
  <2>2. CASE tries[cur] > 0
    BY <1>1, <2>1, <2>2 DEF Raise
  <2>3. CASE ~(tries[cur] > 0)
    <3>1. cstat' = [cstat EXCEPT ![cur] = "ended"] /\ cur' = None
      BY <2>1, <2>3 DEF Raise
    <3>2. QED
      BY <1>0, <1>8, <2>1, <3>1
  <2>4. QED
    BY <2>2, <2>3
<1>11. CASE ResumeNext
  <2> DEFINE c == Head(ready)
  <2>1. /\ c \in Cos /\ cstat[c] = "parked" /\ (awaiting[c] = None \/ Settled(awaiting[c]))
        /\ pc = "resume" /\ cur = None
    BY <1>0, <1>11, FrontFacts DEF ResumeNext, At, CurRunning
  <2>2. CASE ResumeRun(c)
    BY <1>0, <2>1, <2>2 DEF ResumeRun, CurRunning
  <2>3. CASE ResumeFailed(c)
    <3>1. /\ cstat' = [cstat EXCEPT ![c] = "dropped"] /\ awaiting' = awaiting /\ cur' = None
      BY <2>1, <2>3 DEF ResumeFailed
    <3>2. QED
      BY <1>0, <2>1, <3>1 DEF CurRunning
  <2>4. QED
    BY <1>11, <2>1, <2>2, <2>3 DEF ResumeNext, Settled
<1>12. QED
  BY <1>2, <1>3, <1>4, <1>5, <1>6, <1>7, <1>9, <1>10, <1>11
  DEF Next, Loop, Poll, Resume, Slice, Exited

LEMMA WakeInvInit == Init => WakeInv
<1> SUFFICES ASSUME Init PROVE WakeInv
  OBVIOUS
<1>1. RangeOf(<<>>) = {} /\ Distinct(<<>>)
  BY DEF RangeOf, Distinct
<1>2. WaitersParked /\ NoLostWakeup /\ NoSpuriousWakeup
  BY <1>1 DEF Init, WaitersParked, NoLostWakeup, NoSpuriousWakeup
<1>3. CurRunning
  BY DEF Init, CurRunning, Root
<1>4. QED
  BY <1>1, <1>2, <1>3, TypeInit, CurInit DEF WakeInv, Wake, Init

LEMMA WakeInvNext == WakeInv /\ [Next]_vars => WakeInv'
<1> SUFFICES ASSUME WakeInv, [Next]_vars PROVE WakeInv'
  OBVIOUS
<1>1. TypeOK' /\ CurLoaded'
  BY TypeNext, CurNext DEF WakeInv
<1>2. Wake' /\ Distinct(ready') /\ CurRunning'
  BY WakeNext, DistinctNext, CurRunningNext
<1>3. QED
  BY <1>1, <1>2 DEF WakeInv, Distinct

\* The inductive invariant holds in every state the scheduler reaches.
THEOREM WakeInvariant == Spec => []WakeInv
<1>1. QED
  BY WakeInvInit, WakeInvNext, PTL DEF Spec

\* park_await and complete_task together lose no coroutine, and the ready queue
\* holds none that cannot go on: the "spurious ready id" and "still pending"
\* branches of resume_next are dead code.
THEOREM NoWakeupLostOrSpurious == Spec => [](NoLostWakeup /\ NoSpuriousWakeup)
<1>1. WakeInv => NoLostWakeup /\ NoSpuriousWakeup
  BY DEF WakeInv, Wake
<1>2. QED
  BY <1>1, WakeInvariant, PTL

-----------------------------------------------------------------------------
(* Action properties.                                                      *)

\* complete_task, fail_task and cancel_task, called in any order by a timer, a
\* return, an error, a join and a cancellation, settle a task once.
LEMMA SettledOnceStep ==
  TypeOK /\ [Next]_vars => \A t \in Tasks : Settled(t) => tstate'[t] = tstate[t]
<1> SUFFICES ASSUME TypeOK, [Next]_vars, NEW t \in Tasks, Settled(t) PROVE tstate'[t] = tstate[t]
  OBVIOUS
<1>1. ASSUME NEW u, NEW o, SettleTask(u, o) PROVE tstate'[t] = tstate[t]
  BY <1>1 DEF SettleTask, Settled, TypeOK
<1>2. ASSUME NEW u, NEW o, NEW s, CreateTask(u, o, s) PROVE tstate'[t] = tstate[t]
  BY <1>2 DEF CreateTask, Unborn, Settled, TypeOK
<1>3. CASE FireTimer \/ PollResolved \/ CancelNext \/ Finish
  BY <1>1, <1>3 DEF FireTimer, PollResolved, CancelNext, Finish
<1>4. CASE Throw \/ AwaitRaise
  <2>1. Raise
    BY <1>4 DEF Throw, AwaitRaise
  <2>2. QED
    BY <1>1, <2>1 DEF Raise
<1>5. CASE ResumeNext
  <2> DEFINE c == Head(ready)
  <2>1. tstate' = tstate \/ ResumeFailed(c)
    BY <1>5 DEF ResumeNext, ResumeRun, ResumePending
  <2>2. QED
    BY <1>1, <2>1 DEF ResumeFailed
<1>6. ASSUME NEW s \in Scopes \cup {None}, RunTask(s) \/ Delay(s) PROVE tstate'[t] = tstate[t]
  BY <1>2, <1>6 DEF RunTask, Delay
<1>7. CASE Join \/ \E g \in Groups : GroupJoin(g)
  BY <1>2, <1>7 DEF Join, GroupJoin, NewJoin
<1>8. CASE tstate' = tstate
  BY <1>8
<1>9. QED
  BY <1>3, <1>4, <1>5, <1>6, <1>7, <1>8
  DEF Next, Loop, Poll, Resume, Slice, Exited, PushWoken, TimersDone, PollKept, PollDone,
    NothingReady, Cancel, CancelDone, AwaitPark, TryBegin, TryEnd, SyncCall, SyncReturn, Halt,
    vars, taskVars, Scopes

THEOREM TasksSettleOnce == Spec => SettledOnce
<1>1. TypeOK /\ [Next]_vars => [\A t \in Tasks : Settled(t) => tstate'[t] = tstate[t]]_vars
  BY SettledOnceStep
<1>2. QED
  BY <1>1, TypeCorrect, PTL DEF Spec, SettledOnce

\* resume_next continues a coroutine only when the task it awaits completed,
\* and drops it only when that task failed.
LEMMA ResumeStep ==
  WakeInv /\ [Next]_vars =>
    \A c \in Cos : cstat[c] = "parked" /\ awaiting[c] # None /\ cstat'[c] # "parked" =>
      /\ Settled(awaiting[c])
      /\ cstat'[c] = "running" => tstate[awaiting[c]] = "ready"
<1> SUFFICES ASSUME WakeInv, [Next]_vars, NEW c \in Cos, cstat[c] = "parked", awaiting[c] # None,
                    cstat'[c] # "parked"
             PROVE  /\ Settled(awaiting[c])
                    /\ cstat'[c] = "running" => tstate[awaiting[c]] = "ready"
  OBVIOUS
<1>1. cstat \in [Cos -> CoStates] /\ c # cur
  BY DEF WakeInv, TypeOK, CurRunning
<1>2. CASE ResumeNext
  <2>1. c = Head(ready)
    BY <1>1, <1>2 DEF ResumeNext, ResumeRun, ResumeFailed, ResumePending
  <2>2. Settled(awaiting[c]) /\ cstat[c] = "parked"
    BY <1>2, <2>1, FrontFacts DEF ResumeNext, At
  <2>3. CASE tstate[awaiting[c]] = "ready"
    BY <2>2, <2>3
  <2>4. CASE tstate[awaiting[c]] = "failed"
    BY <1>1, <1>2, <2>1, <2>2, <2>4 DEF ResumeNext, ResumeFailed
  <2>5. QED
    BY <2>2, <2>3, <2>4 DEF Settled
<1>3. CASE \/ cstat' = cstat
           \/ \E d \in Cos : cstat[d] = "unborn" /\ cstat' = [cstat EXCEPT ![d] = "parked"]
           \/ \E s : cstat' = [cstat EXCEPT ![cur] = s]
  BY <1>1, <1>3
<1>4. CASE Throw \/ AwaitRaise
  BY <1>3, <1>4 DEF Throw, AwaitRaise, Raise
<1>5. CASE Halt
  <2>1. cstat' = [cstat EXCEPT ![cur] = "ended"]
    BY <1>5 DEF Halt
  <2>2. QED
    BY <1>3, <2>1
<1>6. ASSUME NEW s \in Scopes \cup {None}, RunTask(s)
      PROVE  \/ cstat' = cstat
             \/ \E d \in Cos : cstat[d] = "unborn" /\ cstat' = [cstat EXCEPT ![d] = "parked"]
  BY <1>6 DEF RunTask, Spawn
<1>7. CASE AwaitPark \/ Finish
  BY <1>3, <1>7 DEF AwaitPark, Finish
<1>8. QED
  BY <1>2, <1>3, <1>4, <1>5, <1>6, <1>7
  DEF Next, Loop, Poll, Resume, Slice, Exited, PushWoken, FireTimer, TimersDone, PollResolved,
    PollKept, PollDone, NothingReady, Delay, Join, GroupJoin, Cancel, CancelNext, CancelDone,
    TryBegin, TryEnd, SyncCall, SyncReturn, vars, coVars

THEOREM ResumesOnlyAfterSettled == Spec => ResumeAfterSettled
<1>1. WakeInv /\ [Next]_vars =>
        [\A c \in Cos : cstat[c] = "parked" /\ awaiting[c] # None /\ cstat'[c] # "parked" =>
           /\ Settled(awaiting[c])
           /\ cstat'[c] = "running" => tstate[awaiting[c]] = "ready"]_vars
  BY ResumeStep
<1>2. QED
  BY <1>1, WakeInvariant, PTL DEF Spec, ResumeAfterSettled

-----------------------------------------------------------------------------
(***************************************************************************)
(* Who settles a task, for every number of tasks, coroutines and scopes:   *)
(* no task is orphaned, a Cancel reaches every task of its scope, the      *)
(* joins are decided when they can be and by their members alone, and the  *)
(* scheduler implements AsyncTasks.                                        *)
(*                                                                         *)
(* None of these is inductive by itself.  They rest on the order of ids:   *)
(* a join is younger than its members and poll_joins visits older joins    *)
(* first, so a join settled by the pass never decides one it has passed;   *)
(* and on a join being settled by poll_joins only: it is no coroutine's    *)
(* task, armed in no timer and tracked by no scope.                        *)
(***************************************************************************)

\* A task of a coroutine, a timer or a scope: created, and not a join.
Plain(t) == tstate[t] # "unborn" /\ members[t] = <<>>

\* What a return, an error, a timer or a Cancel may settle is no join.
OwnedPlain ==
  /\ \A c \in Cos : cotask[c] # None => Plain(cotask[c])
  /\ \A t \in timers : Plain(t)
  /\ \A s \in Scopes : \A t \in RangeOf(tracked[s]) : Plain(t)
  /\ \A t \in RangeOf(todo) : Plain(t)

\* Only a spawned coroutine has a task to settle.
Owners ==
  /\ cstat[Root] # "unborn" /\ cotask[Root] = None
  /\ \A c \in Cos : cstat[c] = "unborn" => cotask[c] = None

\* Ids are handed out in order: a join is younger than its members.
Older ==
  /\ \A t, u \in Tasks : tstate[t] # "unborn" /\ tstate[u] = "unborn" => t < u
  /\ \A j \in Tasks : tstate[j] = "unborn" => members[j] = <<>>
  /\ \A j \in Tasks : \A i \in DOMAIN members[j] : members[j][i] < j

\* The unresolved joins are kept in the order of their creation.
JoinsOrdered ==
  /\ \A i, k \in DOMAIN joins : i < k => joins[i] < joins[k]
  /\ \A i \in DOMAIN joins : tstate[joins[i]] # "unborn"

\* The joins that the running poll_joins has passed are undecided.
Polling == JoinsPolled /\ (pc = "poll" => \A i \in 1 .. polled : ~Resolvable(joins[i]))

\* While a Cancel runs, what its scope tracks is settled or about to be.
ScopeReached ==
  \A s \in cancelled : \A t \in RangeOf(tracked[s]) :
    Settled(t) \/ (pc = "cancel" /\ t \in RangeOf(todo))

TaskInv ==
  /\ OwnedPlain /\ Owners /\ Older /\ JoinsOrdered /\ Polling /\ ScopeReached
  /\ JoinsFaithful /\ PendingHasSettler /\ EndedMeansSettled

-----------------------------------------------------------------------------
(* What one step may do to the tasks.                                      *)

\* A pending task settles; a join only when its members decide it.
Settling(t, o) ==
  /\ SettleTask(t, o) /\ UNCHANGED <<members, any>> /\ tstate[t] # "unborn"
  /\ members[t] = <<>> \/ (Resolvable(t) /\ o = JoinOutcome(t))

\* The next task is created; a join over created tasks, unsettled.
Creating(t) ==
  /\ tstate[t] = "unborn" /\ tstate'[t] # "unborn"
  /\ \A u \in Tasks : tstate[u] = "unborn" => t <= u
  /\ \A u \in Tasks \ {t} :
       tstate'[u] = tstate[u] /\ members'[u] = members[u] /\ any'[u] = any[u]
  /\ \A i \in DOMAIN members'[t] :
       members'[t][i] \in Tasks /\ tstate[members'[t][i]] # "unborn"
  /\ members'[t] = <<>> \/ tstate'[t] = "pending"

Kept == UNCHANGED <<tstate, members, any>>

\* CreateTask for a coroutine or a timer.
LEMMA CreatingPlain ==
  ASSUME TypeOK, Older, NEW t \in Tasks, NEW o \in {"pending", "ready", "failed"}, NEW s,
         CreateTask(t, o, s), UNCHANGED <<members, any>>
  PROVE  Creating(t) /\ Plain(t)'
<1>1. tstate[t] = "unborn" /\ \A u \in Tasks : tstate[u] = "unborn" => t <= u
  BY DEF CreateTask, Unborn
<1>2. tstate' = [tstate EXCEPT ![t] = o] /\ tstate \in [Tasks -> TaskStates]
  BY DEF CreateTask, TypeOK
<1>3. members'[t] = <<>>
  BY <1>1 DEF Older
<1>4. QED
  BY <1>1, <1>2, <1>3 DEF Creating, Plain

\* create_join_task.
LEMMA CreatingJoin ==
  ASSUME TypeOK, NEW t \in Tasks, NEW ts, NEW isAny, NEW s,
         CreateTask(t, IF ts = <<>> THEN "ready" ELSE "pending", s),
         members' = [members EXCEPT ![t] = ts], any' = [any EXCEPT ![t] = isAny],
         \A i \in DOMAIN ts : ts[i] \in Tasks /\ tstate[ts[i]] # "unborn"
  PROVE  Creating(t)
<1>1. tstate[t] = "unborn" /\ \A u \in Tasks : tstate[u] = "unborn" => t <= u
  BY DEF CreateTask, Unborn
<1>2. /\ tstate' = [tstate EXCEPT ![t] = IF ts = <<>> THEN "ready" ELSE "pending"]
      /\ tstate \in [Tasks -> TaskStates] /\ DOMAIN members = Tasks /\ DOMAIN any = Tasks
  BY DEF CreateTask, TypeOK
<1>3. QED
  BY <1>1, <1>2 DEF Creating

LEMMA JoinMembers ==
  ASSUME TypeOK, OwnedPlain
  PROVE  /\ \A ts \in JoinLists : \A i \in DOMAIN ts : ts[i] \in Tasks /\ tstate[ts[i]] # "unborn"
         /\ \A g \in Groups : \A i \in DOMAIN tracked[g] :
              tracked[g][i] \in Tasks /\ tstate[tracked[g][i]] # "unborn"
<1>1. ASSUME NEW ts \in JoinLists, NEW i \in DOMAIN ts PROVE ts[i] \in Tasks /\ tstate[ts[i]] # "unborn"
  BY <1>1 DEF JoinLists, Born
<1>2. ASSUME NEW g \in Groups, NEW i \in DOMAIN tracked[g]
      PROVE  tracked[g][i] \in Tasks /\ tstate[tracked[g][i]] # "unborn"
  <2>1. g \in Scopes /\ tracked[g] \in Seq(Tasks)
    BY DEF Scopes, TypeOK
  <2>2. tracked[g][i] \in RangeOf(tracked[g])
    BY DEF RangeOf
  <2>3. QED
    BY <2>1, <2>2 DEF OwnedPlain, Plain
<1>3. QED
  BY <1>1, <1>2

\* Every handler keeps the tasks, settles one or creates one.
LEMMA StepShape ==
  ASSUME WakeInv, OwnedPlain, Older, [Next]_vars
  PROVE  \/ Kept
         \/ \E t \in Tasks, o \in {"ready", "failed"} : Settling(t, o)
         \/ \E t \in Tasks : Creating(t)
<1> DEFINE Goal == \/ Kept
                   \/ \E t \in Tasks, o \in {"ready", "failed"} : Settling(t, o)
                   \/ \E t \in Tasks : Creating(t)
<1> USE NoneAssumption
<1>0. TypeOK /\ CurLoaded
  BY DEF WakeInv
<1>1. CASE PushWoken \/ TimersDone \/ PollKept \/ PollDone \/ NothingReady \/ CancelDone \/ Halt
  BY <1>1 DEF Kept, PushWoken, TimersDone, PollKept, PollDone, NothingReady, CancelDone, Halt,
    taskVars
<1>2. CASE AwaitPark \/ TryBegin \/ TryEnd \/ SyncCall \/ SyncReturn \/ UNCHANGED vars
  BY <1>2 DEF Kept, AwaitPark, TryBegin, TryEnd, SyncCall, SyncReturn, vars, taskVars
<1>3. CASE \E s \in Scopes : Cancel(s)
  BY <1>3 DEF Kept, Cancel, taskVars
<1>4. CASE FireTimer
  BY <1>0, <1>4 DEF FireTimer, Settling, OwnedPlain, Plain, TypeOK
<1>5. CASE PollResolved
  <2> DEFINE j == joins[polled + 1]
  <2>1. j \in Tasks /\ JoinOutcome(j) \in {"ready", "failed"}
    BY <1>0, <1>5 DEF PollResolved, JoinOutcome, TypeOK
  <2>2. Resolvable(j) /\ SettleTask(j, JoinOutcome(j)) /\ UNCHANGED <<members, any>>
    BY <1>5 DEF PollResolved
  <2>3. CASE tstate[j] # "unborn"
    BY <2>1, <2>2, <2>3 DEF Settling
  <2>4. CASE tstate[j] = "unborn"
    BY <2>2, <2>4 DEF SettleTask, Kept
  <2>5. QED
    BY <2>3, <2>4
<1>6. ASSUME NEW c \in Cos, cotask[c] # None, NEW o \in {"ready", "failed"},
             SettleTask(cotask[c], o), UNCHANGED <<members, any>>
      PROVE  Goal
  <2>1. cotask[c] \in Tasks /\ Plain(cotask[c])
    BY <1>0, <1>6 DEF OwnedPlain, TypeOK
  <2>2. QED
    BY <1>6, <2>1 DEF Settling, Plain
<1>7. CASE ResumeNext
  <2> DEFINE c == Head(ready)
  <2>1. c \in Cos /\ UNCHANGED <<members, any>>
    BY <1>0, <1>7, HeadTailFacts DEF ResumeNext, TypeOK
  <2>2. tstate' = tstate \/ (cotask[c] # None /\ SettleTask(cotask[c], "failed"))
    BY <1>7 DEF ResumeNext, ResumeRun, ResumeFailed, ResumePending
  <2>3. QED
    BY <1>6, <2>1, <2>2 DEF Kept
<1>8. CASE Throw \/ AwaitRaise
  <2>1. cur \in Cos /\ Raise /\ UNCHANGED <<members, any>>
    BY <1>0, <1>8 DEF Throw, AwaitRaise, At, CurLoaded, TypeOK
  <2>2. tstate' = tstate \/ (cotask[cur] # None /\ SettleTask(cotask[cur], "failed"))
    BY <2>1 DEF Raise
  <2>3. QED
    BY <1>6, <2>1, <2>2 DEF Kept
<1>9. CASE Finish
  <2>1. /\ cur \in Cos /\ cotask[cur] # None /\ UNCHANGED <<members, any>>
        /\ \E o \in {"ready", "failed"} : SettleTask(cotask[cur], o)
    BY <1>0, <1>9 DEF Finish, At, CurLoaded, TypeOK
  <2>2. QED
    BY <1>6, <2>1
<1>10. CASE CancelNext
  <2>1. todo \in Seq(Tasks) /\ todo # <<>> /\ SettleTask(Head(todo), "failed")
    BY <1>0, <1>10 DEF CancelNext, TypeOK
  <2>2. Head(todo) \in Tasks /\ Head(todo) \in RangeOf(todo)
    BY <2>1, HeadTailFacts
  <2>3. QED
    BY <1>10, <2>1, <2>2 DEF CancelNext, Settling, OwnedPlain, Plain
<1>11. ASSUME NEW s \in Scopes \cup {None}, RunTask(s) \/ Delay(s) PROVE Goal
  <2>1. PICK t \in Tasks, o \in {"pending", "ready", "failed"} : CreateTask(t, o, s)
    BY <1>11 DEF RunTask, Delay
  <2>2. QED
    BY <1>0, <1>11, <2>1, CreatingPlain DEF RunTask, Delay
<1>12. ASSUME NEW ts, NEW isAny, NEW s, NewJoin(ts, isAny, s),
              \A i \in DOMAIN ts : ts[i] \in Tasks /\ tstate[ts[i]] # "unborn"
       PROVE  Goal
  BY <1>0, <1>12, CreatingJoin DEF NewJoin
<1>13. CASE Join \/ \E g \in Groups : GroupJoin(g)
  BY <1>0, <1>12, <1>13, JoinMembers DEF Join, GroupJoin
<1>14. QED
  BY <1>1, <1>2, <1>3, <1>4, <1>5, <1>7, <1>8, <1>9, <1>10, <1>11, <1>13
  DEF Next, Loop, Poll, Resume, Slice, Exited, Scopes

\* A created task stays what it is, a join keeps its members, and a settled
\* task its outcome.
LEMMA TasksKept ==
  ASSUME WakeInv, OwnedPlain, Older, [Next]_vars, NEW t \in Tasks, tstate[t] # "unborn"
  PROVE  /\ tstate'[t] # "unborn" /\ members'[t] = members[t] /\ any'[t] = any[t]
         /\ Settled(t) => tstate'[t] = tstate[t] /\ Settled(t)'
<1>1. tstate \in [Tasks -> TaskStates]
  BY DEF WakeInv, TypeOK
<1>2. CASE Kept
  BY <1>2 DEF Kept, Settled
<1>3. ASSUME NEW u \in Tasks, NEW o \in {"ready", "failed"}, Settling(u, o)
      PROVE  /\ tstate'[t] # "unborn" /\ members'[t] = members[t] /\ any'[t] = any[t]
             /\ Settled(t) => tstate'[t] = tstate[t] /\ Settled(t)'
  BY <1>1, <1>3 DEF Settling, SettleTask, Settled
<1>4. ASSUME NEW u \in Tasks, Creating(u)
      PROVE  /\ tstate'[t] # "unborn" /\ members'[t] = members[t] /\ any'[t] = any[t]
             /\ Settled(t) => tstate'[t] = tstate[t] /\ Settled(t)'
  BY <1>4 DEF Creating, Settled
<1>5. QED
  BY <1>2, <1>3, <1>4, StepShape

\* What a join aggregates was created before it.
LEMMA MembersBorn ==
  ASSUME TypeOK, Older, NEW j \in Tasks, NEW i \in DOMAIN members[j]
  PROVE  /\ members[j][i] \in Tasks /\ members[j][i] < j
         /\ tstate[members[j][i]] # "unborn" /\ tstate[j] # "unborn"
<1>1. members[j] \in Seq(Tasks) /\ members[j] # <<>>
  BY DEF TypeOK
<1>2. members[j][i] \in Tasks /\ members[j][i] < j /\ tstate[j] # "unborn"
  BY <1>1 DEF Older
<1>3. ~(j < members[j][i])
  BY <1>2 DEF Tasks
<1>4. QED
  BY <1>2, <1>3 DEF Older

-----------------------------------------------------------------------------
(* The parts of TaskInv that one step must keep.                           *)

LEMMA OlderNext ==
  ASSUME WakeInv, OwnedPlain, Older, [Next]_vars
  PROVE  Older'
<1>0. TypeOK /\ tstate \in [Tasks -> TaskStates] /\ Tasks \subseteq Nat
  BY BoundsAssumption DEF WakeInv, TypeOK, Tasks
<1>1. CASE Kept
  BY <1>1 DEF Kept, Older
<1>2. ASSUME NEW t \in Tasks, NEW o \in {"ready", "failed"}, Settling(t, o) PROVE Older'
  <2>1. \A u \in Tasks : tstate'[u] = "unborn" <=> tstate[u] = "unborn"
    BY <1>0, <1>2 DEF Settling, SettleTask
  <2>2. members' = members
    BY <1>2 DEF Settling
  <2>3. QED
    BY <2>1, <2>2 DEF Older
<1>3. ASSUME NEW t \in Tasks, Creating(t) PROVE Older'
  <2>1. /\ tstate[t] = "unborn" /\ tstate'[t] # "unborn"
        /\ \A u \in Tasks : tstate[u] = "unborn" => t <= u
        /\ \A u \in Tasks \ {t} : tstate'[u] = tstate[u] /\ members'[u] = members[u]
    BY <1>3 DEF Creating
  <2>2. \A u, v \in Tasks : tstate'[u] # "unborn" /\ tstate'[v] = "unborn" => u < v
    BY <1>0, <2>1 DEF Older
  <2>3. \A j \in Tasks : tstate'[j] = "unborn" => members'[j] = <<>>
    BY <2>1 DEF Older
  <2>4. ASSUME NEW j \in Tasks, NEW i \in DOMAIN members'[j] PROVE members'[j][i] < j
    <3>1. CASE j = t
      BY <1>3, <2>1, <2>4, <3>1 DEF Creating, Older
    <3>2. CASE j # t
      BY <2>1, <2>4, <3>2 DEF Older
    <3>3. QED
      BY <3>1, <3>2
  <2>5. QED
    BY <2>2, <2>3, <2>4 DEF Older
<1>4. QED
  BY <1>1, <1>2, <1>3, StepShape

\* A non-empty set of numbers has a least one.
LEMMA LeastIndex ==
  ASSUME NEW T \in SUBSET Nat, T # {}
  PROVE  \E x \in T : \A y \in T : x <= y
<1> DEFINE R == {ss \in Nat \X Nat : ss[1] < ss[2]}
<1>1. OpToRel(<, Nat) = R
  BY DEF OpToRel
<1>2. IsWellFoundedOn(R, Nat)
  BY <1>1, NatLessThanWellFounded, Zenon
<1> HIDE DEF R
<1>3. PICK x \in T : \A y \in T : ~(<<y, x>> \in R)
  BY <1>2, WFMin
<1>4. ASSUME NEW y \in T, y < x PROVE <<y, x>> \in R
  BY <1>4 DEF R
<1>5. \A y \in T : ~(y < x)
  BY <1>3, <1>4
<1>6. \A y \in T : x <= y
  BY <1>5
<1>7. QED
  BY <1>6

\* poll_joins gives a join the outcome its members decide.
LEMMA OutcomeFaithful ==
  ASSUME TypeOK, NEW j \in Tasks, members[j] # <<>>, Resolvable(j)
  PROVE  IF any[j] THEN \E i \in DOMAIN members[j] : tstate[members[j][i]] = JoinOutcome(j)
         ELSE /\ AllReady(j)
              /\ JoinOutcome(j) = "failed"
                   <=> \E i \in DOMAIN members[j] : tstate[members[j][i]] = "failed"
<1>0. any[j] \in BOOLEAN /\ DOMAIN members[j] = 1 .. Len(members[j]) /\ Len(members[j]) \in Nat
  BY DEF TypeOK
<1>1. CASE ~any[j]
  BY <1>1 DEF Resolvable, JoinOutcome, JoinFails
<1>2. CASE any[j] /\ JoinFails(j)
  BY <1>2 DEF JoinFails, JoinOutcome
<1>3. CASE any[j] /\ ~JoinFails(j)
  <2> DEFINE T == {i \in DOMAIN members[j] : Settled(members[j][i])}
  <2>1. T # {} /\ T \in SUBSET Nat
    BY <1>0, <1>3 DEF Resolvable, AnyReady
  <2>2. PICK i \in T : \A k \in T : i <= k
    BY <2>1, LeastIndex
  <2>3. \A k \in 1 .. i - 1 : ~Settled(members[j][k])
    BY <1>0, <2>1, <2>2
  <2>4. tstate[members[j][i]] # "failed"
    BY <1>3, <2>2, <2>3 DEF JoinFails
  <2>5. QED
    BY <1>3, <2>2, <2>4 DEF Settled, JoinOutcome
<1>4. QED
  BY <1>0, <1>1, <1>2, <1>3

LEMMA JoinsFaithfulNext ==
  ASSUME WakeInv, OwnedPlain, Older, JoinsFaithful, [Next]_vars
  PROVE  JoinsFaithful'
<1> DEFINE Faithful(j) == IF any[j] THEN \E i \in DOMAIN members[j] : tstate[members[j][i]] = tstate[j]
                          ELSE /\ AllReady(j)
                               /\ tstate[j] = "failed"
                                    <=> \E i \in DOMAIN members[j] : tstate[members[j][i]] = "failed"
<1> SUFFICES ASSUME NEW j \in Tasks, members'[j] # <<>>, Settled(j)' PROVE Faithful(j)'
  BY DEF JoinsFaithful
<1>0. TypeOK /\ tstate \in [Tasks -> TaskStates]
  BY DEF WakeInv, TypeOK
<1>1. ASSUME members'[j] = members[j], any'[j] = any[j], tstate'[j] = tstate[j]
      PROVE  Faithful(j)'
  <2>1. members[j] # <<>> /\ Settled(j)
    BY <1>1 DEF Settled
  <2>2. Faithful(j)
    BY <2>1 DEF JoinsFaithful
  <2>3. \A i \in DOMAIN members[j] :
          /\ members[j][i] \in Tasks /\ tstate[members[j][i]] # "unborn"
          /\ Settled(members[j][i]) => tstate'[members[j][i]] = tstate[members[j][i]]
    BY <1>0, MembersBorn, TasksKept
  <2>4. CASE any[j]
    BY <1>1, <2>1, <2>2, <2>3, <2>4 DEF Settled
  <2>5. CASE ~any[j]
    BY <1>1, <2>2, <2>3, <2>5 DEF Settled, AllReady
  <2>6. QED
    BY <2>4, <2>5
<1>2. CASE Kept
  BY <1>1, <1>2 DEF Kept
<1>3. ASSUME NEW t \in Tasks, NEW o \in {"ready", "failed"}, Settling(t, o) PROVE Faithful(j)'
  <2>1. /\ members' = members /\ any' = any
        /\ \A u \in Tasks \ {t} : tstate'[u] = tstate[u]
        /\ tstate'[t] = IF tstate[t] = "pending" THEN o ELSE tstate[t]
    BY <1>0, <1>3 DEF Settling, SettleTask
  <2>2. CASE j # t \/ tstate[t] # "pending"
    BY <1>1, <2>1, <2>2
  <2>3. CASE j = t /\ tstate[t] = "pending"
    <3>1. Resolvable(j) /\ o = JoinOutcome(j) /\ members[j] # <<>> /\ tstate'[j] = JoinOutcome(j)
      BY <1>3, <2>1, <2>3 DEF Settling
    <3>2. \A i \in DOMAIN members[j] : members[j][i] \in Tasks /\ members[j][i] # j
      BY <1>0, MembersBorn DEF Tasks
    <3>3. \A i \in DOMAIN members[j] : tstate'[members[j][i]] = tstate[members[j][i]]
      BY <2>1, <2>3, <3>2
    <3>4. CASE any[j]
      BY <1>0, <2>1, <3>1, <3>3, <3>4, OutcomeFaithful
    <3>5. CASE ~any[j]
      BY <1>0, <2>1, <3>1, <3>3, <3>5, OutcomeFaithful DEF AllReady, Settled
    <3>6. QED
      BY <3>4, <3>5
  <2>4. QED
    BY <2>2, <2>3
<1>4. ASSUME NEW t \in Tasks, Creating(t) PROVE Faithful(j)'
  <2>1. CASE j # t
    BY <1>1, <1>4, <2>1 DEF Creating
  <2>2. CASE j = t
    BY <1>4, <2>2 DEF Creating, Settled
  <2>3. QED
    BY <2>1, <2>2
<1>5. QED
  BY <1>2, <1>3, <1>4, StepShape

\* RunTask and Delay add the new task to what its scope tracks.
LEMMA TrackFacts ==
  ASSUME TypeOK, NEW t \in Tasks, NEW s \in Scopes \cup {None},
         tracked' = IF s = None THEN tracked ELSE [tracked EXCEPT ![s] = Append(@, t)]
  PROVE  \A r \in Scopes :
           \/ RangeOf(tracked'[r]) = RangeOf(tracked[r]) /\ r # s
           \/ RangeOf(tracked'[r]) = RangeOf(tracked[r]) \cup {t} /\ r = s
<1> TAKE r \in Scopes
<1>1. tracked \in [Scopes -> Seq(Tasks)] /\ tracked[r] \in Seq(Tasks) /\ None \notin Scopes
  BY NoneAssumption DEF TypeOK, Scopes
<1>2. RangeOf(Append(tracked[r], t)) = RangeOf(tracked[r]) \cup {t}
  BY <1>1, AppendFacts
<1>3. CASE r = s
  BY <1>1, <1>2, <1>3
<1>4. CASE r # s
  BY <1>1, <1>4
<1>5. QED
  BY <1>3, <1>4

LEMMA OwnedPlainNext ==
  ASSUME WakeInv, OwnedPlain, Older, [Next]_vars
  PROVE  OwnedPlain'
<1> USE NoneAssumption
<1>0. TypeOK
  BY DEF WakeInv
<1> DEFINE PlainNext(u) == tstate'[u] # "unborn" /\ members'[u] = <<>>
<1>1. \A u \in Tasks : Plain(u) => PlainNext(u)
  BY TasksKept DEF Plain
<1>2. /\ \A c \in Cos : cotask[c] # None => cotask[c] \in Tasks
      /\ timers \subseteq Tasks
      /\ \A q \in Seq(Tasks) : RangeOf(q) \subseteq Tasks
      /\ todo \in Seq(Tasks) /\ \A s \in Scopes : tracked[s] \in Seq(Tasks)
  BY <1>0 DEF TypeOK, RangeOf
<1>3. /\ \A c \in Cos : cotask[c] # None => PlainNext(cotask[c])
      /\ \A t \in timers : PlainNext(t)
      /\ \A s \in Scopes : \A t \in RangeOf(tracked[s]) : PlainNext(t)
      /\ \A t \in RangeOf(todo) : PlainNext(t)
  BY <1>1, <1>2 DEF OwnedPlain
<1>4. CASE UNCHANGED <<cotask, tracked, todo>> /\ timers' \subseteq timers
  BY <1>3, <1>4 DEF OwnedPlain, Plain
<1>5. ASSUME NEW s \in Scopes, Cancel(s) PROVE OwnedPlain'
  <2>1. UNCHANGED <<cotask, tracked, timers>> /\ todo' = tracked[s]
    BY <1>5 DEF Cancel, coVars, queueVars
  <2>2. QED
    BY <1>3, <2>1 DEF OwnedPlain, Plain
<1>6. CASE CancelNext
  <2>1. UNCHANGED <<cotask, tracked, timers>> /\ todo' = Tail(todo) /\ todo # <<>>
    BY <1>6 DEF CancelNext, coVars, queueVars
  <2>2. RangeOf(todo') \subseteq RangeOf(todo)
    BY <1>2, <2>1, HeadTailFacts
  <2>3. QED
    BY <1>3, <2>1, <2>2 DEF OwnedPlain, Plain
<1>7. ASSUME NEW s \in Scopes \cup {None}, NEW t \in Tasks, PlainNext(t),
             tracked' = (IF s = None THEN tracked ELSE [tracked EXCEPT ![s] = Append(@, t)]),
             todo' = todo, timers' \subseteq timers \cup {t},
             \A c \in Cos : cotask'[c] \in {cotask[c], t}
      PROVE  OwnedPlain'
  <2>1. \A r \in Scopes : RangeOf(tracked'[r]) \subseteq RangeOf(tracked[r]) \cup {t}
    BY <1>0, <1>7, TrackFacts
  <2>2. QED
    BY <1>3, <1>7, <2>1 DEF OwnedPlain, Plain
<1>8. ASSUME NEW s \in Scopes \cup {None}, RunTask(s) PROVE OwnedPlain'
  <2>1. PICK t \in Tasks :
          /\ \E o \in {"pending", "failed"} : CreateTask(t, o, s)
          /\ \/ UNCHANGED cotask
             \/ \E c \in Cos : Spawn(c, t)
          /\ tracked' = (IF s = None THEN tracked ELSE [tracked EXCEPT ![s] = Append(@, t)])
    BY <1>8 DEF RunTask
  <2>2. UNCHANGED <<members, any, timers, todo>>
    BY <1>8 DEF RunTask
  <2>3. PlainNext(t)
    BY <1>0, <2>1, <2>2, CreatingPlain DEF Plain
  <2>4. \A c \in Cos : cotask'[c] \in {cotask[c], t}
    BY <1>0, <2>1 DEF Spawn, TypeOK
  <2>5. QED
    BY <1>7, <2>1, <2>2, <2>3, <2>4
<1>9. ASSUME NEW s \in Scopes \cup {None}, Delay(s) PROVE OwnedPlain'
  <2>1. PICK t \in Tasks :
          /\ \E o \in {"pending", "failed"} : CreateTask(t, o, s)
          /\ timers' \subseteq timers \cup {t}
          /\ tracked' = (IF s = None THEN tracked ELSE [tracked EXCEPT ![s] = Append(@, t)])
    BY <1>9 DEF Delay
  <2>2. UNCHANGED <<members, any, cotask, todo>>
    BY <1>9 DEF Delay, coVars
  <2>3. PlainNext(t)
    BY <1>0, <2>1, <2>2, CreatingPlain DEF Plain
  <2>4. QED
    BY <1>7, <2>1, <2>2, <2>3
<1>10. CASE Throw \/ AwaitRaise \/ Finish \/ Halt \/ AwaitPark \/ ResumeNext \/ FireTimer
  BY <1>4, <1>10 DEF Throw, AwaitRaise, Finish, Halt, AwaitPark, ResumeNext, FireTimer, scopeVars,
    queueVars, coVars
<1>11. CASE Join \/ \E g \in Groups : GroupJoin(g)
  BY <1>4, <1>11 DEF Join, GroupJoin, scopeVars, coVars
<1>12. QED
  BY <1>4, <1>5, <1>6, <1>8, <1>9, <1>10, <1>11
  DEF Next, Loop, Poll, Resume, Slice, Exited, PushWoken, TimersDone, PollResolved, PollKept,
    PollDone, NothingReady, CancelDone, TryBegin, TryEnd, SyncCall, SyncReturn, vars, scopeVars,
    coVars, queueVars, Scopes

\* The step leaves task t settled.
SettledNext(t) == tstate'[t] \in {"ready", "failed"}

LEMMA SettledBy ==
  ASSUME TypeOK, NEW t \in Tasks, tstate[t] # "unborn", NEW o \in {"ready", "failed"},
         SettleTask(t, o)
  PROVE  SettledNext(t)
  BY DEF TypeOK, TaskStates, SettleTask, SettledNext

\* What one step may do to a coroutine and the task it owns: nothing, keep it
\* alive, end it with its task settled, or spawn it with a new task.
CoStep(c) ==
  \/ cstat'[c] = cstat[c] /\ cotask'[c] = cotask[c]
  \/ /\ cotask'[c] = cotask[c] /\ cstat[c] # "unborn" /\ cstat'[c] \in {"parked", "running"}
  \/ /\ cotask'[c] = cotask[c] /\ cstat[c] # "unborn" /\ cstat'[c] \in {"ended", "dropped"}
     /\ cotask[c] # None => SettledNext(cotask[c])
  \/ /\ cstat[c] = "unborn" /\ cstat'[c] = "parked" /\ cotask'[c] \in Tasks
     /\ tstate[cotask'[c]] = "unborn"

LEMMA CoShape ==
  ASSUME WakeInv, OwnedPlain, Owners, [Next]_vars, NEW c \in Cos
  PROVE  CoStep(c)
<1> USE NoneAssumption
<1>0. /\ TypeOK /\ CurLoaded /\ CurRunning /\ cstat \in [Cos -> CoStates] /\ cur \in Cos \cup {None}
      /\ cotask \in [Cos -> Tasks \cup {None}]
  BY DEF WakeInv, TypeOK
<1>1. CASE UNCHANGED <<cstat, cotask>>
  BY <1>1 DEF CoStep
<1>2. ASSUME NEW d \in Cos, NEW o \in {"ready", "failed"}, cotask[d] # None, SettleTask(cotask[d], o)
      PROVE  SettledNext(cotask[d])
  <2>1. cotask[d] \in Tasks /\ tstate[cotask[d]] # "unborn"
    BY <1>0, <1>2 DEF OwnedPlain, Plain
  <2>2. QED
    BY <1>0, <1>2, <2>1, SettledBy
<1>3. ASSUME NEW d \in Cos, cstat[d] # "unborn", UNCHANGED cotask, NEW e \in {"ended", "dropped"},
             cstat' = [cstat EXCEPT ![d] = e], (cotask[d] # None => SettledNext(cotask[d]))
      PROVE  CoStep(c)
  <2>1. CASE c = d
    BY <1>0, <1>3, <2>1 DEF CoStep
  <2>2. CASE c # d
    BY <1>0, <1>3, <2>2 DEF CoStep
  <2>3. QED
    BY <2>1, <2>2
<1>4. ASSUME NEW s \in Scopes \cup {None}, RunTask(s) PROVE CoStep(c)
  <2>1. \/ UNCHANGED <<cstat, cotask>>
        \/ \E d \in Cos, t \in Tasks : Spawn(d, t) /\ tstate[t] = "unborn"
    BY <1>4 DEF RunTask, CreateTask, Unborn
  <2>2. ASSUME NEW d \in Cos, NEW t \in Tasks, Spawn(d, t), tstate[t] = "unborn" PROVE CoStep(c)
    <3>1. /\ cstat[d] = "unborn" /\ cstat' = [cstat EXCEPT ![d] = "parked"]
          /\ cotask' = [cotask EXCEPT ![d] = t]
      BY <2>2 DEF Spawn
    <3>2. CASE c = d
      BY <1>0, <2>2, <3>1, <3>2 DEF CoStep
    <3>3. CASE c # d
      BY <1>0, <3>1, <3>3 DEF CoStep
    <3>4. QED
      BY <3>2, <3>3
  <2>3. QED
    BY <1>1, <2>1, <2>2
<1>5. CASE ResumeNext
  <2> DEFINE d == Head(ready)
  <2>1. d \in Cos /\ cstat[d] = "parked" /\ cotask' = cotask
    BY <1>5, FrontFacts DEF ResumeNext, At
  <2>2. CASE ResumeRun(d)
    BY <1>0, <2>1, <2>2 DEF ResumeRun, CoStep
  <2>3. CASE ResumeFailed(d)
    <3>1. cstat' = [cstat EXCEPT ![d] = "dropped"] /\ (cotask[d] # None => SettledNext(cotask[d]))
      BY <1>2, <2>1, <2>3 DEF ResumeFailed
    <3>2. QED
      BY <1>3, <2>1, <3>1
  <2>4. CASE UNCHANGED cstat
    BY <1>1, <2>1, <2>4
  <2>5. QED
    BY <1>5, <2>2, <2>3, <2>4 DEF ResumeNext, ResumePending
<1>6. CASE Throw \/ AwaitRaise
  <2>1. cur \in Cos /\ cstat[cur] = "running" /\ Raise /\ cotask' = cotask
    BY <1>0, <1>6 DEF Throw, AwaitRaise, At, CurLoaded, CurRunning
  <2>2. CASE tries[cur] > 0
    BY <1>1, <2>1, <2>2 DEF Raise
  <2>3. CASE ~(tries[cur] > 0)
    <3>1. /\ cstat' = [cstat EXCEPT ![cur] = "ended"]
          /\ cotask[cur] # None => SettleTask(cotask[cur], "failed")
      BY <2>1, <2>3 DEF Raise
    <3>2. QED
      BY <1>2, <1>3, <2>1, <3>1
  <2>4. QED
    BY <2>2, <2>3
<1>7. CASE Finish
  <2>1. /\ cur \in Cos /\ cstat[cur] = "running" /\ cotask' = cotask /\ cotask[cur] # None
        /\ cstat' = [cstat EXCEPT ![cur] = "ended"]
        /\ \E o \in {"ready", "failed"} : SettleTask(cotask[cur], o)
    BY <1>0, <1>7 DEF Finish, At, CurLoaded, CurRunning
  <2>2. QED
    BY <1>2, <1>3, <2>1
<1>8. CASE Halt
  <2>1. /\ cur \in Cos /\ cotask[cur] = None /\ cstat[cur] # "unborn" /\ cotask' = cotask
        /\ cstat' = [cstat EXCEPT ![cur] = "ended"]
    BY <1>0, <1>8 DEF Halt, At, CurLoaded, Owners
  <2>2. QED
    BY <1>3, <2>1
<1>9. CASE AwaitPark
  <2>1. /\ cur \in Cos /\ cstat[cur] = "running" /\ cotask' = cotask
        /\ cstat' = [cstat EXCEPT ![cur] = "parked"]
    BY <1>0, <1>9 DEF AwaitPark, At, CurLoaded, CurRunning
  <2>2. QED
    BY <1>0, <2>1 DEF CoStep
<1>10. CASE Join \/ \E g \in Groups : GroupJoin(g)
  BY <1>1, <1>10 DEF Join, GroupJoin, coVars
<1>11. ASSUME NEW s \in Scopes \cup {None}, Delay(s) PROVE CoStep(c)
  BY <1>1, <1>11 DEF Delay, coVars
<1>12. QED
  BY <1>1, <1>4, <1>5, <1>6, <1>7, <1>8, <1>9, <1>10, <1>11
  DEF Next, Loop, Poll, Resume, Slice, Exited, PushWoken, FireTimer, TimersDone, PollResolved,
    PollKept, PollDone, NothingReady, Cancel, CancelNext, CancelDone, TryBegin, TryEnd, SyncCall,
    SyncReturn, vars, coVars, Scopes

LEMMA OwnersNext ==
  ASSUME WakeInv, OwnedPlain, Owners, [Next]_vars
  PROVE  Owners'
<1>1. Root \in Cos
  BY BoundsAssumption DEF Root, Cos
<1>2. \A c \in Cos : CoStep(c)
  BY CoShape
<1>3. cstat'[Root] # "unborn" /\ cotask'[Root] = None
  BY <1>1, <1>2 DEF CoStep, Owners
<1>4. ASSUME NEW c \in Cos, cstat'[c] = "unborn" PROVE cotask'[c] = None
  BY <1>2, <1>4 DEF CoStep, Owners
<1>5. QED
  BY <1>3, <1>4 DEF Owners

\* Every path on which a coroutine ends settles its task.
LEMMA EndedNext ==
  ASSUME WakeInv, OwnedPlain, Older, Owners, EndedMeansSettled, [Next]_vars
  PROVE  EndedMeansSettled'
<1> SUFFICES ASSUME NEW c \in Cos, cstat'[c] \in {"ended", "dropped"}, cotask'[c] # None
             PROVE  tstate'[cotask'[c]] \in {"ready", "failed"}
  BY DEF EndedMeansSettled, Settled
<1>1. cotask[c] # None => cotask[c] \in Tasks /\ tstate[cotask[c]] # "unborn"
  BY DEF WakeInv, TypeOK, OwnedPlain, Plain
<1>2. CASE cstat'[c] = cstat[c] /\ cotask'[c] = cotask[c]
  <2>1. tstate[cotask[c]] \in {"ready", "failed"}
    BY <1>2 DEF EndedMeansSettled, Settled
  <2>2. QED
    BY <1>1, <1>2, <2>1, TasksKept DEF Settled
<1>3. CASE cotask'[c] = cotask[c] /\ (cotask[c] # None => SettledNext(cotask[c]))
  BY <1>3 DEF SettledNext
<1>4. QED
  BY <1>2, <1>3, CoShape DEF CoStep

-----------------------------------------------------------------------------
(* No orphans.                                                             *)

\* A timer leaves the timers only when it fires.
LEMMA TimersKept ==
  ASSUME WakeInv, OwnedPlain, [Next]_vars, NEW t \in timers
  PROVE  t \in timers' \/ SettledNext(t)
<1>0. TypeOK /\ t \in Tasks
  BY DEF WakeInv, TypeOK
<1>1. CASE FireTimer
  <2>1. PICK u \in timers : timers' = timers \ {u} /\ SettleTask(u, "ready")
    BY <1>1 DEF FireTimer
  <2>2. CASE u = t
    BY <1>0, <2>1, <2>2, SettledBy DEF OwnedPlain, Plain
  <2>3. QED
    BY <2>1, <2>2
<1>2. CASE UNCHANGED timers
  BY <1>2
<1>3. ASSUME NEW s, Delay(s) PROVE t \in timers'
  BY <1>3 DEF Delay
<1>4. QED
  BY <1>1, <1>2, <1>3
  DEF Next, Loop, Poll, Resume, Slice, Exited, PushWoken, TimersDone, PollResolved, PollKept,
    PollDone, NothingReady, ResumeNext, RunTask, Join, GroupJoin, Cancel, CancelNext, CancelDone,
    Throw, AwaitRaise, AwaitPark, TryBegin, TryEnd, SyncCall, SyncReturn, Finish, Halt, vars,
    queueVars

\* What PollResolved and create_join_task do to the unresolved joins.
JoinTaken ==
  /\ polled \in 0 .. Len(joins) - 1 /\ joins' \in Seq(Tasks) /\ Len(joins') = Len(joins) - 1
  /\ \A i \in 1 .. polled : joins'[i] = joins[i]
  /\ \A i \in polled + 1 .. Len(joins) - 1 : joins'[i] = joins[i + 1]

LEMMA PollTakes ==
  ASSUME TypeOK, PollResolved
  PROVE  JoinTaken /\ joins[polled + 1] \in Tasks
<1>1. /\ joins \in Seq(Tasks) /\ polled \in 0 .. Len(joins) - 1
      /\ joins' = SubSeq(joins, 1, polled) \o SubSeq(joins, polled + 2, Len(joins))
  BY DEF PollResolved, TypeOK
<1>2. JoinTaken
  BY <1>1, RemoveFacts DEF JoinTaken
<1>3. QED
  BY <1>1, <1>2

\* A join leaves the unresolved joins only when poll_joins settles it.
LEMMA JoinsKept ==
  ASSUME WakeInv, JoinsOrdered, [Next]_vars, NEW t \in RangeOf(joins)
  PROVE  t \in RangeOf(joins') \/ SettledNext(t)
<1>0. TypeOK /\ joins \in Seq(Tasks) /\ Len(joins) \in Nat
  BY DEF WakeInv, TypeOK
<1>1. CASE PollResolved
  <2>1. PICK i \in 1 .. Len(joins) : t = joins[i]
    BY <1>0 DEF RangeOf
  <2>2. JoinTaken /\ polled \in Nat /\ DOMAIN joins' = 1 .. Len(joins) - 1
    BY <1>0, <1>1, PollTakes DEF JoinTaken
  <2>3. CASE i <= polled
    <3>1. i \in DOMAIN joins' /\ joins'[i] = t
      BY <1>0, <2>1, <2>2, <2>3 DEF JoinTaken
    <3>2. QED
      BY <3>1 DEF RangeOf
  <2>4. CASE i > polled + 1
    <3>1. i - 1 \in DOMAIN joins' /\ joins'[i - 1] = joins[i - 1 + 1] /\ i - 1 + 1 = i
      BY <1>0, <2>1, <2>2, <2>4 DEF JoinTaken
    <3>2. QED
      BY <2>1, <3>1 DEF RangeOf
  <2>5. CASE i = polled + 1
    <3>1. t \in Tasks /\ tstate[t] # "unborn" /\ SettleTask(t, JoinOutcome(t))
      BY <1>0, <1>1, <2>1, <2>5 DEF PollResolved, JoinsOrdered
    <3>2. QED
      BY <1>0, <3>1, SettledBy DEF JoinOutcome
  <2>6. QED
    BY <2>1, <2>2, <2>3, <2>4, <2>5
<1>2. CASE UNCHANGED joins
  BY <1>2
<1>3. ASSUME NEW ts, NEW isAny, NEW s, NewJoin(ts, isAny, s) PROVE t \in RangeOf(joins')
  <2>1. joins' = joins \/ \E u \in Tasks : joins' = Append(joins, u)
    BY <1>3 DEF NewJoin
  <2>2. ASSUME NEW u \in Tasks, joins' = Append(joins, u) PROVE t \in RangeOf(joins')
    <3>1. RangeOf(Append(joins, u)) = RangeOf(joins) \cup {u}
      BY <1>0, AppendFacts
    <3>2. QED
      BY <2>2, <3>1
  <2>3. QED
    BY <2>1, <2>2
<1>4. QED
  BY <1>1, <1>2, <1>3
  DEF Next, Loop, Poll, Resume, Slice, Exited, PushWoken, FireTimer, TimersDone, PollKept,
    PollDone, NothingReady, ResumeNext, RunTask, Delay, Join, GroupJoin, Cancel, CancelNext,
    CancelDone, Throw, AwaitRaise, AwaitPark, TryBegin, TryEnd, SyncCall, SyncReturn, Finish, Halt,
    vars, queueVars

\* What settles task t, as PendingHasSettler says.
Settler(t) ==
  \/ \E c \in Cos : cotask[c] = t /\ cstat[c] \in {"parked", "running"}
  \/ t \in timers
  \/ t \in RangeOf(joins)

\* Whoever creates a pending task sees to it that it is settled.
LEMMA NewHasSettler ==
  ASSUME WakeInv, [Next]_vars, NEW t \in Tasks, tstate[t] = "unborn", tstate'[t] = "pending"
  PROVE  Settler(t)'
<1>0. /\ TypeOK /\ joins \in Seq(Tasks) /\ tstate \in [Tasks -> TaskStates]
      /\ cstat \in [Cos -> CoStates] /\ cotask \in [Cos -> Tasks \cup {None}]
  BY DEF WakeInv, TypeOK
<1>1. ASSUME NEW u, NEW o, SettleTask(u, o) PROVE FALSE
  BY <1>0, <1>1 DEF SettleTask
<1>2. tstate' # tstate
  OBVIOUS
<1>3. ASSUME NEW u \in Tasks, NEW o, NEW s, CreateTask(u, o, s) PROVE u = t /\ o = "pending"
  BY <1>0, <1>3 DEF CreateTask
<1>4. ASSUME NEW s, RunTask(s) PROVE Settler(t)'
  <2>1. PICK u \in Tasks : \E o : /\ CreateTask(u, o, s)
                                  /\ o = "failed" \/ \E c \in Cos : Spawn(c, u)
    BY <1>4 DEF RunTask
  <2>2. PICK c \in Cos : Spawn(c, t)
    BY <1>3, <2>1
  <2>3. cotask'[c] = t /\ cstat'[c] = "parked"
    BY <1>0, <2>2 DEF Spawn
  <2>4. QED
    BY <2>3 DEF Settler
<1>5. ASSUME NEW s, Delay(s) PROVE Settler(t)'
  <2>1. PICK u \in Tasks : \E o : /\ CreateTask(u, o, s)
                                  /\ o = "failed" \/ timers' = timers \cup {u}
    BY <1>5 DEF Delay
  <2>2. t \in timers'
    BY <1>3, <2>1
  <2>3. QED
    BY <2>2 DEF Settler
<1>6. ASSUME NEW ts, NEW isAny, NEW s, NewJoin(ts, isAny, s) PROVE Settler(t)'
  <2>1. PICK u \in Tasks : \E o : /\ CreateTask(u, o, s)
                                  /\ o = "ready" \/ joins' = Append(joins, u)
    BY <1>6 DEF NewJoin
  <2>2. joins' = Append(joins, t)
    BY <1>3, <2>1
  <2>3. t \in RangeOf(joins')
    BY <1>0, <2>2, AppendFacts
  <2>4. QED
    BY <2>3 DEF Settler
<1>7. CASE ResumeNext
  BY <1>1, <1>2, <1>7 DEF ResumeNext, ResumeRun, ResumeFailed, ResumePending
<1>8. CASE Throw \/ AwaitRaise
  <2>1. Raise
    BY <1>8 DEF Throw, AwaitRaise
  <2>2. QED
    BY <1>1, <1>2, <2>1 DEF Raise
<1>9. CASE FireTimer \/ PollResolved \/ CancelNext \/ Finish
  BY <1>1, <1>9 DEF FireTimer, PollResolved, CancelNext, Finish
<1>10. QED
  BY <1>2, <1>4, <1>5, <1>6, <1>7, <1>8, <1>9
  DEF Next, Loop, Poll, Resume, Slice, Exited, PushWoken, TimersDone, PollKept, PollDone,
    NothingReady, Join, GroupJoin, Cancel, CancelDone, AwaitPark, TryBegin, TryEnd, SyncCall,
    SyncReturn, Halt, vars, taskVars

LEMMA SettlerNext ==
  ASSUME WakeInv, OwnedPlain, Owners, Older, JoinsOrdered, PendingHasSettler, [Next]_vars
  PROVE  PendingHasSettler'
<1> SUFFICES ASSUME NEW t \in Tasks, tstate'[t] = "pending" PROVE Settler(t)'
  BY DEF PendingHasSettler, Settler
<1>0. tstate \in [Tasks -> TaskStates]
  BY DEF WakeInv, TypeOK
<1>1. CASE tstate[t] = "unborn"
  BY <1>1, NewHasSettler
<1>2. CASE tstate[t] # "unborn"
  <2>1. tstate[t] = "pending"
    <3>1. Settled(t) => tstate'[t] = tstate[t]
      BY <1>2, TasksKept
    <3>2. QED
      BY <1>0, <1>2, <3>1 DEF Settled, TaskStates
  <2>2. ~SettledNext(t)
    BY DEF SettledNext
  <2>3. Settler(t)
    BY <2>1 DEF PendingHasSettler, Settler
  <2>4. CASE t \in timers
    BY <2>2, <2>4, TimersKept DEF Settler
  <2>5. CASE t \in RangeOf(joins)
    BY <2>2, <2>5, JoinsKept DEF Settler
  <2>6. ASSUME NEW c \in Cos, cotask[c] = t, cstat[c] \in {"parked", "running"}
        PROVE  cotask'[c] = t /\ cstat'[c] \in {"parked", "running"}
    <3>1. t # None
      BY NoneAssumption DEF Tasks
    <3>2. CoStep(c)
      BY CoShape
    <3>3. QED
      BY <2>2, <2>6, <3>1, <3>2 DEF CoStep
  <2>7. QED
    BY <2>3, <2>4, <2>5, <2>6 DEF Settler
<1>3. QED
  BY <1>1, <1>2

-----------------------------------------------------------------------------
(* The joins are decided in the order of their creation.                   *)

\* A new join is younger than every other one.
LEMMA JoinsOrderedNext ==
  ASSUME WakeInv, OwnedPlain, Older, JoinsOrdered, [Next]_vars
  PROVE  JoinsOrdered'
<1>0. /\ TypeOK /\ joins \in Seq(Tasks) /\ Len(joins) \in Nat /\ DOMAIN joins = 1 .. Len(joins)
      /\ Tasks \subseteq Nat
  BY DEF WakeInv, TypeOK, Tasks
<1>1. \A i \in DOMAIN joins : joins[i] \in Tasks /\ tstate'[joins[i]] # "unborn"
  BY <1>0, TasksKept DEF JoinsOrdered
<1>2. CASE UNCHANGED joins
  BY <1>1, <1>2 DEF JoinsOrdered
<1>3. CASE PollResolved
  <2>1. JoinTaken /\ DOMAIN joins' = 1 .. Len(joins) - 1 /\ polled \in Nat
    <3>1. JoinTaken
      BY <1>0, <1>3, PollTakes
    <3>2. joins' \in Seq(Tasks) /\ Len(joins') = Len(joins) - 1 /\ polled \in Nat
      BY <1>0, <3>1 DEF JoinTaken
    <3>3. QED
      BY <3>1, <3>2
  <2>2. \A i \in DOMAIN joins' :
          \/ i <= polled /\ i \in DOMAIN joins /\ joins'[i] = joins[i]
          \/ i > polled /\ i + 1 \in DOMAIN joins /\ joins'[i] = joins[i + 1]
    BY <1>0, <2>1 DEF JoinTaken
  <2>3. ASSUME NEW i \in DOMAIN joins', NEW k \in DOMAIN joins', i < k PROVE joins'[i] < joins'[k]
    <3>1. i \in Nat /\ k \in Nat
      BY <2>1
    <3>2. QED
      BY <2>1, <2>2, <2>3, <3>1 DEF JoinsOrdered
  <2>4. \A i \in DOMAIN joins' : tstate'[joins'[i]] # "unborn"
    BY <1>1, <2>2
  <2>5. QED
    BY <2>3, <2>4 DEF JoinsOrdered
<1>4. ASSUME NEW ts, NEW isAny, NEW s, NewJoin(ts, isAny, s) PROVE JoinsOrdered'
  <2>1. PICK t \in Tasks : /\ \E o \in {"ready", "pending"} : CreateTask(t, o, s)
                           /\ joins' = joins \/ joins' = Append(joins, t)
    BY <1>4 DEF NewJoin
  <2>2. tstate[t] = "unborn" /\ tstate'[t] # "unborn"
    BY <1>0, <2>1 DEF CreateTask, Unborn, TypeOK
  <2>3. CASE joins' = Append(joins, t)
    <3>1. /\ DOMAIN joins' = 1 .. Len(joins) + 1 /\ joins'[Len(joins) + 1] = t
          /\ \A i \in 1 .. Len(joins) : joins'[i] = joins[i]
      BY <1>0, <2>3
    <3>2. \A i \in DOMAIN joins : joins[i] < t
      <4>1. \A i \in DOMAIN joins : joins[i] \in Tasks /\ tstate[joins[i]] # "unborn"
        BY <1>0 DEF JoinsOrdered
      <4>2. QED
        BY <2>2, <4>1 DEF Older
    <3>3. ASSUME NEW i \in DOMAIN joins', NEW k \in DOMAIN joins', i < k PROVE joins'[i] < joins'[k]
      <4>1. i \in 1 .. Len(joins) /\ (k \in 1 .. Len(joins) \/ k = Len(joins) + 1)
        BY <1>0, <3>1, <3>3
      <4>2. QED
        BY <1>0, <3>1, <3>2, <3>3, <4>1 DEF JoinsOrdered
    <3>4. \A i \in DOMAIN joins' : tstate'[joins'[i]] # "unborn"
      BY <1>0, <1>1, <2>2, <3>1
    <3>5. QED
      BY <3>3, <3>4 DEF JoinsOrdered
  <2>4. QED
    BY <1>2, <2>1, <2>3
<1>5. QED
  BY <1>2, <1>3, <1>4
  DEF Next, Loop, Poll, Resume, Slice, Exited, PushWoken, FireTimer, TimersDone, PollKept,
    PollDone, NothingReady, ResumeNext, RunTask, Delay, Join, GroupJoin, Cancel, CancelNext,
    CancelDone, Throw, AwaitRaise, AwaitPark, TryBegin, TryEnd, SyncCall, SyncReturn, Finish, Halt,
    vars, queueVars

\* Whether a join is decided depends on its members only.
ResolvableNext(j) ==
  IF any'[j] THEN \E i \in DOMAIN members'[j] : SettledNext(members'[j][i])
  ELSE \A i \in DOMAIN members'[j] : SettledNext(members'[j][i])

LEMMA UndecidedKept ==
  ASSUME TypeOK, NEW j \in Tasks, members'[j] = members[j], any'[j] = any[j],
         \A i \in DOMAIN members[j] : tstate'[members[j][i]] = tstate[members[j][i]],
         ~Resolvable(j)
  PROVE  ~ResolvableNext(j)
  BY DEF Resolvable, AnyReady, AllReady, Settled, SettledNext, ResolvableNext

\* Creating a task decides no join: its members are older.
LEMMA UndecidedCreate ==
  ASSUME TypeOK, Older, NEW t \in Tasks, Creating(t), NEW j \in Tasks, tstate[j] # "unborn",
         ~Resolvable(j)
  PROVE  ~ResolvableNext(j)
<1>1. j # t /\ members'[j] = members[j] /\ any'[j] = any[j]
  BY DEF Creating
<1>2. \A i \in DOMAIN members[j] : tstate'[members[j][i]] = tstate[members[j][i]]
  BY MembersBorn DEF Creating
<1>3. QED
  BY <1>1, <1>2, UndecidedKept

\* Nor does settling a younger task.
LEMMA UndecidedSettle ==
  ASSUME TypeOK, Older, NEW t \in Tasks, NEW o \in {"ready", "failed"}, Settling(t, o),
         NEW j \in Tasks, j < t, ~Resolvable(j)
  PROVE  ~ResolvableNext(j)
<1>1. members' = members /\ any' = any /\ \A u \in Tasks \ {t} : tstate'[u] = tstate[u]
  BY DEF Settling, SettleTask, TypeOK
<1>2. \A i \in DOMAIN members[j] : tstate'[members[j][i]] = tstate[members[j][i]]
  <2> TAKE i \in DOMAIN members[j]
  <2>1. members[j][i] \in Tasks /\ members[j][i] < j
    BY MembersBorn
  <2>2. members[j][i] # t
    BY <2>1 DEF Tasks
  <2>3. QED
    BY <1>1, <2>1, <2>2
<1>3. QED
  BY <1>1, <1>2, UndecidedKept

LEMMA PollingIntro ==
  ASSUME pc' \in {"slice", "resume", "done"} => \A j \in RangeOf(joins') : ~ResolvableNext(j),
         pc' = "poll" => \A i \in 1 .. polled' : ~ResolvableNext(joins'[i])
  PROVE  Polling'
  BY DEF Polling, JoinsPolled, Resolvable, AnyReady, AllReady, Settled, SettledNext, ResolvableNext

\* A step that neither settles a task nor adds a join decides no join.
LEMMA PollingKept ==
  ASSUME TypeOK, Polling, UNCHANGED <<tstate, members, any, joins>>,
         \/ pc \in {"slice", "resume", "done"} /\ pc' # "poll"
         \/ UNCHANGED <<pc, polled>>
  PROVE  Polling'
<1>1. \A j : ResolvableNext(j) <=> Resolvable(j)
  BY DEF Resolvable, AnyReady, AllReady, Settled, SettledNext, ResolvableNext
<1>2. pc' \in {"slice", "resume", "done"} => \A j \in RangeOf(joins') : ~ResolvableNext(j)
  BY <1>1 DEF Polling, JoinsPolled
<1>3. pc' = "poll" => \A i \in 1 .. polled' : ~ResolvableNext(joins'[i])
  BY <1>1 DEF Polling
<1>4. QED
  BY <1>2, <1>3, PollingIntro

\* Program code that creates a task decides no join.
LEMMA PollingCreate ==
  ASSUME TypeOK, Older, JoinsOrdered, Polling, NEW t \in Tasks, Creating(t),
         pc = "slice", UNCHANGED <<joins, pc>>
  PROVE  Polling'
<1>1. \A j \in RangeOf(joins) : j \in Tasks /\ tstate[j] # "unborn" /\ ~Resolvable(j)
  BY DEF TypeOK, JoinsOrdered, RangeOf, Polling, JoinsPolled
<1>2. \A j \in RangeOf(joins') : ~ResolvableNext(j)
  BY <1>1, UndecidedCreate
<1>3. QED
  BY <1>2, PollingIntro

\* The join settled by poll_joins is younger than those it has passed.
LEMMA PollingResolved ==
  ASSUME TypeOK, Older, JoinsOrdered, Polling, PollResolved
  PROVE  Polling'
<1> DEFINE k == polled
           j == joins[k + 1]
<1>1. /\ pc' = "poll" /\ polled' = k /\ pc = "poll"
      /\ Resolvable(j) /\ SettleTask(j, JoinOutcome(j)) /\ UNCHANGED <<members, any>>
  BY DEF PollResolved, At, ctrlVars
<1>2. JoinTaken /\ j \in Tasks /\ k \in Nat /\ joins \in Seq(Tasks) /\ k + 1 \in DOMAIN joins
  <2>1. JoinTaken /\ j \in Tasks
    BY PollTakes
  <2>2. joins \in Seq(Tasks) /\ k \in 0 .. Len(joins) - 1
    BY <2>1 DEF JoinTaken, TypeOK
  <2>3. QED
    BY <2>1, <2>2
<1>3. Settling(j, JoinOutcome(j)) /\ JoinOutcome(j) \in {"ready", "failed"}
  BY <1>1, <1>2 DEF Settling, JoinsOrdered, JoinOutcome
<1>4. ASSUME NEW i \in 1 .. k PROVE ~ResolvableNext(joins'[i])
  <2>1. i \in DOMAIN joins /\ i < k + 1 /\ joins'[i] = joins[i]
    BY <1>2 DEF JoinTaken
  <2>2. joins[i] \in Tasks /\ joins[i] < j /\ ~Resolvable(joins[i])
    BY <1>1, <1>2, <2>1 DEF JoinsOrdered, Polling
  <2>3. ~ResolvableNext(joins[i])
    BY <1>2, <1>3, <2>2, UndecidedSettle
  <2>4. QED
    BY <2>1, <2>3
<1>5. QED
  BY <1>1, <1>4, PollingIntro

LEMMA PollingNext ==
  ASSUME WakeInv, OwnedPlain, Older, JoinsOrdered, Polling, [Next]_vars
  PROVE  Polling'
<1> USE NoneAssumption
<1>0. /\ TypeOK /\ CurLoaded /\ pc \in {"loop", "poll", "resume", "slice", "cancel", "done"}
      /\ ret \in {"loop", "resume", "slice"} /\ joins \in Seq(Tasks)
  BY DEF WakeInv, TypeOK
<1>1. ASSUME pc' \in {"loop", "cancel"} \/ (pc' = "poll" /\ polled' = 0) PROVE Polling'
  BY <1>1, PollingIntro
<1>2. CASE FireTimer \/ CancelNext
  BY <1>1, <1>2 DEF FireTimer, CancelNext, At, ctrlVars
<1>3. CASE TimersDone \/ CancelDone \/ Finish \/ AwaitPark
  BY <1>1, <1>3 DEF TimersDone, CancelDone, Finish, AwaitPark, CallPoll
<1>4. CASE PushWoken \/ TryBegin \/ TryEnd \/ SyncCall \/ SyncReturn \/ UNCHANGED vars
  <2>1. UNCHANGED <<tstate, members, any, joins, pc, polled>>
    BY <1>4 DEF PushWoken, TryBegin, TryEnd, SyncCall, SyncReturn, vars, taskVars, queueVars, ctrlVars
  <2>2. QED
    BY <1>0, <2>1, PollingKept
<1>5. CASE NothingReady \/ Halt \/ \E s \in Scopes : Cancel(s)
  <2>1. /\ UNCHANGED <<tstate, members, any, joins>>
        /\ pc \in {"slice", "resume", "done"} /\ pc' # "poll"
    BY <1>5 DEF NothingReady, Halt, Cancel, At, taskVars, queueVars
  <2>2. QED
    BY <1>0, <2>1, PollingKept
<1>6. CASE PollResolved
  BY <1>0, <1>6, PollingResolved
<1>7. CASE PollKept \/ PollDone
  <2>1. UNCHANGED <<tstate, members, any, joins>>
    BY <1>7 DEF PollKept, PollDone, taskVars, queueVars
  <2>2. \A j : ResolvableNext(j) <=> Resolvable(j)
    BY <2>1 DEF Resolvable, AnyReady, AllReady, Settled, SettledNext, ResolvableNext
  <2>3. pc = "poll" /\ polled \in Nat /\ \A i \in 1 .. polled : ~Resolvable(joins[i])
    BY <1>0, <1>7 DEF PollKept, PollDone, At, Polling, TypeOK
  <2>4. CASE PollKept
    <3>1. pc' = "poll" /\ polled' = polled + 1 /\ ~Resolvable(joins[polled + 1])
      BY <2>3, <2>4 DEF PollKept
    <3>2. \A i \in 1 .. polled + 1 : ~Resolvable(joins[i])
      BY <2>3, <3>1
    <3>3. QED
      BY <2>1, <2>2, <3>1, <3>2, PollingIntro
  <2>5. CASE PollDone
    <3>1. pc' = ret /\ polled = Len(joins)
      BY <2>5 DEF PollDone
    <3>2. \A j \in RangeOf(joins') : ~ResolvableNext(j)
      BY <1>0, <2>1, <2>2, <2>3, <3>1 DEF RangeOf
    <3>3. QED
      BY <1>0, <3>1, <3>2, PollingIntro
  <2>6. QED
    BY <1>7, <2>4, <2>5
<1>8. ASSUME NEW s \in Scopes \cup {None}, RunTask(s) \/ Delay(s) PROVE Polling'
  <2>1. PICK t \in Tasks, o \in {"pending", "ready", "failed"} : CreateTask(t, o, s)
    BY <1>8 DEF RunTask, Delay
  <2>2. UNCHANGED <<members, any, joins, pc>> /\ pc = "slice"
    BY <1>8 DEF RunTask, Delay, At, ctrlVars
  <2>3. Creating(t)
    BY <1>0, <2>1, <2>2, CreatingPlain
  <2>4. QED
    BY <1>0, <2>2, <2>3, PollingCreate
<1>9. ASSUME NEW ts, NEW isAny, NEW s, NewJoin(ts, isAny, s), pc = "slice",
             \A i \in DOMAIN ts : ts[i] \in Tasks /\ tstate[ts[i]] # "unborn"
      PROVE  Polling'
  <2>1. CASE ts = <<>>
    <3>1. PICK t \in Tasks : Creating(t)
      BY <1>0, <1>9, CreatingJoin DEF NewJoin
    <3>2. UNCHANGED <<joins, pc>>
      BY <1>9, <2>1 DEF NewJoin
    <3>3. QED
      BY <1>0, <1>9, <3>1, <3>2, PollingCreate
  <2>2. CASE ts # <<>>
    BY <1>1, <1>9, <2>2 DEF NewJoin, CallPoll
  <2>3. QED
    BY <2>1, <2>2
<1>10. CASE Join \/ \E g \in Groups : GroupJoin(g)
  BY <1>0, <1>9, <1>10, JoinMembers DEF Join, GroupJoin, At
<1>11. ASSUME pc \in {"slice", "resume"}, UNCHANGED <<members, any, joins>>,
              \/ tstate' = tstate /\ pc' # "poll"
              \/ pc' = "poll" /\ polled' = 0
       PROVE  Polling'
  BY <1>0, <1>1, <1>11, PollingKept
<1>12. CASE ResumeNext
  <2>1. pc = "resume" /\ UNCHANGED <<members, any, joins>>
    BY <1>12 DEF ResumeNext, At
  <2>2. \/ tstate' = tstate /\ pc' # "poll"
        \/ pc' = "poll" /\ polled' = 0
    BY <1>12, <2>1 DEF ResumeNext, ResumeRun, ResumeFailed, ResumePending, CallPoll
  <2>3. QED
    BY <1>11, <2>1, <2>2
<1>13. CASE Throw \/ AwaitRaise
  <2>1. pc = "slice" /\ Raise /\ UNCHANGED <<members, any, joins>>
    BY <1>13 DEF Throw, AwaitRaise, At, queueVars
  <2>2. \/ tstate' = tstate /\ pc' # "poll"
        \/ pc' = "poll" /\ polled' = 0
    BY <2>1 DEF Raise, CallPoll
  <2>3. QED
    BY <1>11, <2>1, <2>2
<1>14. QED
  BY <1>2, <1>3, <1>4, <1>5, <1>6, <1>7, <1>8, <1>10, <1>12, <1>13
  DEF Next, Loop, Poll, Resume, Slice, Exited, Scopes

-----------------------------------------------------------------------------
(* A Cancel reaches every task of its scope.                               *)

LEMMA ScopeReachedNext ==
  ASSUME WakeInv, OwnedPlain, Older, ScopeReached, [Next]_vars
  PROVE  ScopeReached'
<1> USE NoneAssumption
<1>0. /\ TypeOK /\ todo \in Seq(Tasks) /\ cancelled \subseteq Scopes
      /\ \A s \in Scopes : tracked[s] \in Seq(Tasks) /\ RangeOf(tracked[s]) \subseteq Tasks
  BY DEF WakeInv, TypeOK, RangeOf
<1>1. SUFFICES ASSUME NEW s \in cancelled', NEW t \in RangeOf(tracked'[s])
               PROVE  SettledNext(t) \/ (pc' = "cancel" /\ t \in RangeOf(todo'))
  BY DEF ScopeReached, Settled, SettledNext
<1>2. ASSUME NEW r \in cancelled, NEW u \in RangeOf(tracked[r])
      PROVE  u \in Tasks /\ tstate[u] # "unborn" /\ (Settled(u) => SettledNext(u))
  <2>1. u \in Tasks /\ tstate[u] # "unborn"
    BY <1>0 DEF OwnedPlain, Plain
  <2>2. QED
    BY <2>1, TasksKept DEF Settled, SettledNext
<1>3. CASE UNCHANGED <<cancelled, tracked, todo>> /\ (pc # "cancel" \/ pc' = pc)
  BY <1>2, <1>3 DEF ScopeReached
<1>4. ASSUME NEW r \in Scopes, Cancel(r)
      PROVE  SettledNext(t) \/ (pc' = "cancel" /\ t \in RangeOf(todo'))
  <2>1. /\ cancelled' = cancelled \cup {r} /\ tracked' = tracked /\ todo' = tracked[r]
        /\ pc = "slice" /\ (pc' = "cancel" \/ tracked[r] = <<>>)
    BY <1>4 DEF Cancel, At
  <2>2. CASE s = r
    BY <1>1, <2>1, <2>2 DEF RangeOf
  <2>3. CASE s # r
    BY <1>1, <1>2, <2>1, <2>3 DEF ScopeReached
  <2>4. QED
    BY <2>2, <2>3
<1>5. CASE CancelNext
  <2>1. /\ pc = "cancel" /\ pc' = pc /\ todo # <<>> /\ todo' = Tail(todo)
        /\ SettleTask(Head(todo), "failed") /\ UNCHANGED <<cancelled, tracked>>
    BY <1>5 DEF CancelNext, At, ctrlVars
  <2>2. CASE Settled(t)
    BY <1>1, <1>2, <2>1, <2>2
  <2>3. CASE t \in RangeOf(todo)
    <3>1. t = Head(todo) \/ t \in RangeOf(todo')
      BY <1>0, <2>1, <2>3, HeadTailFacts
    <3>2. CASE t = Head(todo)
      BY <1>0, <1>1, <1>2, <2>1, <3>2, SettledBy
    <3>3. QED
      BY <2>1, <3>1, <3>2
  <2>4. QED
    BY <1>1, <2>1, <2>2, <2>3 DEF ScopeReached
<1>6. CASE CancelDone
  <2>1. todo = <<>> /\ UNCHANGED <<cancelled, tracked>>
    BY <1>6 DEF CancelDone, scopeVars
  <2>2. t \notin RangeOf(todo)
    BY <2>1 DEF RangeOf
  <2>3. QED
    BY <1>1, <1>2, <2>1, <2>2 DEF ScopeReached
<1>7. ASSUME NEW r \in Scopes \cup {None}, NEW u \in Tasks, pc = "slice", cancelled' = cancelled,
             tracked' = (IF r = None THEN tracked ELSE [tracked EXCEPT ![r] = Append(@, u)]),
             r \in cancelled => SettledNext(u)
      PROVE  SettledNext(t) \/ (pc' = "cancel" /\ t \in RangeOf(todo'))
  <2>1. RangeOf(tracked'[s]) = RangeOf(tracked[s]) \/ (r = s /\ RangeOf(tracked'[s]) = RangeOf(tracked[s]) \cup {u})
    BY <1>0, <1>1, <1>7, TrackFacts
  <2>2. CASE t \in RangeOf(tracked[s])
    BY <1>1, <1>2, <1>7, <2>2 DEF ScopeReached
  <2>3. CASE t = u /\ r = s
    BY <1>1, <1>7, <2>3
  <2>4. QED
    BY <1>1, <2>1, <2>2, <2>3
<1>8. ASSUME NEW r \in Scopes \cup {None}, RunTask(r) \/ Delay(r)
      PROVE  SettledNext(t) \/ (pc' = "cancel" /\ t \in RangeOf(todo'))
  <2>1. PICK u \in Tasks :
          /\ \E o : CreateTask(u, o, r) /\ (r \in cancelled => o = "failed")
          /\ tracked' = (IF r = None THEN tracked ELSE [tracked EXCEPT ![r] = Append(@, u)])
    BY <1>8 DEF RunTask, Delay
  <2>2. r \in cancelled => SettledNext(u)
    BY <1>0, <2>1 DEF CreateTask, SettledNext, TypeOK
  <2>3. pc = "slice" /\ cancelled' = cancelled
    BY <1>8 DEF RunTask, Delay, At
  <2>4. QED
    BY <1>7, <2>1, <2>2, <2>3
<1>9. CASE Throw \/ AwaitRaise \/ Finish \/ Halt \/ AwaitPark \/ ResumeNext \/ FireTimer
  BY <1>3, <1>9 DEF Throw, AwaitRaise, Finish, Halt, AwaitPark, ResumeNext, FireTimer, At, scopeVars
<1>10. CASE Join \/ \E g \in Groups : GroupJoin(g)
  BY <1>3, <1>10 DEF Join, GroupJoin, At, scopeVars
<1>11. CASE TimersDone \/ PollResolved \/ PollKept \/ PollDone \/ NothingReady
  BY <1>3, <1>11 DEF TimersDone, PollResolved, PollKept, PollDone, NothingReady, At, scopeVars
<1>12. CASE PushWoken \/ TryBegin \/ TryEnd \/ SyncCall \/ SyncReturn \/ UNCHANGED vars
  BY <1>3, <1>12 DEF PushWoken, TryBegin, TryEnd, SyncCall, SyncReturn, vars, scopeVars, ctrlVars
<1>13. QED
  BY <1>4, <1>5, <1>6, <1>8, <1>9, <1>10, <1>11, <1>12
  DEF Next, Loop, Poll, Resume, Slice, Exited, Scopes

-----------------------------------------------------------------------------
(* The theorems.                                                           *)

LEMMA TaskInvInit == Init => TaskInv
<1> SUFFICES ASSUME Init PROVE TaskInv
  OBVIOUS
<1> USE NoneAssumption, BoundsAssumption
<1>1. RangeOf(<<>>) = {} /\ DOMAIN <<>> = {}
  BY DEF RangeOf
<1>2. /\ \A c \in Cos : cotask[c] = None /\ cstat[c] \in {"running", "unborn"}
      /\ Root \in Cos /\ cstat[Root] = "running"
      /\ timers = {} /\ joins = <<>> /\ todo = <<>> /\ cancelled = {} /\ pc = "loop"
      /\ \A s \in Scopes : tracked[s] = <<>>
      /\ \A t \in Tasks : tstate[t] = "unborn" /\ members[t] = <<>>
  BY DEF Init, Root, Cos
<1>3. OwnedPlain /\ Owners
  BY <1>1, <1>2 DEF OwnedPlain, Owners
<1>4. Older /\ JoinsOrdered /\ Polling /\ ScopeReached
  BY <1>1, <1>2 DEF Older, JoinsOrdered, Polling, JoinsPolled, ScopeReached
<1>5. JoinsFaithful /\ PendingHasSettler /\ EndedMeansSettled
  BY <1>2 DEF JoinsFaithful, PendingHasSettler, EndedMeansSettled
<1>6. QED
  BY <1>3, <1>4, <1>5 DEF TaskInv

LEMMA TaskInvNext == WakeInv /\ TaskInv /\ [Next]_vars => TaskInv'
<1> SUFFICES ASSUME WakeInv, TaskInv, [Next]_vars PROVE TaskInv'
  OBVIOUS
<1> USE DEF TaskInv
<1>1. OwnedPlain' /\ Owners' /\ Older'
  BY OwnedPlainNext, OwnersNext, OlderNext
<1>2. JoinsOrdered' /\ Polling' /\ ScopeReached'
  BY JoinsOrderedNext, PollingNext, ScopeReachedNext
<1>3. JoinsFaithful' /\ PendingHasSettler' /\ EndedMeansSettled'
  BY JoinsFaithfulNext, SettlerNext, EndedNext
<1>4. QED
  BY <1>1, <1>2, <1>3

\* The inductive invariant behind the theorems of this module holds in every
\* state the scheduler reaches.
THEOREM TaskInvariant == Spec => [](WakeInv /\ TaskInv)
<1>1. Init => WakeInv /\ TaskInv
  BY WakeInvInit, TaskInvInit
<1>2. WakeInv /\ TaskInv /\ [Next]_vars => (WakeInv /\ TaskInv)'
  BY WakeInvNext, TaskInvNext
<1>3. QED
  BY <1>1, <1>2, PTL DEF Spec

\* resume_next never pops an id that is not parked or still waits: its
\* "spurious ready id" and "still pending" branches are dead code.
THEOREM NoneWokenEarly == Spec => []NoSpuriousWakeup
<1>1. WakeInv => NoSpuriousWakeup
  BY DEF WakeInv, Wake
<1>2. QED
  BY <1>1, WakeInvariant, PTL

\* Every pending task has a live coroutine, an armed timer or an unresolved
\* join: nothing that happens to them orphans it.
THEOREM NoOrphans == Spec => []PendingHasSettler
<1>1. TaskInv => PendingHasSettler
  BY DEF TaskInv
<1>2. QED
  BY <1>1, TaskInvariant, PTL

\* finish_coroutine, run_slice and resume_next all settle the task of the
\* coroutine they end.
THEOREM CallersAnswered == Spec => []EndedMeansSettled
<1>1. TaskInv => EndedMeansSettled
  BY DEF TaskInv
<1>2. QED
  BY <1>1, TaskInvariant, PTL

\* Once a Cancel returned, every task its scope tracks is settled, those that
\* are started in the scope later included.
THEOREM CancelReaches == Spec => []CancelReachesScope
<1>1. TaskInv => CancelReachesScope
  BY DEF TaskInv, ScopeReached, CancelReachesScope
<1>2. QED
  BY <1>1, TaskInvariant, PTL

\* One pass of poll_joins in creation order leaves no decided join behind,
\* joins of joins included.
THEOREM OnePassSuffices == Spec => []JoinsPolled
<1>1. TaskInv => JoinsPolled
  BY DEF TaskInv, Polling
<1>2. QED
  BY <1>1, TaskInvariant, PTL

\* WhenAll fails exactly if a member failed, WhenAny reports a settled member,
\* and no Cancel, timer or return gives a join another outcome.
THEOREM JoinsReportMembers == Spec => []JoinsFaithful
<1>1. TaskInv => JoinsFaithful
  BY DEF TaskInv
<1>2. QED
  BY <1>1, TaskInvariant, PTL

-----------------------------------------------------------------------------
(* The scheduler implements AsyncTasks, one step at a time.                *)

\* What EventLoopRefines substitutes for phase and waitsFor.
Phases == [c \in Cos |-> Phase(c)]
Waits  == [c \in Cos |-> IF Waiting(c) THEN awaiting[c] ELSE None]

\* A step of AsyncTasks or a stutter.
AsyncStep == [Async!Next]_(Async!vars)

LEMMA AsyncInit == Init => Async!Init
  BY DEF Init, Async!Init, Phase, Waiting

LEMMA PhasesKept ==
  ASSUME UNCHANGED <<cstat, awaiting>>
  PROVE  UNCHANGED <<Phases, Waits>>
  BY DEF Phases, Waits, Phase, Waiting

\* A step that moves one coroutine.
LEMMA PhaseMoved ==
  ASSUME NEW c \in Cos,
         \A d \in Cos \ {c} : cstat'[d] = cstat[d] /\ awaiting'[d] = awaiting[d]
  PROVE  /\ Phases' = [Phases EXCEPT ![c] = Phase(c)']
         /\ Waits' = [Waits EXCEPT ![c] = IF Waiting(c)' THEN awaiting'[c] ELSE None]
<1>1. \A d \in Cos \ {c} : Phase(d)' = Phase(d) /\ (Waiting(d)' <=> Waiting(d))
  BY DEF Phase, Waiting
<1>2. Phases' = [Phases EXCEPT ![c] = Phase(c)']
  BY <1>1 DEF Phases
<1>3. Waits' = [Waits EXCEPT ![c] = IF Waiting(c)' THEN awaiting'[c] ELSE None]
  BY <1>1 DEF Waits
<1>4. QED
  BY <1>2, <1>3

LEMMA AsyncStutter ==
  ASSUME UNCHANGED <<tstate, cstat, awaiting, cotask>>
  PROVE  AsyncStep
<1>1. UNCHANGED <<Phases, Waits>>
  BY PhasesKept
<1>2. QED
  BY <1>1 DEF AsyncStep, Async!vars, Phases, Waits

LEMMA AsyncSettle ==
  ASSUME NEW t \in Tasks, NEW o \in {"ready", "failed"}, SettleTask(t, o),
         UNCHANGED <<cstat, awaiting, cotask>>
  PROVE  AsyncStep
<1>1. CASE tstate[t] = "pending"
  <2>1. UNCHANGED <<Phases, Waits>>
    BY PhasesKept
  <2>2. Async!Settle(t, o)
    BY <1>1, <2>1 DEF SettleTask, Async!Settle, Phases, Waits
  <2>3. QED
    BY <2>2 DEF AsyncStep, Async!Next
<1>2. CASE tstate[t] # "pending"
  BY <1>2, AsyncStutter DEF SettleTask
<1>3. QED
  BY <1>1, <1>2

LEMMA AsyncCreate ==
  ASSUME NEW t \in Tasks, NEW o \in {"pending", "ready", "failed"}, NEW s, CreateTask(t, o, s),
         UNCHANGED <<cstat, awaiting, cotask>>
  PROVE  AsyncStep
<1>1. UNCHANGED <<Phases, Waits>>
  BY PhasesKept
<1>2. Async!Create(t, o)
  BY <1>1 DEF CreateTask, Unborn, Async!Create, Phases, Waits
<1>3. QED
  BY <1>2 DEF AsyncStep, Async!Next

\* A new task and its coroutine, parked with nothing to await: able to run.
LEMMA AsyncStart ==
  ASSUME WakeInv, NEW t \in Tasks, NEW s, NEW c \in Cos, CreateTask(t, "pending", s), Spawn(c, t),
         UNCHANGED awaiting
  PROVE  AsyncStep
<1>1. /\ cstat[c] = "unborn" /\ cstat' = [cstat EXCEPT ![c] = "parked"]
      /\ cotask' = [cotask EXCEPT ![c] = t] /\ awaiting[c] = None
      /\ cstat \in [Cos -> CoStates] /\ awaiting \in [Cos -> Tasks \cup {None}]
  BY DEF Spawn, WakeInv, CurRunning, TypeOK
<1>2. Phase(c)' = "able" /\ ~Waiting(c)' /\ Phase(c) = "unborn" /\ ~Waiting(c)
  BY <1>1 DEF Phase, Waiting
<1>3. Phases' = [Phases EXCEPT ![c] = "able"] /\ Waits' = [Waits EXCEPT ![c] = None]
  BY <1>1, <1>2, PhaseMoved
<1>4. Waits[c] = None /\ Waits' = Waits
  BY <1>2, <1>3 DEF Waits
<1>5. Async!Start(c, t)
  BY <1>1, <1>2, <1>3, <1>4 DEF CreateTask, Unborn, Async!Start, Phases, Waits
<1>6. QED
  BY <1>5 DEF AsyncStep, Async!Next

\* A coroutine that is able to run ends, by return, error or Halt, and its
\* task, if it has one, is settled.
LEMMA AsyncEnd ==
  ASSUME WakeInv, NEW c \in Cos, cstat[c] = "running", cstat' = [cstat EXCEPT ![c] = "ended"],
         UNCHANGED <<awaiting, cotask>>, NEW o \in {"ready", "failed"},
         IF cotask[c] # None THEN SettleTask(cotask[c], o) ELSE UNCHANGED tstate
  PROVE  AsyncStep
<1>1. cstat \in [Cos -> CoStates] /\ awaiting \in [Cos -> Tasks \cup {None}]
  BY DEF WakeInv, TypeOK
<1>2. Phase(c)' = "over" /\ ~Waiting(c)' /\ Phase(c) = "able" /\ ~Waiting(c)
  BY <1>1 DEF Phase, Waiting
<1>3. Phases' = [Phases EXCEPT ![c] = "over"] /\ Waits' = [Waits EXCEPT ![c] = None]
  BY <1>1, <1>2, PhaseMoved
<1>4. Waits' = Waits
  BY <1>2, <1>3 DEF Waits
<1>5. Async!OwnedSettled(c, o)
  BY DEF SettleTask, Async!OwnedSettled
<1>6. Async!End(c, o)
  BY <1>2, <1>3, <1>4, <1>5 DEF Async!End, Phases, Waits
<1>7. QED
  BY <1>6 DEF AsyncStep, Async!Next

LEMMA AsyncAwait ==
  ASSUME WakeInv, AwaitPark
  PROVE  AsyncStep
<1> USE NoneAssumption
<1>1. /\ cur \in Cos /\ cstat[cur] = "running" /\ cstat \in [Cos -> CoStates]
      /\ awaiting \in [Cos -> Tasks \cup {None}]
  BY DEF WakeInv, CurLoaded, CurRunning, TypeOK, AwaitPark, At
<1>2. PICK c \in Cos : c = cur
  BY <1>1
<1>3. PICK t \in Tasks : tstate[t] = "pending" /\ awaiting' = [awaiting EXCEPT ![c] = t]
  BY <1>2 DEF AwaitPark, Born
<1>4. cstat' = [cstat EXCEPT ![c] = "parked"] /\ UNCHANGED <<tstate, cotask>>
  BY <1>2 DEF AwaitPark
<1>5. t # None
  BY DEF Tasks
<1>6. Phase(c)' = "waiting" /\ Waiting(c)' /\ awaiting'[c] = t /\ Phase(c) = "able"
  BY <1>1, <1>2, <1>3, <1>4, <1>5 DEF Phase, Waiting
<1>7. Phases' = [Phases EXCEPT ![c] = "waiting"] /\ Waits' = [Waits EXCEPT ![c] = t]
  BY <1>1, <1>3, <1>4, <1>6, PhaseMoved
<1>8. Async!Await(c, t)
  BY <1>3, <1>4, <1>6, <1>7 DEF Async!Await, Phases, Waits
<1>9. QED
  BY <1>8 DEF AsyncStep, Async!Next

\* The front of the ready queue goes on or is abandoned.
LEMMA AsyncResume ==
  ASSUME WakeInv, ResumeNext
  PROVE  AsyncStep
<1> USE NoneAssumption
<1>1. PICK c \in Cos : c = Head(ready)
  BY FrontFacts DEF ResumeNext, At
<1>2. /\ cstat[c] = "parked" /\ (awaiting[c] = None \/ Settled(awaiting[c])) /\ cotask' = cotask
      /\ cstat \in [Cos -> CoStates] /\ awaiting \in [Cos -> Tasks \cup {None}]
  BY <1>1, FrontFacts DEF ResumeNext, At, WakeInv, TypeOK
<1>3. ASSUME ResumeRun(c), awaiting[c] = None PROVE AsyncStep
  <2>1. /\ cstat' = [cstat EXCEPT ![c] = "running"] /\ awaiting' = [awaiting EXCEPT ![c] = None]
        /\ tstate' = tstate
    BY <1>3 DEF ResumeRun
  <2>2. Phase(c)' = "able" /\ ~Waiting(c)' /\ Phase(c) = "able" /\ ~Waiting(c)
    BY <1>2, <1>3, <2>1 DEF Phase, Waiting
  <2>3. Phases' = [Phases EXCEPT ![c] = "able"] /\ Waits' = [Waits EXCEPT ![c] = None]
    BY <1>2, <2>1, <2>2, PhaseMoved
  <2>4. Phases' = Phases /\ Waits' = Waits
    BY <2>2, <2>3 DEF Phases, Waits
  <2>5. QED
    BY <1>2, <2>1, <2>4 DEF AsyncStep, Async!vars, Phases, Waits
<1>4. ASSUME ResumeRun(c), awaiting[c] # None, tstate[awaiting[c]] = "ready" PROVE AsyncStep
  <2>1. /\ cstat' = [cstat EXCEPT ![c] = "running"] /\ awaiting' = [awaiting EXCEPT ![c] = None]
        /\ tstate' = tstate
    BY <1>4 DEF ResumeRun
  <2>2. Phase(c)' = "able" /\ ~Waiting(c)' /\ Phase(c) = "waiting" /\ Waiting(c)
    BY <1>2, <1>4, <2>1 DEF Phase, Waiting
  <2>3. Phases' = [Phases EXCEPT ![c] = "able"] /\ Waits' = [Waits EXCEPT ![c] = None]
    BY <1>2, <2>1, <2>2, PhaseMoved
  <2>4. Phases[c] = "waiting" /\ Waits[c] = awaiting[c]
    BY <2>2 DEF Phases, Waits
  <2>5. Async!Continue(c)
    BY <1>2, <1>4, <2>1, <2>3, <2>4 DEF Async!Continue, Phases, Waits
  <2>6. QED
    BY <2>5 DEF AsyncStep, Async!Next
<1>5. ASSUME ResumeFailed(c), awaiting[c] # None, tstate[awaiting[c]] = "failed" PROVE AsyncStep
  <2>1. /\ cstat' = [cstat EXCEPT ![c] = "dropped"] /\ awaiting' = awaiting
        /\ IF cotask[c] # None THEN SettleTask(cotask[c], "failed") ELSE tstate' = tstate
    BY <1>5 DEF ResumeFailed
  <2>2. Phase(c)' = "over" /\ ~Waiting(c)' /\ Phase(c) = "waiting" /\ Waiting(c)
    BY <1>2, <1>5, <2>1 DEF Phase, Waiting
  <2>3. Phases' = [Phases EXCEPT ![c] = "over"] /\ Waits' = [Waits EXCEPT ![c] = None]
    BY <1>2, <2>1, <2>2, PhaseMoved
  <2>4. Phases[c] = "waiting" /\ Waits[c] = awaiting[c]
    BY <2>2 DEF Phases, Waits
  <2>5. Async!OwnedSettled(c, "failed")
    BY <2>1 DEF SettleTask, Async!OwnedSettled
  <2>6. Async!Abandon(c)
    BY <1>2, <1>5, <2>3, <2>4, <2>5 DEF Async!Abandon, Phases, Waits
  <2>7. QED
    BY <2>6 DEF AsyncStep, Async!Next
<1>6. QED
  BY <1>1, <1>2, <1>3, <1>4, <1>5 DEF ResumeNext, Settled

LEMMA AsyncNext == WakeInv /\ TaskInv /\ [Next]_vars => AsyncStep
<1> SUFFICES ASSUME WakeInv, TaskInv, [Next]_vars PROVE AsyncStep
  OBVIOUS
<1> USE NoneAssumption
<1>0. /\ TypeOK /\ CurLoaded /\ CurRunning /\ cur \in Cos \cup {None}
      /\ cotask \in [Cos -> Tasks \cup {None}] /\ Owners
  BY DEF WakeInv, TypeOK, TaskInv
<1>1. CASE PushWoken \/ TimersDone \/ PollKept \/ PollDone \/ NothingReady \/ CancelDone
  BY <1>1, AsyncStutter DEF PushWoken, TimersDone, PollKept, PollDone, NothingReady, CancelDone,
    taskVars, coVars
<1>2. CASE TryBegin \/ TryEnd \/ SyncCall \/ SyncReturn \/ (\E s \in Scopes : Cancel(s)) \/ UNCHANGED vars
  BY <1>2, AsyncStutter DEF TryBegin, TryEnd, SyncCall, SyncReturn, Cancel, vars, taskVars, coVars
<1>3. CASE FireTimer \/ PollResolved \/ CancelNext
  <2>1. \E t \in Tasks, o \in {"ready", "failed"} : SettleTask(t, o)
    <3>1. CASE FireTimer
      BY <1>0, <3>1 DEF FireTimer, TypeOK
    <3>2. CASE PollResolved
      BY <1>0, <3>2, PollTakes DEF PollResolved, JoinOutcome
    <3>3. CASE CancelNext
      BY <1>0, <3>3, HeadTailFacts DEF CancelNext, TypeOK
    <3>4. QED
      BY <1>3, <3>1, <3>2, <3>3
  <2>2. UNCHANGED <<cstat, awaiting, cotask>>
    BY <1>3 DEF FireTimer, PollResolved, CancelNext, coVars
  <2>3. QED
    BY <2>1, <2>2, AsyncSettle
<1>4. ASSUME NEW s \in Scopes \cup {None}, RunTask(s) PROVE AsyncStep
  <2>1. PICK t \in Tasks :
          \/ CreateTask(t, "failed", s) /\ UNCHANGED <<cstat, cotask>>
          \/ CreateTask(t, "pending", s) /\ \E c \in Cos : Spawn(c, t)
    BY <1>4 DEF RunTask
  <2>2. UNCHANGED awaiting
    BY <1>4 DEF RunTask
  <2>3. QED
    BY <2>1, <2>2, AsyncCreate, AsyncStart
<1>5. ASSUME NEW s \in Scopes \cup {None}, Delay(s) PROVE AsyncStep
  <2>1. \E t \in Tasks, o \in {"pending", "failed"} : CreateTask(t, o, s)
    BY <1>5 DEF Delay
  <2>2. QED
    BY <1>5, <2>1, AsyncCreate DEF Delay, coVars
<1>6. CASE Join \/ \E g \in Groups : GroupJoin(g)
  <2>1. \E t \in Tasks, o \in {"pending", "ready"}, s \in Scopes \cup {None} : CreateTask(t, o, s)
    BY <1>6 DEF Join, GroupJoin, NewJoin, Scopes
  <2>2. QED
    BY <1>6, <2>1, AsyncCreate DEF Join, GroupJoin, coVars
<1>7. CASE Throw \/ AwaitRaise
  <2>1. /\ cur \in Cos /\ cstat[cur] = "running" /\ Raise /\ UNCHANGED <<awaiting, cotask>>
    BY <1>0, <1>7 DEF Throw, AwaitRaise, At, CurLoaded, CurRunning
  <2>2. CASE tries[cur] > 0
    BY <2>1, <2>2, AsyncStutter DEF Raise
  <2>3. CASE ~(tries[cur] > 0)
    <3>1. /\ cstat' = [cstat EXCEPT ![cur] = "ended"]
          /\ IF cotask[cur] # None THEN SettleTask(cotask[cur], "failed") ELSE UNCHANGED tstate
      BY <2>1, <2>3 DEF Raise
    <3>2. QED
      BY <2>1, <3>1, AsyncEnd
  <2>4. QED
    BY <2>2, <2>3
<1>8. CASE Finish
  <2>1. /\ cur \in Cos /\ cstat[cur] = "running" /\ UNCHANGED <<awaiting, cotask>>
        /\ cotask[cur] # None /\ cstat' = [cstat EXCEPT ![cur] = "ended"]
        /\ \E o \in {"ready", "failed"} : SettleTask(cotask[cur], o)
    BY <1>0, <1>8 DEF Finish, At, CurLoaded, CurRunning
  <2>2. QED
    BY <2>1, AsyncEnd
<1>9. CASE Halt
  <2>1. /\ cur \in Cos /\ cstat[cur] = "running" /\ UNCHANGED <<awaiting, cotask, tstate>>
        /\ cotask[cur] = None /\ cstat' = [cstat EXCEPT ![cur] = "ended"]
    BY <1>0, <1>9 DEF Halt, At, CurLoaded, CurRunning, Owners, taskVars
  <2>2. QED
    BY <2>1, AsyncEnd
<1>10. QED
  BY <1>1, <1>2, <1>3, <1>4, <1>5, <1>6, <1>7, <1>8, <1>9, AsyncAwait, AsyncResume
  DEF Next, Loop, Poll, Resume, Slice, Exited, Scopes

\* The scheduler, with its queues, timers, joins and scopes, does nothing that
\* the language does not promise: it implements AsyncTasks.
THEOREM Implements == Spec => AsyncSpec
<1>1. WakeInv /\ TaskInv /\ [Next]_vars => [Async!Next]_(Async!vars)
  BY AsyncNext DEF AsyncStep
<1>2. QED
  BY <1>1, AsyncInit, TaskInvariant, PTL DEF Spec, AsyncSpec, Async!Spec
=============================================================================
