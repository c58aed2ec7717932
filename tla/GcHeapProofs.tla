--------------------------- MODULE GcHeapProofs ---------------------------
(***************************************************************************)
(* Proofs about GcHeap, for every number of objects and every set of tasks.*)
(***************************************************************************)
EXTENDS GcHeap, TLAPS

-----------------------------------------------------------------------------
(* Facts about reachability.                                               *)

LEMMA ReachContains ==
  ASSUME NEW roots \in SUBSET Objs, NEW rf, NEW opaque
  PROVE  roots \subseteq Reach(roots, rf, opaque) /\ Reach(roots, rf, opaque) \subseteq Objs
BY DEF Reach

\* What an object that is looked behind refers to is reachable as well.
LEMMA ReachClosed ==
  ASSUME NEW roots, NEW rf, NEW opaque,
         NEW o \in Reach(roots, rf, opaque) \ opaque, NEW p \in rf[o], p \in Objs
  PROVE  p \in Reach(roots, rf, opaque)
BY DEF Reach, Closed

LEMMA ReachLeast ==
  ASSUME NEW roots, NEW rf, NEW opaque, NEW S \in SUBSET Objs,
         roots \subseteq S, Closed(S, rf, opaque)
  PROVE  Reach(roots, rf, opaque) \subseteq S
BY DEF Reach

\* Reachability grows with the sets it is closed under.
LEMMA ReachMono ==
  ASSUME NEW r1, NEW f1, NEW o1, NEW r2, NEW f2, NEW o2,
         \A S \in SUBSET Objs : r2 \subseteq S /\ Closed(S, f2, o2)
                                => r1 \subseteq S /\ Closed(S, f1, o1)
  PROVE  Reach(r1, f1, o1) \subseteq Reach(r2, f2, o2)
BY DEF Reach

-----------------------------------------------------------------------------
(* Facts about the gc calls in progress.                                   *)

CallsOver(B) == [todo : SUBSET B, this : B \cup {NoObj}]

LEMMA CallsGrow ==
  ASSUME NEW B, NEW C, B \subseteq C, NEW q \in Seq(CallsOver(B))
  PROVE  q \in Seq(CallsOver(C))
<1>1. \A i \in 1..Len(q) : q[i] \in CallsOver(C)
  <2> SUFFICES ASSUME NEW i \in 1..Len(q) PROVE q[i] \in CallsOver(C)
    OBVIOUS
  <2>1. q[i] \in CallsOver(B)
    OBVIOUS
  <2> QED
    BY <2>1 DEF CallsOver
<1> QED
  BY <1>1

LEMMA SetLast ==
  ASSUME NEW S, NEW q \in Seq(S), q # <<>>, NEW c \in S
  PROVE  LET r == [q EXCEPT ![Len(q)] = c] IN
         /\ r \in Seq(S) /\ Len(r) = Len(q) /\ r[Len(q)] = c
         /\ \A i \in 1..Len(q) : i # Len(q) => r[i] = q[i]
OBVIOUS

LEMMA FrontOf ==
  ASSUME NEW S, NEW q \in Seq(S), q # <<>>
  PROVE  LET r == SubSeq(q, 1, Len(q) - 1) IN
         /\ r \in Seq(S) /\ Len(r) = Len(q) - 1
         /\ \A i \in 1..(Len(q) - 1) : r[i] = q[i]
OBVIOUS

LEMMA LastCall ==
  ASSUME TypeOK, calls # <<>>
  PROVE  /\ Len(calls) \in 1..Len(calls)
         /\ Top \in GcCall /\ Top.todo \subseteq boxes /\ Top.this \in boxes \cup {NoObj}
<1>1. Len(calls) \in 1..Len(calls) /\ Top \in GcCall
  BY DEF TypeOK, Top
<1> QED
  BY <1>1 DEF GcCall

LEMMA RunningBoxes ==
  ASSUME TypeOK
  PROVE  Running \subseteq boxes
<1> SUFFICES ASSUME NEW i \in 1..Len(calls) PROVE calls[i].this \in boxes \cup {NoObj}
  BY DEF Running
<1>1. calls[i] \in GcCall
  BY DEF TypeOK
<1> QED
  BY <1>1 DEF GcCall

LEMMA RootsBorn ==
  ASSUME TypeOK
  PROVE  /\ Roots \subseteq 1..born /\ Live \subseteq 1..born
         /\ 1..born \subseteq Objs
<1>1. Running \subseteq 1..born
  BY RunningBoxes DEF TypeOK
<1>2. \A t \in Tasks : result[t] \in (0..born) \cup {Plain, Failed}
  BY DEF TypeOK
<1>3. \A T \in SUBSET Tasks : Results(T) \subseteq 1..born
  BY <1>2, BoundsAssumption DEF TypeOK, Results, Objs, Plain, Failed
<1>4. 1..born \subseteq Objs
  BY BoundsAssumption DEF TypeOK, Objs
<1>5. Wanted \subseteq Tasks /\ handles \subseteq Tasks
  BY DEF Wanted, TypeOK
<1> QED
  BY <1>1, <1>3, <1>4, <1>5 DEF TypeOK, Roots, Live

\* A result that is an object is among those of its task's holders.
LEMMA ResultsBorn ==
  ASSUME TypeOK, NEW T \in SUBSET Tasks
  PROVE  Results(T) \subseteq 1..born
<1>1. \A t \in Tasks : result[t] \in (0..born) \cup {Plain, Failed}
  BY DEF TypeOK
<1> QED
  BY <1>1, BoundsAssumption DEF TypeOK, Results, Objs, Plain, Failed

-----------------------------------------------------------------------------
(* Facts about tasks and joins.                                            *)

\* Freed tasks have no result, the others the one they are given.
LEMMA SettleFacts ==
  ASSUME NEW res, Settle(res)
  PROVE  /\ \A t \in Tasks : result'[t] = res[t] \/ result'[t] = NoObj
         /\ \A t \in Tasks \ Referenced' : result'[t] = NoObj
         /\ \A V : NoObj \in V /\ (\A t \in Tasks : res[t] \in V) => result' \in [Tasks -> V]
BY DEF Settle, Referenced

LEMMA SettleType ==
  ASSUME TypeOK, Settle(result)
  PROVE  result' \in [Tasks -> (0..born) \cup {Plain, Failed}]
<1> DEFINE V == (0..born) \cup {Plain, Failed}
<1>1. NoObj \in V /\ \A t \in Tasks : result[t] \in V
  BY DEF TypeOK, NoObj
<1> HIDE DEF V
<1>2. result' \in [Tasks -> V]
  BY <1>1 DEF Settle
<1> QED
  BY <1>2 DEF V

LEMMA JoinParts ==
  ASSUME TypeOK, NEW j \in joins
  PROVE  j \in Join /\ j.outer \in Tasks /\ j.tasks \in SUBSET Tasks
<1>1. j \in Join
  BY DEF TypeOK
<1> QED
  BY <1>1 DEF Join

-----------------------------------------------------------------------------
(* Type correctness.                                                       *)

LEMMA TypeInit == Init => TypeOK
<1> SUFFICES ASSUME Init PROVE TypeOK
  OBVIOUS
<1>1. calls \in Seq(GcCall)
  BY DEF Init
<1> QED
  BY <1>1, BoundsAssumption DEF Init, TypeOK, NoObj

\* A decided join gives its outer task the outcome of a member or an array of them all.
LEMMA PollType ==
  ASSUME TypeOK, NEW j \in joins, PollJoin(j)
  PROVE  TypeOK'
<1> DEFINE V == (0..born') \cup {Plain, Failed}
<1>1. /\ j \in Join /\ j.outer \in Tasks /\ j.tasks \in SUBSET Tasks
      /\ UNCHANGED <<boxes, stale, finalized, held, native, calls>>
      /\ result \in [Tasks -> (0..born) \cup {Plain, Failed}]
  BY JoinParts DEF PollJoin, TypeOK
<1>2. \A v : SettleOuter(j, v) =>
         /\ joins' = joins \ {j} /\ UNCHANGED <<handles, awaiting>>
         /\ (v \in V /\ born' \in Nat /\ born <= born' => result' \in [Tasks -> V])
  <2> SUFFICES ASSUME NEW v, SettleOuter(j, v), v \in V, born' \in Nat, born <= born'
               PROVE result' \in [Tasks -> V]
    BY DEF SettleOuter
  <2> DEFINE res == IF result[j.outer] = NoObj THEN [result EXCEPT ![j.outer] = v] ELSE result
  <2>1. 0..born \subseteq 0..born' /\ NoObj \in V
    BY BoundsAssumption DEF TypeOK, NoObj
  <2>2. \A t \in Tasks : res[t] \in V
    BY <1>1, <2>1
  <2>3. Settle(res)
    BY DEF SettleOuter
  <2> HIDE DEF res, V
  <2> QED
    BY <2>1, <2>2, <2>3, SettleFacts
<1>3. (calls \in Seq(GcCall))'
  BY <1>1 DEF TypeOK, GcCall
<1>4. CASE PollAny(j) \/ PollFailed(j)
  <2>1. UNCHANGED <<born, tracked, refs>>
    BY <1>4 DEF PollAny, PollFailed
  <2>2. PICK v \in {Plain, Failed} \cup {result[t] : t \in j.tasks} : SettleOuter(j, v)
    BY <1>4 DEF PollAny, PollFailed
  <2>3. v \in V /\ born' \in Nat /\ born <= born'
    BY <1>1, <2>1, BoundsAssumption DEF TypeOK
  <2> HIDE DEF V
  <2>4. joins' = joins \ {j} /\ UNCHANGED <<handles, awaiting>> /\ result' \in [Tasks -> V]
    BY <1>2, <2>2, <2>3
  <2> QED
    BY <1>1, <1>3, <2>1, <2>4 DEF TypeOK, V, Join
<1>5. CASE PollAll(j)
  <2> DEFINE o == born + 1
  <2>1. /\ o \in Objs /\ born' = o /\ tracked' = tracked \cup {o}
        /\ refs' = [refs EXCEPT ![o] = Results(j.tasks)]
        /\ SettleOuter(j, o)
    BY <1>5 DEF PollAll
  <2>2. o \in 1..MaxObj /\ 1..o = (1..born) \cup {o} /\ 0..born \subseteq 0..o /\ o \notin 1..born
    BY <2>1, BoundsAssumption DEF Objs, TypeOK
  <2>3. o \in V /\ born' \in Nat /\ born <= born'
    BY <2>1, <2>2, BoundsAssumption DEF TypeOK
  <2>4. Results(j.tasks) \subseteq 1..born
    BY <1>1, ResultsBorn
  <2> HIDE DEF V, o
  <2>5. joins' = joins \ {j} /\ UNCHANGED <<handles, awaiting>> /\ result' \in [Tasks -> V]
    BY <1>2, <2>1, <2>3
  <2>6. refs' \in [Objs -> SUBSET (1..o)]
    BY <2>1, <2>2, <2>4 DEF TypeOK
  <2> QED
    BY <1>1, <1>3, <2>1, <2>2, <2>5, <2>6 DEF TypeOK, V, Join
<1> QED
  BY <1>4, <1>5 DEF PollJoin

\* A sweep keeps the heap's own variables in their types.
LEMMA SweepType ==
  ASSUME TypeOK, NEW n \in 0..MaxObj, born \in 0..n,
         NEW T \in SUBSET (1..n), T \cap stale = {},
         NEW rf \in [Objs -> SUBSET (1..n)], NEW roots \in SUBSET (1..n),
         boxes' = boxes, Sweep(T, rf, roots)
  PROVE  /\ tracked' \subseteq 1..n
         /\ stale' \subseteq (1..n) \ tracked'
         /\ refs' \in [Objs -> SUBSET (1..n)]
         /\ calls' \in Seq(GcCall)'
<1> DEFINE M == Marks(rf, roots)
<1>1. M \subseteq 1..n
  <2>1. 1..n \subseteq Objs
    BY BoundsAssumption DEF Objs
  <2>2. Closed(1..n, rf, stale)
    BY <2>1 DEF Closed
  <2> QED
    BY <2>1, <2>2, ReachLeast DEF Marks
<1>2. stale \subseteq 1..n
  BY DEF TypeOK
<1>3. /\ tracked' = T \cap M
      /\ stale' = stale \cup (M \ T)
      /\ refs' = [o \in Objs |-> IF o \in T \ M THEN {} ELSE rf[o]]
      /\ calls' = Append(calls, [todo |-> ((T \ M) \cap boxes) \ finalized, this |-> NoObj])
  BY DEF Sweep
<1> HIDE DEF M
<1>4. [todo |-> ((T \ M) \cap boxes) \ finalized, this |-> NoObj] \in GcCall
  BY DEF GcCall
<1>5. calls' \in Seq(GcCall)
  BY <1>3, <1>4 DEF TypeOK
<1>6. GcCall' = GcCall
  BY DEF GcCall
<1>7. refs' \in [Objs -> SUBSET (1..n)]
  BY <1>3
<1> QED
  BY <1>1, <1>2, <1>3, <1>5, <1>6, <1>7

LEMMA TypeNext == TypeOK /\ [Next]_vars => TypeOK'
<1> SUFFICES ASSUME TypeOK, [Next]_vars PROVE TypeOK'
  OBVIOUS
<1>0. ASSUME UNCHANGED <<boxes, calls>> PROVE (calls \in Seq(GcCall))'
  BY <1>0 DEF TypeOK, GcCall
<1>b. /\ Roots \subseteq 1..born /\ 1..born \subseteq Objs
      /\ born \in Nat /\ MaxObj \in Nat
  BY RootsBorn, BoundsAssumption DEF TypeOK
<1>1. CASE Collect
  <2>1. Sweep(tracked, refs, Roots) /\ boxes' = boxes
    BY <1>1 DEF Collect
  <2>2. /\ tracked \cap stale = {} /\ tracked \in SUBSET (1..born)
        /\ refs \in [Objs -> SUBSET (1..born)] /\ Roots \in SUBSET (1..born)
        /\ born \in 0..MaxObj /\ born \in 0..born
    BY <1>b DEF TypeOK
  <2>3. /\ tracked' \subseteq 1..born /\ stale' \subseteq (1..born) \ tracked'
        /\ refs' \in [Objs -> SUBSET (1..born)] /\ (calls \in Seq(GcCall))'
    BY <2>1, <2>2, SweepType
  <2> QED
    BY <1>1, <2>3 DEF Collect, TypeOK
<1>2. CASE StartFinalizer
  <2>0. PICK o \in Top.todo :
         /\ finalized' = finalized \cup {o}
         /\ calls' = [calls EXCEPT ![Len(calls)] = [todo |-> @.todo \ {o}, this |-> o]]
    BY <1>2 DEF StartFinalizer
  <2>1. calls # <<>> /\ boxes' = boxes
    BY <1>2 DEF StartFinalizer
  <2>2. Top.todo \subseteq boxes
    BY <2>1, LastCall
  <2> DEFINE c == [todo |-> Top.todo \ {o}, this |-> o]
  <2>3. c \in GcCall
    BY <2>0, <2>2 DEF GcCall
  <2>4. calls' = [calls EXCEPT ![Len(calls)] = c]
    BY <2>0 DEF Top
  <2> HIDE DEF c
  <2>5. (calls \in Seq(GcCall))'
    <3>1. calls' \in Seq(GcCall)
      BY <2>1, <2>3, <2>4, SetLast DEF TypeOK
    <3>2. GcCall' = GcCall
      BY <2>1 DEF GcCall
    <3> QED
      BY <3>1, <3>2
  <2> QED
    BY <1>2, <2>0, <2>2, <2>5 DEF StartFinalizer, TypeOK
<1>3. CASE EndFinalizer
  <2>1. calls # <<>> /\ boxes' = boxes
    BY <1>3 DEF EndFinalizer
  <2>2. Top.todo \subseteq boxes /\ Len(calls) \in 1..Len(calls) /\ Top \in GcCall
    BY <2>1, LastCall
  <2> DEFINE c == [Top EXCEPT !.this = NoObj]
  <2>3. c \in GcCall
    BY <2>2 DEF GcCall
  <2>4. calls' = [calls EXCEPT ![Len(calls)] = c]
    BY <1>3 DEF EndFinalizer, Top
  <2> HIDE DEF c
  <2>5. (calls \in Seq(GcCall))'
    <3>1. calls' \in Seq(GcCall)
      BY <2>1, <2>3, <2>4, SetLast DEF TypeOK
    <3>2. GcCall' = GcCall
      BY <2>1 DEF GcCall
    <3> QED
      BY <3>1, <3>2
  <2> QED
    BY <1>3, <2>5 DEF EndFinalizer, TypeOK
<1>4. CASE FinalizersDone
  <2>1. (calls \in Seq(GcCall))'
    <3>1. calls # <<>> /\ boxes' = boxes /\ calls' = SubSeq(calls, 1, Len(calls) - 1)
      BY <1>4 DEF FinalizersDone
    <3>2. calls' \in Seq(GcCall)
      BY <3>1 DEF TypeOK
    <3> QED
      BY <3>1, <3>2 DEF GcCall
  <2> QED
    BY <1>4, <2>1 DEF FinalizersDone, TypeOK
<1>5. ASSUME NEW items \in SUBSET held, NewArray(items) PROVE TypeOK'
  <2> DEFINE o == born + 1
             rf == [refs EXCEPT ![o] = items]
  <2>1. /\ o \in Objs /\ born' = o /\ held' = held \cup {o} /\ boxes' = boxes
        /\ UNCHANGED <<finalized, handles, result, awaiting, joins, native>>
    BY <1>5 DEF NewArray
  <2>2. o \in 1..MaxObj /\ 1..o = (1..born) \cup {o} /\ 0..born \subseteq 0..o /\ o \notin 1..born
    BY <2>1, <1>b DEF Objs
  <2>3. rf \in [Objs -> SUBSET (1..o)]
    BY <2>1, <2>2 DEF TypeOK
  <2>4. /\ tracked \cup {o} \in SUBSET (1..o) /\ (tracked \cup {o}) \cap stale = {}
        /\ Roots \cup {o} \in SUBSET (1..o) /\ o \in 0..MaxObj /\ born \in 0..o
    BY <2>2, <1>b DEF TypeOK
  <2>5. \/ /\ tracked' = tracked \cup {o} /\ refs' = rf /\ stale' = stale
           /\ calls' = calls
        \/ Sweep(tracked \cup {o}, rf, Roots \cup {o})
    BY <1>5 DEF NewArray
  <2> HIDE DEF o, rf
  <2>6. /\ tracked' \subseteq 1..o /\ stale' \subseteq (1..o) \ tracked'
        /\ refs' \in [Objs -> SUBSET (1..o)] /\ (calls \in Seq(GcCall))'
    <3>1. CASE Sweep(tracked \cup {o}, rf, Roots \cup {o})
      BY <3>1, <2>1, <2>3, <2>4, SweepType
    <3>2. CASE /\ tracked' = tracked \cup {o} /\ refs' = rf /\ stale' = stale
               /\ calls' = calls
      <4>1. (calls \in Seq(GcCall))'
        BY <3>2, <2>1, <1>0
      <4> QED
        BY <3>2, <4>1, <2>2, <2>3, <2>4 DEF TypeOK
    <3> QED
      BY <2>5, <3>1, <3>2
  <2> QED
    BY <2>1, <2>2, <2>6 DEF TypeOK
<1>6. CASE NewBox
  <2> DEFINE o == born + 1
  <2>1. /\ o \in Objs /\ born' = o /\ held' = held \cup {o} /\ boxes' = boxes \cup {o}
        /\ tracked' = tracked \cup {o}
        /\ UNCHANGED <<stale, finalized, refs, handles, result, awaiting, joins, native, calls>>
    BY <1>6 DEF NewBox
  <2>2. o \in 1..MaxObj /\ 1..o = (1..born) \cup {o} /\ 0..born \subseteq 0..o /\ o \notin 1..born
    BY <2>1, <1>b DEF Objs
  <2> HIDE DEF o
  <2>3. calls \in Seq(CallsOver(boxes'))
    BY <2>1, CallsGrow DEF TypeOK, GcCall, CallsOver
  <2>4. (calls \in Seq(GcCall))'
    BY <2>1, <2>3 DEF GcCall, CallsOver
  <2> QED
    BY <2>1, <2>2, <2>4 DEF TypeOK
<1>7. ASSUME NEW o \in Objs, Drop(o) PROVE TypeOK'
  BY <1>7, <1>0 DEF Drop, TypeOK
<1>8. ASSUME NEW o \in Objs, Get(o) PROVE TypeOK'
  <2>1. InHand \subseteq 1..born
    BY RunningBoxes DEF TypeOK, InHand
  <2>2. \A p \in InHand : refs[p] \subseteq 1..born
    BY <2>1, <1>b DEF TypeOK
  <2> QED
    BY <1>8, <1>0, <2>1, <2>2 DEF Get, TypeOK
<1>9. ASSUME NEW p \in Objs, NEW o \in Objs, Put(p, o) PROVE TypeOK'
  <2>1. InHand \subseteq 1..born
    BY RunningBoxes DEF TypeOK, InHand
  <2> QED
    BY <1>9, <1>0, <2>1 DEF Put, TypeOK
<1>10. ASSUME NEW p \in Objs, NEW o \in Objs, Remove(p, o) PROVE TypeOK'
  BY <1>10, <1>0 DEF Remove, TypeOK
<1>11. ASSUME NEW o \in Objs, NativeHold(o) PROVE TypeOK'
  BY <1>11, <1>0 DEF NativeHold, TypeOK
<1>12. CASE NativeReturn
  BY <1>12, <1>0 DEF NativeReturn, TypeOK
<1>13. ASSUME NEW t \in Tasks, Spawn(t) PROVE TypeOK'
  BY <1>13, <1>0 DEF Spawn, TypeOK
<1>14. ASSUME NEW t \in Tasks, DropHandle(t) PROVE TypeOK'
  <2>1. result' \in [Tasks -> (0..born) \cup {Plain, Failed}]
    BY <1>14, SettleType DEF DropHandle
  <2> QED
    BY <1>14, <1>0, <2>1 DEF DropHandle, TypeOK, Join
<1>15. ASSUME NEW t \in Tasks, NEW v, Complete(t, v) PROVE TypeOK'
  BY <1>15, <1>0 DEF Complete, TypeOK, Join
<1>16. ASSUME NEW t \in Tasks, Park(t) PROVE TypeOK'
  BY <1>16, <1>0 DEF Park, TypeOK, Join
<1>17. ASSUME NEW t \in Tasks, Resume(t) PROVE TypeOK'
  <2>1. Results({t}) \subseteq 1..born
    BY ResultsBorn
  <2>2. result' \in [Tasks -> (0..born) \cup {Plain, Failed}]
    BY <1>17, SettleType DEF Resume
  <2> QED
    BY <1>17, <1>0, <2>1, <2>2 DEF Resume, TypeOK, Join
<1>19. ASSUME NEW t \in Tasks, Cancel(t) PROVE TypeOK'
  BY <1>19, <1>0 DEF Cancel, TypeOK, Join
<1>20. ASSUME NEW t \in Tasks, NEW T \in SUBSET Tasks, NEW any \in BOOLEAN, CreateJoin(t, T, any)
       PROVE  TypeOK'
  BY <1>20, <1>0 DEF CreateJoin, TypeOK, Join
<1>22. ASSUME NEW t \in Tasks, AwaitSettled(t) PROVE TypeOK'
  <2>1. result[t] \in 1..born
    BY <1>22, BoundsAssumption DEF AwaitSettled, TypeOK, Objs, Plain, Failed
  <2> QED
    BY <1>22, <1>0, <2>1 DEF AwaitSettled, TypeOK, Join
<1>21. ASSUME NEW j \in joins, PollJoin(j) PROVE TypeOK'
  BY <1>21, PollType
<1>18. CASE UNCHANGED vars
  BY <1>18, <1>0 DEF vars, TypeOK
<1> QED
  BY <1>1, <1>2, <1>3, <1>4, <1>5, <1>6, <1>7, <1>8, <1>9, <1>10, <1>11, <1>12,
     <1>13, <1>14, <1>15, <1>16, <1>17, <1>18, <1>19, <1>20, <1>21, <1>22 DEF Next

(* Every variable keeps its type, whatever the program lets go of: no      *)
(* object is referred to that was not allocated, swept objects keep out of *)
(* the tracked set, and only boxes are handed to a destructor.             *)
THEOREM HeapTypeCorrect == Spec => []TypeOK
<1>1. Init => TypeOK
  BY TypeInit
<1>2. TypeOK /\ [Next]_vars => TypeOK'
  BY TypeNext
<1> QED
  BY <1>1, <1>2, PTL DEF Spec

-----------------------------------------------------------------------------
(***************************************************************************)
(* Nothing live is swept, for programs that let go of nothing the runtime  *)
(* alone still holds.                                                      *)
(***************************************************************************)

(* The strengthening that is inductive: every place that keeps an object   *)
(* keeps tracked ones only, whatever a native function, an awaited or a    *)
(* joined task holds is held by a root as well, a task no one refers to is *)
(* freed, tracked objects refer to tracked ones, and swept objects are     *)
(* empty.                                                                  *)
Kept ==
  /\ held \subseteq tracked
  /\ native \subseteq held
  /\ awaiting \subseteq handles
  /\ \A j \in joins : j.tasks \subseteq handles
  /\ \A t \in Tasks \ Referenced : result[t] = NoObj
  /\ Results(handles) \subseteq tracked
  /\ \A o \in tracked : refs[o] \subseteq tracked
  /\ \A o \in Objs \ tracked : refs[o] = {}

LEMMA KeptInit == Init => Kept
<1> SUFFICES ASSUME Init PROVE Kept
  OBVIOUS
<1>1. Results(handles) = {} /\ \A t \in Tasks : result[t] = NoObj
  BY DEF Init, Results
<1> QED
  BY <1>1 DEF Init, Kept

\* What a sweep leaves tracked is closed, contains the roots, and all the rest is empty.
LEMMA SweepKeeps ==
  ASSUME NEW T \in SUBSET Objs, T \cap stale = {},
         NEW rf \in [Objs -> SUBSET Objs],
         \A o \in T : rf[o] \subseteq T,
         \A o \in Objs \ T : rf[o] = {},
         NEW roots \in SUBSET Objs, Sweep(T, rf, roots)
  PROVE  /\ roots \cap T \subseteq tracked'
         /\ \A o \in tracked' : refs'[o] \subseteq tracked'
         /\ \A o \in Objs \ tracked' : refs'[o] = {}
<1> DEFINE M == Reach(roots, rf, stale)
<1>1. /\ tracked' = T \cap M
      /\ refs' = [o \in Objs |-> IF o \in T \ M THEN {} ELSE rf[o]]
  BY DEF Sweep, Marks
<1>2. roots \subseteq M
  BY ReachContains
<1>3. ASSUME NEW o \in M \ stale PROVE rf[o] \subseteq M
  <2>1. o \in Objs
    BY ReachContains
  <2> QED
    BY <1>3, <2>1, ReachClosed
<1> HIDE DEF M
<1>4. ASSUME NEW o \in tracked' PROVE refs'[o] \subseteq tracked'
  <2>1. o \in T /\ o \in M \ stale /\ refs'[o] = rf[o]
    BY <1>1, <1>4
  <2> QED
    BY <1>1, <1>3, <2>1
<1>5. ASSUME NEW o \in Objs \ tracked' PROVE refs'[o] = {}
  BY <1>1, <1>5
<1> QED
  BY <1>1, <1>2, <1>4, <1>5

\* The tasks whose outcome the program may still be handed are tasks it has.
LEMMA WantedKept ==
  ASSUME TypeOK, Kept
  PROVE  Wanted \subseteq handles
<1>1. handles \in SUBSET Tasks /\ handles \cup awaiting \subseteq handles
  BY DEF TypeOK, Kept
<1>2. \A j \in joins : j.tasks \subseteq handles
  BY DEF Kept
<1> QED
  BY <1>1, <1>2 DEF Wanted

LEMMA LiveIsRoots ==
  ASSUME TypeOK, Kept
  PROVE  Live = Roots
<1>1. Results(Wanted) \subseteq Results(handles)
  BY WantedKept DEF Results
<1> QED
  BY <1>1 DEF Live, Roots, Kept

\* The results of a step that only frees tasks are among those of before.
LEMMA FreeKeeps ==
  ASSUME TypeOK, Settle(result), handles' \subseteq handles
  PROVE  /\ Results(handles)' \subseteq Results(handles)
         /\ \A t \in Tasks \ Referenced' : result'[t] = NoObj
<1>1. /\ \A t \in Tasks : result'[t] = result[t] \/ result'[t] = NoObj
      /\ \A t \in Tasks \ Referenced' : result'[t] = NoObj
  BY SettleFacts
<1> QED
  BY <1>1 DEF Results, TypeOK, Objs, NoObj

LEMMA PollKeeps ==
  ASSUME TypeOK, Kept, NEW j \in joins, PollJoin(j)
  PROVE  Kept'
<1>1. /\ j.outer \in Tasks /\ j.tasks \in SUBSET Tasks /\ j.tasks \subseteq handles
      /\ UNCHANGED <<boxes, stale, finalized, held, native, calls>>
  BY JoinParts DEF PollJoin, Kept
<1>2. Results(j.tasks) \subseteq tracked
  BY <1>1 DEF Kept, Results
<1>3. ASSUME NEW v, SettleOuter(j, v)
      PROVE  /\ joins' \subseteq joins /\ UNCHANGED <<handles, awaiting>>
             /\ \A t \in Tasks \ Referenced' : result'[t] = NoObj
             /\ Results(handles)' \subseteq Results(handles) \cup ({v} \cap Objs)
  <2> DEFINE res == IF result[j.outer] = NoObj THEN [result EXCEPT ![j.outer] = v] ELSE result
  <2>1. Settle(res) /\ joins' = joins \ {j} /\ UNCHANGED <<handles, awaiting>>
    BY <1>3 DEF SettleOuter
  <2>2. \A t \in Tasks : res[t] = result[t] \/ res[t] = v
    BY <1>1 DEF TypeOK
  <2> HIDE DEF res
  <2>3. /\ \A t \in Tasks : result'[t] = res[t] \/ result'[t] = NoObj
        /\ \A t \in Tasks \ Referenced' : result'[t] = NoObj
    BY <2>1, SettleFacts
  <2> QED
    BY <2>1, <2>2, <2>3 DEF Results, TypeOK, Objs, NoObj
<1>4. CASE PollAny(j) \/ PollFailed(j)
  <2>1. UNCHANGED <<born, tracked, refs>>
    BY <1>4 DEF PollAny, PollFailed
  <2>2. PICK v \in {Plain, Failed} \cup {result[t] : t \in j.tasks} : SettleOuter(j, v)
    BY <1>4 DEF PollAny, PollFailed
  <2>3. {v} \cap Objs \subseteq tracked
    BY <1>2, <2>2, BoundsAssumption DEF Results, Plain, Failed, Objs
  <2>4. /\ joins' \subseteq joins /\ UNCHANGED <<handles, awaiting>>
        /\ \A t \in Tasks \ Referenced' : result'[t] = NoObj
        /\ Results(handles)' \subseteq Results(handles) \cup ({v} \cap Objs)
    BY <1>3, <2>2
  <2> QED
    BY <1>1, <2>1, <2>3, <2>4 DEF Kept
<1>5. CASE PollAll(j)
  <2> DEFINE o == born + 1
  <2>1. /\ o \in Objs /\ tracked' = tracked \cup {o}
        /\ refs' = [refs EXCEPT ![o] = Results(j.tasks)]
        /\ SettleOuter(j, o)
    BY <1>5 DEF PollAll
  <2> HIDE DEF o
  <2>2. /\ joins' \subseteq joins /\ UNCHANGED <<handles, awaiting>>
        /\ \A t \in Tasks \ Referenced' : result'[t] = NoObj
        /\ Results(handles)' \subseteq Results(handles) \cup ({o} \cap Objs)
    BY <1>3, <2>1
  <2>3. refs \in [Objs -> SUBSET Objs]
    BY RootsBorn DEF TypeOK
  <2>4. /\ \A x \in tracked' : refs'[x] \subseteq tracked'
        /\ \A x \in Objs \ tracked' : refs'[x] = {}
    BY <1>2, <2>1, <2>3 DEF Kept, TypeOK
  <2> QED
    BY <1>1, <2>1, <2>2, <2>4 DEF Kept
<1> QED
  BY <1>4, <1>5 DEF PollJoin

LEMMA KeptNext ==
  ASSUME LetsGo = {}, TypeOK, Kept, [Next]_vars
  PROVE  Kept'
<1>a. /\ Roots \subseteq 1..born /\ 1..born \subseteq Objs /\ born \in Nat
      /\ tracked \subseteq 1..born /\ tracked \cap stale = {}
      /\ refs \in [Objs -> SUBSET Objs]
  BY RootsBorn DEF TypeOK
<1>b. InHand = held
  BY DEF InHand
<1>c. held \cup Results(handles) \subseteq Roots
  BY DEF Roots
<1>1. CASE Collect
  <2>1. /\ Sweep(tracked, refs, Roots) /\ tracked \in SUBSET Objs /\ Roots \in SUBSET Objs
        /\ UNCHANGED <<held, native, awaiting, joins, handles, result>>
    BY <1>1, <1>a DEF Collect
  <2>2. /\ Roots \cap tracked \subseteq tracked'
        /\ \A o \in tracked' : refs'[o] \subseteq tracked'
        /\ \A o \in Objs \ tracked' : refs'[o] = {}
    BY <2>1, <1>a, SweepKeeps DEF Kept
  <2>3. Results(handles)' = Results(handles) /\ Referenced' = Referenced
    BY <2>1 DEF Results, Referenced
  <2> QED
    BY <2>1, <2>2, <2>3, <1>c DEF Kept
<1>2. CASE StartFinalizer
  BY <1>2 DEF StartFinalizer, Kept, Results, Referenced
<1>3. CASE EndFinalizer
  BY <1>3 DEF EndFinalizer, Kept, Results, Referenced
<1>4. CASE FinalizersDone
  BY <1>4 DEF FinalizersDone, Kept, Results, Referenced
<1>5. ASSUME NEW items \in SUBSET held, NewArray(items) PROVE Kept'
  <2> DEFINE o == born + 1
             rf == [refs EXCEPT ![o] = items]
  <2>1. /\ o \in Objs /\ held' = held \cup {o}
        /\ UNCHANGED <<handles, result, awaiting, joins, native>>
    BY <1>5 DEF NewArray
  <2>2. o \notin 1..born
    BY <1>a
  <2>3. \/ tracked' = tracked \cup {o} /\ refs' = rf
        \/ Sweep(tracked \cup {o}, rf, Roots \cup {o})
    BY <1>5 DEF NewArray
  <2>4. /\ rf \in [Objs -> SUBSET Objs] /\ tracked \cup {o} \in SUBSET Objs
        /\ Roots \cup {o} \in SUBSET Objs /\ (tracked \cup {o}) \cap stale = {}
    BY <2>1, <2>2, <1>a DEF TypeOK
  <2>5. /\ \A x \in tracked \cup {o} : rf[x] \subseteq tracked \cup {o}
        /\ \A x \in Objs \ (tracked \cup {o}) : rf[x] = {}
    BY <2>1, <1>a DEF Kept
  <2>6. Results(handles)' = Results(handles) /\ Referenced' = Referenced
    BY <2>1 DEF Results, Referenced
  <2> HIDE DEF o, rf
  <2>7. CASE tracked' = tracked \cup {o} /\ refs' = rf
    BY <2>7, <2>1, <2>5, <2>6 DEF Kept
  <2>8. CASE Sweep(tracked \cup {o}, rf, Roots \cup {o})
    <3>1. /\ (Roots \cup {o}) \cap (tracked \cup {o}) \subseteq tracked'
          /\ \A x \in tracked' : refs'[x] \subseteq tracked'
          /\ \A x \in Objs \ tracked' : refs'[x] = {}
      BY <2>4, <2>5, <2>8, SweepKeeps
    <3> QED
      BY <3>1, <2>1, <2>6, <1>c DEF Kept
  <2> QED
    BY <2>3, <2>7, <2>8
<1>6. CASE NewBox
  <2>1. \A x \in tracked : refs[x] \subseteq tracked
    BY DEF Kept
  <2>2. born + 1 \in Objs /\ born + 1 \notin tracked
    BY <1>6, <1>a DEF NewBox
  <2>3. refs[born + 1] = {}
    BY <2>2 DEF Kept
  <2> QED
    BY <1>6, <2>1, <2>2, <2>3 DEF NewBox, Kept, Results, Referenced
<1>7. ASSUME NEW o \in Objs, Drop(o) PROVE Kept'
  BY <1>7 DEF Drop, Kept, Results, Referenced
<1>8. ASSUME NEW o \in Objs, Get(o) PROVE Kept'
  <2>1. o \in tracked
    BY <1>8, <1>b DEF Get, Kept
  <2> QED
    BY <1>8, <2>1 DEF Get, Kept, Results, Referenced
<1>9. ASSUME NEW p \in Objs, NEW o \in Objs, Put(p, o) PROVE Kept'
  <2>1. p \in tracked /\ o \in tracked
    BY <1>9, <1>b DEF Put, Kept
  <2>2. refs' = [refs EXCEPT ![p] = refs[p] \cup {o}] /\ tracked' = tracked
    BY <1>9 DEF Put
  <2>3. /\ \A x \in tracked' : refs'[x] \subseteq tracked'
        /\ \A x \in Objs \ tracked' : refs'[x] = {}
    BY <2>1, <2>2, <1>a DEF Kept
  <2> QED
    BY <1>9, <2>3 DEF Put, Kept, Results, Referenced
<1>10. ASSUME NEW p \in Objs, NEW o \in Objs, Remove(p, o) PROVE Kept'
  <2>1. refs' = [refs EXCEPT ![p] = refs[p] \ {o}] /\ tracked' = tracked
    BY <1>10 DEF Remove
  <2>2. /\ \A x \in tracked' : refs'[x] \subseteq tracked'
        /\ \A x \in Objs \ tracked' : refs'[x] = {}
    BY <2>1, <1>a DEF Kept
  <2> QED
    BY <1>10, <2>2 DEF Remove, Kept, Results, Referenced
<1>11. ASSUME NEW o \in Objs, NativeHold(o) PROVE Kept'
  BY <1>11 DEF NativeHold, Kept, Results, Referenced
<1>12. CASE NativeReturn
  BY <1>12 DEF NativeReturn, Kept, Results, Referenced
<1>13. ASSUME NEW t \in Tasks, Spawn(t) PROVE Kept'
  <2>1. result[t] = NoObj
    BY <1>13 DEF Spawn, Kept
  <2> QED
    BY <1>13, <2>1 DEF Spawn, Kept, Results, Referenced, Objs, NoObj
<1>14. ASSUME NEW t \in Tasks, DropHandle(t) PROVE Kept'
  <2>1. /\ t \notin awaiting /\ t \notin Members(joins) /\ handles' = handles \ {t}
        /\ Settle(result)
        /\ UNCHANGED <<born, tracked, refs, held, awaiting, joins, native>>
    BY <1>14 DEF DropHandle
  <2>2. \A j \in joins : j.tasks \subseteq handles'
    BY <2>1 DEF Kept, Members
  <2>3. /\ Results(handles)' \subseteq Results(handles)
        /\ \A u \in Tasks \ Referenced' : result'[u] = NoObj
    BY <2>1, FreeKeeps
  <2> QED
    BY <2>1, <2>2, <2>3 DEF Kept
<1>15. ASSUME NEW t \in Tasks, NEW v \in Objs \cup {Plain, Failed}, Complete(t, v) PROVE Kept'
  <2>1. /\ {v} \cap Objs \subseteq tracked /\ t \in Referenced
        /\ result' = [result EXCEPT ![t] = v]
        /\ UNCHANGED <<born, tracked, refs, held, handles, awaiting, joins, native>>
    BY <1>15, BoundsAssumption DEF Complete, Kept, Plain, Failed, Objs
  <2>2. Results(handles)' \subseteq Results(handles) \cup ({v} \cap Objs)
    BY <2>1 DEF TypeOK, Results
  <2>3. Referenced' = Referenced /\ \A u \in Tasks \ Referenced : result'[u] = NoObj
    BY <2>1 DEF Referenced, Kept, TypeOK
  <2> QED
    BY <2>1, <2>2, <2>3 DEF Kept
<1>16. ASSUME NEW t \in Tasks, Park(t) PROVE Kept'
  BY <1>16 DEF Park, Kept, Results, Referenced
<1>17. ASSUME NEW t \in Tasks, Resume(t) PROVE Kept'
  <2>1. /\ held' = held \cup Results({t}) /\ awaiting' = awaiting \ {t} /\ Settle(result)
        /\ UNCHANGED <<born, tracked, refs, handles, joins, native>>
    BY <1>17 DEF Resume
  <2>2. Results({t}) \subseteq tracked
    BY <1>17 DEF Resume, Kept, Results
  <2>3. /\ Results(handles)' \subseteq Results(handles)
        /\ \A u \in Tasks \ Referenced' : result'[u] = NoObj
    BY <2>1, FreeKeeps
  <2> QED
    BY <2>1, <2>2, <2>3 DEF Kept
<1>19. ASSUME NEW t \in Tasks, Cancel(t) PROVE Kept'
  <2>1. /\ t \in Referenced /\ result' = [result EXCEPT ![t] = Failed]
        /\ UNCHANGED <<born, tracked, refs, held, handles, awaiting, joins, native>>
    BY <1>19 DEF Cancel
  <2>2. Results(handles)' \subseteq Results(handles)
    BY <2>1, BoundsAssumption DEF TypeOK, Results, Failed, Objs
  <2>3. Referenced' = Referenced /\ \A u \in Tasks \ Referenced : result'[u] = NoObj
    BY <2>1 DEF Referenced, Kept, TypeOK
  <2> QED
    BY <2>1, <2>2, <2>3 DEF Kept
<1>20. ASSUME NEW t \in Tasks, NEW T \in SUBSET Tasks, NEW any \in BOOLEAN, CreateJoin(t, T, any)
       PROVE  Kept'
  <2> DEFINE n == [outer |-> t, tasks |-> T, any |-> any]
  <2>1. /\ t \notin Referenced /\ T \subseteq handles /\ handles' = handles \cup {t}
        /\ joins' = joins \cup {n} /\ n.tasks = T
        /\ UNCHANGED <<born, tracked, refs, held, result, awaiting, native>>
    BY <1>20 DEF CreateJoin
  <2> HIDE DEF n
  <2>2. \A j \in joins' : j.tasks \subseteq handles'
    BY <2>1 DEF Kept
  <2>3. result[t] = NoObj
    BY <2>1 DEF Kept
  <2>4. Results(handles)' \subseteq Results(handles)
    BY <2>1, <2>3 DEF Results, Objs, NoObj
  <2>5. Referenced \subseteq Referenced'
    BY <2>1 DEF Referenced, Outers, Members
  <2> QED
    BY <2>1, <2>2, <2>4, <2>5 DEF Kept
<1>22. ASSUME NEW t \in Tasks, AwaitSettled(t) PROVE Kept'
  <2>1. result[t] \in tracked
    BY <1>22 DEF AwaitSettled, Kept, Results
  <2> QED
    BY <1>22, <2>1 DEF AwaitSettled, Kept, Results, Referenced
<1>21. ASSUME NEW j \in joins, PollJoin(j) PROVE Kept'
  BY <1>21, PollKeeps
<1>18. CASE UNCHANGED vars
  BY <1>18 DEF vars, Kept, Results, Referenced
<1> QED
  BY <1>1, <1>2, <1>3, <1>4, <1>5, <1>6, <1>7, <1>8, <1>9, <1>10, <1>11, <1>12,
     <1>13, <1>14, <1>15, <1>16, <1>17, <1>18, <1>19, <1>20, <1>21, <1>22 DEF Next

LEMMA KeptImpliesLiveIsTracked ==
  ASSUME TypeOK, Kept
  PROVE  LiveIsTracked
<1>1. Live = Roots
  BY LiveIsRoots
<1>2. Live \ Running \subseteq tracked
  BY <1>1 DEF Roots, Kept
<1>3. Closed(tracked, refs, {}) /\ tracked \in SUBSET Objs
  BY RootsBorn DEF Kept, Closed, TypeOK
<1> QED
  BY <1>2, <1>3, ReachLeast DEF LiveIsTracked

\* A sweep whose roots include the ones of before marks what was reachable from them.
LEMMA SweepSpares ==
  ASSUME TypeOK, Kept, NEW T, NEW rf, NEW roots,
         Roots \subseteq roots, tracked \subseteq T,
         \A o \in Objs : rf[o] = refs[o] \/ refs[o] = {},
         Sweep(T, rf, roots)
  PROVE  (tracked \ tracked') \cap Reachable = {}
<1>2. Live = Roots
  BY LiveIsRoots
<1>3. ASSUME NEW S \in SUBSET Objs, roots \subseteq S, Closed(S, rf, stale)
      PROVE  Roots \subseteq S /\ Closed(S, refs, {})
  <2>1. ASSUME NEW o \in S PROVE refs[o] \subseteq S
    <3>1. o \in stale => refs[o] = {}
      BY <2>1, <1>3 DEF Kept, TypeOK
    <3>2. rf[o] = refs[o] \/ refs[o] = {}
      BY <2>1, <1>3
    <3>3. o \notin stale => rf[o] \subseteq S
      BY <2>1, <1>3 DEF Closed
    <3> QED
      BY <3>1, <3>2, <3>3
  <2> QED
    BY <2>1, <1>3 DEF Closed
<1>4. Reach(Roots, refs, {}) \subseteq Reach(roots, rf, stale)
  BY <1>3, ReachMono
<1>5. tracked' = T \cap Reach(roots, rf, stale)
  BY DEF Sweep, Marks
<1> QED
  BY <1>2, <1>4, <1>5 DEF Reachable

LEMMA NothingLiveSweptNext ==
  ASSUME TypeOK, Kept, [Next]_vars
  PROVE  \A o \in tracked \ tracked' : o \notin Reachable
<1> SUFFICES (tracked \ tracked') \cap Reachable = {}
  OBVIOUS
<1>a. refs \in [Objs -> SUBSET (1..born)]
  BY DEF TypeOK
<1>1. CASE Collect
  BY <1>1, SweepSpares DEF Collect
<1>2. ASSUME NEW items \in SUBSET held, NewArray(items)
      PROVE  (tracked \ tracked') \cap Reachable = {}
  <2> DEFINE o == born + 1
             rf == [refs EXCEPT ![o] = items]
  <2>1. o \in Objs /\ o \notin tracked
    BY <1>2 DEF NewArray, TypeOK
  <2>2. refs[o] = {}
    BY <2>1 DEF Kept
  <2>3. \A x \in Objs : rf[x] = refs[x] \/ refs[x] = {}
    BY <2>1, <2>2, <1>a
  <2>4. tracked \subseteq tracked' \/ Sweep(tracked \cup {o}, rf, Roots \cup {o})
    BY <1>2 DEF NewArray
  <2> HIDE DEF o, rf
  <2>5. CASE Sweep(tracked \cup {o}, rf, Roots \cup {o})
    BY <2>3, <2>5, SweepSpares
  <2> QED
    BY <2>4, <2>5
<1>3. CASE \/ StartFinalizer \/ EndFinalizer \/ FinalizersDone \/ NewBox
           \/ (\E o \in Objs : Drop(o) \/ Get(o) \/ NativeHold(o))
           \/ (\E p, o \in Objs : Put(p, o) \/ Remove(p, o))
           \/ NativeReturn
           \/ (\E t \in Tasks : Spawn(t) \/ DropHandle(t) \/ Park(t) \/ Resume(t) \/ Cancel(t)
                                \/ AwaitSettled(t))
           \/ (\E t \in Tasks, v \in Objs \cup {Plain, Failed} : Complete(t, v))
           \/ (\E t \in Tasks, T \in SUBSET Tasks, any \in BOOLEAN : CreateJoin(t, T, any))
           \/ (\E j \in joins : PollJoin(j))
           \/ UNCHANGED vars
  <2>1. tracked \subseteq tracked'
    BY <1>3 DEF StartFinalizer, EndFinalizer, FinalizersDone, NewBox, Drop, Get, NativeHold,
       Put, Remove, NativeReturn, Spawn, DropHandle, Park, Resume, Complete, Cancel, AwaitSettled,
       CreateJoin, PollJoin, PollAny, PollFailed, PollAll, vars
  <2> QED
    BY <2>1
<1> QED
  BY <1>1, <1>2, <1>3 DEF Next

(* Whatever the program can reach without the receiver of a destructor is  *)
(* tracked by the heap, as long as it keeps what native functions, awaits  *)
(* and joins work on; the violation runs show each of these conditions     *)
(* needed.                                                                 *)
THEOREM LiveObjectsAreTracked == LetsGo = {} => (Spec => []LiveIsTracked)
<1> SUFFICES ASSUME LetsGo = {} PROVE Spec => []LiveIsTracked
  OBVIOUS
<1>1. Init => TypeOK /\ Kept
  BY TypeInit, KeptInit
<1>2. TypeOK /\ Kept /\ [Next]_vars => TypeOK' /\ Kept'
  BY TypeNext, KeptNext
<1>3. TypeOK /\ Kept => LiveIsTracked
  BY KeptImpliesLiveIsTracked
<1> QED
  BY <1>1, <1>2, <1>3, PTL DEF Spec

(* For such a program no collection, explicit, triggered by an allocation  *)
(* or nested in a destructor, empties an object that is still in use.      *)
THEOREM CollectionsSpareLiveObjects == LetsGo = {} => (Spec => NothingLiveSwept)
<1> SUFFICES ASSUME LetsGo = {} PROVE Spec => NothingLiveSwept
  OBVIOUS
<1>1. Init => TypeOK /\ Kept
  BY TypeInit, KeptInit
<1>2. TypeOK /\ Kept /\ [Next]_vars => TypeOK' /\ Kept'
  BY TypeNext, KeptNext
<1>3. TypeOK /\ Kept /\ [Next]_vars => [\A o \in tracked \ tracked' : o \notin Reachable]_vars
  BY NothingLiveSweptNext
<1> QED
  BY <1>1, <1>2, <1>3, PTL DEF Spec, NothingLiveSwept

-----------------------------------------------------------------------------
(***************************************************************************)
(* Every swept box is finalized once, whatever the program lets go of.     *)
(***************************************************************************)

\* A sweep adds the boxes it removed, and only them, to what has still to run.
LEMMA SweepFinalizes ==
  ASSUME TypeOK, FinalizedOnce, NEW T, tracked \subseteq T, T \cap boxes \subseteq tracked,
         NEW rf, NEW roots, UNCHANGED <<boxes, finalized>>, Sweep(T, rf, roots)
  PROVE  FinalizedOnce'
<1> DEFINE M == Marks(rf, roots)
           new == ((T \ M) \cap boxes) \ finalized
           n == Len(calls)
<1>1. tracked' = T \cap M /\ calls' = Append(calls, [todo |-> new, this |-> NoObj])
  BY DEF Sweep
<1>2. calls \in Seq(GcCall) /\ n \in Nat
  BY DEF TypeOK
<1>3. /\ Len(calls') = n + 1 /\ calls'[n + 1].todo = new /\ calls'[n + 1].this = NoObj
      /\ \A i \in 1..n : calls'[i] = calls[i]
  BY <1>1, <1>2
<1>4. finalized \cap tracked = {} /\ Pending \cap tracked = {} /\ Pending \cap finalized = {}
  BY DEF FinalizedOnce
<1>5. new = (tracked \ M) \cap boxes
  BY <1>4
<1>6. \A i \in 1..n : calls[i].todo \subseteq Pending
  BY DEF Pending
<1> HIDE DEF new, M, n
<1>7. \A i \in 1..(n + 1) : i \in 1..n \/ i = n + 1
  BY <1>2
<1>8. Pending' = Pending \cup new
  <2>1. Pending' = UNION {calls'[i].todo : i \in 1..(n + 1)}
    BY <1>3 DEF Pending
  <2>2. Pending = UNION {calls[i].todo : i \in 1..n}
    BY DEF Pending, n
  <2>3. n + 1 \in 1..(n + 1) /\ 1..n \subseteq 1..(n + 1)
    BY <1>2
  <2> QED
    BY <1>3, <1>7, <2>1, <2>2, <2>3
<1>9. (boxes \ tracked = Pending \cup finalized)'
  BY <1>1, <1>5, <1>8 DEF FinalizedOnce
<1>10. (Pending \cap finalized = {})'
  BY <1>4, <1>5, <1>8
<1>11. ASSUME NEW i \in 1..Len(calls'), NEW j \in 1..Len(calls'), i # j
       PROVE  calls'[i].todo \cap calls'[j].todo = {}
  <2>1. CASE i \in 1..n /\ j \in 1..n
    BY <1>3, <1>11, <2>1 DEF FinalizedOnce, n
  <2>2. CASE i \in 1..n /\ j = n + 1
    BY <1>3, <1>4, <1>5, <1>6, <2>2
  <2>3. CASE i = n + 1 /\ j \in 1..n
    BY <1>3, <1>4, <1>5, <1>6, <2>3
  <2> QED
    BY <1>3, <1>7, <1>11, <2>1, <2>2, <2>3
<1>12. ASSUME NEW i \in 1..Len(calls'), calls'[i].this # NoObj
       PROVE  calls'[i].this \in finalized'
  BY <1>3, <1>7, <1>12 DEF FinalizedOnce, n
<1> QED
  BY <1>9, <1>10, <1>11, <1>12 DEF FinalizedOnce

LEMMA FinalizedOnceNext == TypeOK /\ FinalizedOnce /\ [Next]_vars => FinalizedOnce'
<1> SUFFICES ASSUME TypeOK, FinalizedOnce, [Next]_vars PROVE FinalizedOnce'
  OBVIOUS
<1>a. calls \in Seq(GcCall) /\ Len(calls) \in Nat
  BY DEF TypeOK
<1>1. CASE Collect
  BY <1>1, SweepFinalizes DEF Collect
<1>2. ASSUME NEW items \in SUBSET held, NewArray(items) PROVE FinalizedOnce'
  <2>1. born + 1 \notin boxes /\ UNCHANGED <<boxes, finalized>>
    BY <1>2 DEF NewArray, TypeOK
  <2>2. CASE Sweep(tracked \cup {born + 1}, [refs EXCEPT ![born + 1] = items], Roots \cup {born + 1})
    BY <2>1, <2>2, SweepFinalizes
  <2>3. CASE tracked' = tracked \cup {born + 1} /\ calls' = calls
    BY <2>1, <2>3 DEF FinalizedOnce, Pending
  <2> QED
    BY <1>2, <2>2, <2>3 DEF NewArray
<1>3. CASE StartFinalizer
  <2> DEFINE n == Len(calls)
  <2>0. PICK o \in Top.todo :
         /\ finalized' = finalized \cup {o}
         /\ calls' = [calls EXCEPT ![n] = [todo |-> @.todo \ {o}, this |-> o]]
    BY <1>3 DEF StartFinalizer
  <2>1. n \in 1..n /\ Top = calls[n] /\ UNCHANGED <<boxes, tracked>>
    BY <1>3, LastCall DEF StartFinalizer, Top
  <2>2. /\ Len(calls') = n /\ calls'[n].todo = calls[n].todo \ {o} /\ calls'[n].this = o
        /\ \A i \in 1..n : i # n => calls'[i] = calls[i]
    BY <2>0, <2>1, <1>a
  <2>3. \A i \in 1..n : i # n => o \notin calls[i].todo
    BY <2>0, <2>1 DEF FinalizedOnce
  <2> HIDE DEF n
  <2>4. \A i \in 1..n : calls'[i].todo = calls[i].todo \ {o}
    BY <2>2, <2>3
  <2>5. Pending' = UNION {calls'[i].todo : i \in 1..n} /\ Pending = UNION {calls[i].todo : i \in 1..n}
    BY <2>2 DEF Pending, n
  <2>6. Pending' = Pending \ {o} /\ o \in Pending
    BY <2>0, <2>1, <2>4, <2>5
  <2>7. (boxes \ tracked = Pending \cup finalized)' /\ (Pending \cap finalized = {})'
    BY <2>0, <2>1, <2>6 DEF FinalizedOnce
  <2>8. \A i, j \in 1..n : i # j => calls'[i].todo \cap calls'[j].todo = {}
    BY <2>4 DEF FinalizedOnce, n
  <2>9. \A i \in 1..n : calls'[i].this # NoObj => calls'[i].this \in finalized'
    <3> SUFFICES ASSUME NEW i \in 1..n, calls'[i].this # NoObj PROVE calls'[i].this \in finalized'
      OBVIOUS
    <3>1. CASE i = n
      BY <3>1, <2>0, <2>2
    <3>2. CASE i # n
      <4>1. calls'[i] = calls[i] /\ i \in 1..Len(calls)
        BY <3>2, <2>2 DEF n
      <4>2. calls[i].this \in finalized
        BY <4>1 DEF FinalizedOnce
      <4> QED
        BY <4>1, <4>2, <2>0
    <3> QED
      BY <3>1, <3>2
  <2> QED
    BY <2>2, <2>7, <2>8, <2>9 DEF FinalizedOnce
<1>4. CASE EndFinalizer
  <2> DEFINE n == Len(calls)
  <2>1. n \in 1..n /\ UNCHANGED <<boxes, tracked, finalized>>
    BY <1>4, LastCall DEF EndFinalizer
  <2>2. calls' = [calls EXCEPT ![n] = [calls[n] EXCEPT !.this = NoObj]] /\ calls[n] \in GcCall
    BY <1>4, <2>1, <1>a DEF EndFinalizer
  <2>3. calls'[n] = [calls[n] EXCEPT !.this = NoObj] /\ Len(calls') = n
    BY <2>1, <2>2, <1>a
  <2>4. /\ calls'[n].todo = calls[n].todo /\ calls'[n].this = NoObj
        /\ \A i \in 1..n : i # n => calls'[i] = calls[i]
    BY <2>1, <2>2, <2>3, <1>a DEF GcCall
  <2> HIDE DEF n
  <2>5. \A i \in 1..n : calls'[i].todo = calls[i].todo
    BY <2>4
  <2>6. Pending' = Pending
    <3>1. Pending' = UNION {calls'[i].todo : i \in 1..n} /\ Pending = UNION {calls[i].todo : i \in 1..n}
      BY <2>3 DEF Pending, n
    <3> QED
      BY <3>1, <2>5
  <2>7. \A i, j \in 1..n : i # j => calls'[i].todo \cap calls'[j].todo = {}
    BY <2>5 DEF FinalizedOnce, n
  <2>8. \A i \in 1..n : calls'[i].this # NoObj => calls'[i].this \in finalized'
    BY <2>1, <2>4 DEF FinalizedOnce, n
  <2> QED
    BY <2>1, <2>3, <2>6, <2>7, <2>8 DEF FinalizedOnce
<1>5. CASE FinalizersDone
  <2> DEFINE n == Len(calls)
  <2>1. /\ n \in 1..n /\ calls[n].todo = {} /\ UNCHANGED <<boxes, tracked, finalized>>
        /\ calls' = SubSeq(calls, 1, n - 1)
    BY <1>5, LastCall DEF FinalizersDone, Top
  <2>2. Len(calls') = n - 1 /\ \A i \in 1..(n - 1) : calls'[i] = calls[i]
    BY <1>5, <2>1, <1>a, FrontOf DEF FinalizersDone
  <2> HIDE DEF n
  <2>3. 1..(n - 1) \subseteq 1..n /\ \A i \in 1..n : i \in 1..(n - 1) \/ i = n
    BY <2>1
  <2>4. Pending' = Pending
    <3>1. /\ Pending' = UNION {calls'[i].todo : i \in 1..(n - 1)}
          /\ Pending = UNION {calls[i].todo : i \in 1..n}
      BY <2>2 DEF Pending, n
    <3> QED
      BY <3>1, <2>1, <2>2, <2>3
  <2>5. \A i, j \in 1..(n - 1) : i # j => calls'[i].todo \cap calls'[j].todo = {}
    BY <2>2, <2>3 DEF FinalizedOnce, n
  <2>6. \A i \in 1..(n - 1) : calls'[i].this # NoObj => calls'[i].this \in finalized'
    BY <2>1, <2>2, <2>3 DEF FinalizedOnce, n
  <2> QED
    BY <2>1, <2>2, <2>4, <2>5, <2>6 DEF FinalizedOnce
<1>6. CASE NewBox
  BY <1>6 DEF NewBox, FinalizedOnce, Pending, TypeOK
<1>7. CASE \/ (\E o \in Objs : Drop(o) \/ Get(o) \/ NativeHold(o))
           \/ (\E p, o \in Objs : Put(p, o) \/ Remove(p, o))
           \/ NativeReturn
           \/ (\E t \in Tasks : Spawn(t) \/ DropHandle(t) \/ Park(t) \/ Resume(t) \/ Cancel(t)
                                \/ AwaitSettled(t))
           \/ (\E t \in Tasks, v \in Objs \cup {Plain, Failed} : Complete(t, v))
           \/ (\E t \in Tasks, T \in SUBSET Tasks, any \in BOOLEAN : CreateJoin(t, T, any))
           \/ UNCHANGED vars
  <2>1. UNCHANGED <<boxes, tracked, finalized, calls>>
    BY <1>7 DEF Drop, Get, NativeHold, Put, Remove, NativeReturn, Spawn, DropHandle, Park,
       Resume, Complete, Cancel, AwaitSettled, CreateJoin, vars
  <2> QED
    BY <2>1 DEF FinalizedOnce, Pending
<1>8. ASSUME NEW j \in joins, PollJoin(j) PROVE FinalizedOnce'
  <2>1. /\ UNCHANGED <<boxes, finalized, calls>>
        /\ tracked' = tracked \/ tracked' = tracked \cup {born + 1}
    BY <1>8 DEF PollJoin, PollAny, PollFailed, PollAll
  <2>2. born + 1 \notin boxes
    BY DEF TypeOK
  <2>3. boxes \ tracked' = boxes \ tracked
    BY <2>1, <2>2
  <2> QED
    BY <2>1, <2>3 DEF FinalizedOnce, Pending
<1> QED
  BY <1>1, <1>2, <1>3, <1>4, <1>5, <1>6, <1>7, <1>8 DEF Next

(* Every swept box is finalized or on the list of exactly one gc call,     *)
(* however collections nest inside destructors.                            *)
THEOREM SweptBoxesFinalizedOnce == Spec => []FinalizedOnce
<1>1. Init => TypeOK /\ FinalizedOnce
  BY TypeInit DEF Init, FinalizedOnce, Pending
<1>2. TypeOK /\ FinalizedOnce /\ [Next]_vars => TypeOK' /\ FinalizedOnce'
  BY TypeNext, FinalizedOnceNext
<1> QED
  BY <1>1, <1>2, PTL DEF Spec
=============================================================================
