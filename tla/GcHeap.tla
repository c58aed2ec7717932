------------------------------- MODULE GcHeap -------------------------------
(***************************************************************************)
(* The mark-sweep heap of the RayTask VM (gc.rs) together with the part of *)
(* the VM that decides what it starts from and what happens afterwards:    *)
(* Vm::collect_roots, gc_collect, gc_maybe and run_finalizer (vm.rs).      *)
(*                                                                         *)
(* Heap objects are numbered in allocation order.  A `box' is an object of *)
(* a class with a destructor; every other object is an array (a dictionary *)
(* or an object without a destructor differs from it only in what its     *)
(* allocation triggers).  Collections run synchronously inside the         *)
(* program's own step, so Collect is one atomic change; the destructors it *)
(* leaves to run are ordinary program code, executed on top of the program *)
(* that collected, and may collect again.                                  *)
(***************************************************************************)
EXTENDS Naturals, Sequences, FiniteSets

CONSTANTS MaxObj,    \* bound: objects a run may allocate
          MaxNative, \* bound: objects held by native functions at one time
          Tasks,     \* tasks a run may start
          LetsGo     \* what the program may let go of while only the runtime
                     \* still holds it: "argument" (a value a native function
                     \* keeps across callbacks), "awaited" (the task a parked
                     \* coroutine waits for), "joined" (a task that a join of
                     \* Task.WhenAll or WhenAny waits for), "this" (the receiver
                     \* of a destructor, stored away or written to by it)

ASSUME BoundsAssumption == MaxObj \in Nat /\ MaxNative \in Nat
ASSUME LetsGoAssumption == LetsGo \subseteq {"argument", "awaited", "joined", "this"}

VARIABLES born,       \* number of objects allocated so far
          boxes,      \* those of a class with a destructor
          tracked,    \* GcHeap.tracked: allocated and not swept
          stale,      \* swept objects whose mark bit is set: the bits of the
                      \* tracked ones are reset before they are looked at
          finalized,  \* ObjectInstance.finalized
          refs,       \* the objects an object's contents refer to
          held,       \* objects in a stack, a global or a frame's upvalue
          handles,    \* tasks whose Value::Task is in one of these places
          result,     \* what a task is settled with, NoObj before that
          awaiting,   \* tasks in the `awaiting' of a parked coroutine
          joins,      \* Vm.joins: the joins that are not decided yet
          native,     \* objects in the Rust locals of a native function that
                      \* has called back into the program
          calls       \* the gc calls in progress, innermost last

vars == <<born, boxes, tracked, stale, finalized, refs, held, handles, result,
          awaiting, joins, native, calls>>

Objs == 1..MaxObj
NoObj == 0
Plain == MaxObj + 1   \* Ready with null, a number or a string
Failed == MaxObj + 2  \* Failed: an error or a cancellation

(* JoinGroup: `outer' is settled by the first of tasks (any) or by all.    *)
Join == [outer : Tasks, tasks : SUBSET Tasks, any : BOOLEAN]

(* A gc call has taken the pending finalizers of its collection into a     *)
(* local list and runs them one by one; `this' is the one that runs.       *)
GcCall == [todo : SUBSET boxes, this : boxes \cup {NoObj}]

TypeOK ==
    /\ born \in 0..MaxObj
    /\ boxes \subseteq 1..born
    /\ tracked \subseteq 1..born
    /\ stale \subseteq (1..born) \ tracked
    /\ finalized \subseteq boxes
    /\ refs \in [Objs -> SUBSET (1..born)]
    /\ held \subseteq 1..born
    /\ handles \subseteq Tasks
    /\ result \in [Tasks -> (0..born) \cup {Plain, Failed}]
    /\ awaiting \subseteq Tasks
    /\ joins \subseteq Join
    /\ native \subseteq 1..born
    /\ calls \in Seq(GcCall)

-----------------------------------------------------------------------------
(***************************************************************************)
(* Reachability.                                                           *)
(***************************************************************************)

(* A set closed under the references of its members, except those of the   *)
(* members in `opaque'.                                                    *)
Closed(S, rf, opaque) == \A o \in S \ opaque : rf[o] \subseteq S

(* The least closed set that contains roots.                               *)
Reach(roots, rf, opaque) ==
    {o \in Objs : \A S \in SUBSET Objs :
                     roots \subseteq S /\ Closed(S, rf, opaque) => o \in S}

Top == calls[Len(calls)]

(* The receivers of the destructors in progress: each is a local of its    *)
(* destructor's frame.                                                     *)
Running == {calls[i].this : i \in 1..Len(calls)} \ {NoObj}

Results(T) == {result[t] : t \in T} \cap Objs

\* Mutant: the result of a finished task is not looked for.
RootsWithoutTasks == held \cup Running

(* collect_roots: stacks, globals and upvalues of the running and parked   *)
(* frames; marking goes on through the result of a task found there.       *)
Roots == held \cup Running \cup Results(handles)

(* The tasks whose outcome can still be handed to the program: those it    *)
(* has or awaits and, with a join among them that is not settled and has   *)
(* no failed member, the tasks of this join.                               *)
Wanted ==
    {t \in Tasks : \A S \in SUBSET Tasks :
        /\ handles \cup awaiting \subseteq S
        /\ \A j \in joins :
              /\ j.outer \in S /\ result[j.outer] = NoObj
              /\ \A u \in j.tasks : result[u] # Failed
              => j.tasks \subseteq S
        => t \in S}

(* What the program can still get at: the roots, what it will be handed by *)
(* a native function that returns, and by an await that resumes, be it     *)
(* through a join.                                                         *)
Live == Roots \cup native \cup Results(Wanted)

Reachable == Reach(Live, refs, {})

-----------------------------------------------------------------------------
Init ==
    /\ born = 0
    /\ boxes = {} /\ tracked = {} /\ stale = {} /\ finalized = {}
    /\ refs = [o \in Objs |-> {}]
    /\ held = {} /\ handles = {} /\ awaiting = {} /\ joins = {} /\ native = {}
    /\ result = [t \in Tasks |-> NoObj]
    /\ calls = <<>>

Decided(j) ==
    IF j.any THEN j.tasks = {} \/ \E t \in j.tasks : result[t] # NoObj
             ELSE \A t \in j.tasks : result[t] # NoObj

(* Whoever settles a task or makes a join calls poll_joins before anything *)
(* else happens.                                                           *)
JoinsPolled == \A j \in joins : ~Decided(j)

(* The program's own code executes: no gc call is in progress, or the      *)
(* innermost one runs a destructor.                                        *)
ProgramRuns == JoinsPolled /\ (calls # <<>> => Top.this # NoObj)

(* What marking starting from roots sets the mark bit of.  The bits of the *)
(* tracked objects are reset first; an object that was swept before keeps  *)
(* its bit, and marking does not look behind an object whose bit is set.   *)
Marks(rf, roots) == Reach(roots, rf, stale)

\* Mutant: the mark bits are not reset.
SweepUnreset(T, rf, roots) ==
    LET M == Marks(rf, roots) IN
    /\ tracked' = T \cap M
    /\ stale' = stale \cup M
    /\ refs' = [o \in Objs |-> IF o \in T \ M THEN {} ELSE rf[o]]
    /\ calls' = Append(calls, [todo |-> ((T \ M) \cap boxes) \ finalized,
                               this |-> NoObj])

(* GcHeap::collect on tracked objects T with contents rf: unmarked objects *)
(* lose their contents and their tracking, and those of them with a        *)
(* destructor that has not run become the gc call's list.                  *)
Sweep(T, rf, roots) ==
    LET M == Marks(rf, roots) IN
    /\ tracked' = T \cap M
    /\ stale' = stale \cup (M \ T)
    /\ refs' = [o \in Objs |-> IF o \in T \ M THEN {} ELSE rf[o]]
    /\ calls' = Append(calls, [todo |-> ((T \ M) \cap boxes) \ finalized,
                               this |-> NoObj])

(* Gc.Collect()                                                            *)
Collect ==
    /\ ProgramRuns
    /\ Sweep(tracked, refs, Roots)
    /\ UNCHANGED <<born, boxes, finalized, held, handles, result, awaiting, joins,
                   native>>

\* Mutant: the finalizer stays in the list.
StartFinalizerLeaves ==
    /\ calls # <<>> /\ Top.this = NoObj
    /\ \E o \in Top.todo :
          /\ finalized' = finalized \cup {o}
          /\ calls' = [calls EXCEPT ![Len(calls)].this = o]
    /\ UNCHANGED <<born, boxes, tracked, stale, refs, held, handles, result,
                   awaiting, joins, native>>

(* run_finalizer marks the object finalized before its destructor runs.    *)
StartFinalizer ==
    /\ calls # <<>> /\ Top.this = NoObj
    /\ \E o \in Top.todo :
          /\ finalized' = finalized \cup {o}
          /\ calls' = [calls EXCEPT ![Len(calls)] = [todo |-> @.todo \ {o}, this |-> o]]
    /\ UNCHANGED <<born, boxes, tracked, stale, refs, held, handles, result,
                   awaiting, joins, native>>

(* The destructor returns; one that fails is a matter of Unwind.           *)
EndFinalizer ==
    /\ ProgramRuns /\ calls # <<>>
    /\ calls' = [calls EXCEPT ![Len(calls)].this = NoObj]
    /\ UNCHANGED <<born, boxes, tracked, stale, finalized, refs, held, handles,
                   result, awaiting, joins, native>>

\* Mutant: the rest of the list is dropped.
FinalizersDoneEarly ==
    /\ calls # <<>> /\ Top.this = NoObj
    /\ calls' = SubSeq(calls, 1, Len(calls) - 1)
    /\ UNCHANGED <<born, boxes, tracked, stale, finalized, refs, held, handles,
                   result, awaiting, joins, native>>

FinalizersDone ==
    /\ calls # <<>> /\ Top.this = NoObj /\ Top.todo = {}
    /\ calls' = SubSeq(calls, 1, Len(calls) - 1)
    /\ UNCHANGED <<born, boxes, tracked, stale, finalized, refs, held, handles,
                   result, awaiting, joins, native>>

-----------------------------------------------------------------------------
(***************************************************************************)
(* The program between collections.                                        *)
(***************************************************************************)

(* Op::NewArray with the items popped from the stack: the array is on the  *)
(* stack before gc_maybe, which collects or not (the threshold).           *)
NewArray(items) ==
    LET o == born + 1
        rf == [refs EXCEPT ![o] = items] IN
    /\ ProgramRuns
    /\ o \in Objs
    /\ born' = o
    /\ held' = held \cup {o}
    /\ \/ tracked' = tracked \cup {o} /\ refs' = rf /\ UNCHANGED <<stale, calls>>
       \/ Sweep(tracked \cup {o}, rf, Roots \cup {o})
    /\ UNCHANGED <<boxes, finalized, handles, result, awaiting, joins,
                   native>>

(* Op::NewObject of a class with a destructor, which never collects.       *)
NewBox ==
    LET o == born + 1 IN
    /\ ProgramRuns
    /\ o \in Objs
    /\ born' = o
    /\ boxes' = boxes \cup {o}
    /\ tracked' = tracked \cup {o}
    /\ held' = held \cup {o}
    /\ UNCHANGED <<stale, finalized, refs, handles, result, awaiting, joins,
                   native, calls>>

(* A value leaves the stack or is overwritten.                             *)
Drop(o) ==
    /\ ProgramRuns
    /\ o \in held
    /\ o \in native => "argument" \in LetsGo
    /\ held' = held \ {o}
    /\ UNCHANGED <<born, boxes, tracked, stale, finalized, refs, handles, result,
                   awaiting, joins, native, calls>>

(* What the running code can read and write: what is on the stacks, and    *)
(* the receiver of the destructor that runs.                               *)
InHand == held \cup (IF "this" \in LetsGo THEN Running ELSE {})

(* A global or a field of an object in hand is read.                       *)
Get(o) ==
    /\ ProgramRuns
    /\ o \in InHand \cup UNION {refs[p] : p \in InHand}
    /\ o \notin held
    /\ held' = held \cup {o}
    /\ UNCHANGED <<born, boxes, tracked, stale, finalized, refs, handles, result,
                   awaiting, joins, native, calls>>

(* An object's contents are changed.                                       *)
Put(p, o) ==
    /\ ProgramRuns
    /\ p \in InHand /\ o \in InHand \ refs[p]
    /\ refs' = [refs EXCEPT ![p] = @ \cup {o}]
    /\ UNCHANGED <<born, boxes, tracked, stale, finalized, held, handles, result,
                   awaiting, joins, native, calls>>

Remove(p, o) ==
    /\ ProgramRuns
    /\ p \in InHand /\ o \in refs[p]
    /\ refs' = [refs EXCEPT ![p] = @ \ {o}]
    /\ UNCHANGED <<born, boxes, tracked, stale, finalized, held, handles, result,
                   awaiting, joins, native, calls>>

(* List.Where, Select, Any and All take their list and function off the    *)
(* stack and keep them, the items and the results so far, in Rust locals   *)
(* while the callbacks run; the last step puts the outcome on the stack.   *)
NativeHold(o) ==
    /\ ProgramRuns
    /\ o \in held \ native /\ Cardinality(native) < MaxNative
    /\ native' = native \cup {o}
    /\ UNCHANGED <<born, boxes, tracked, stale, finalized, refs, held, handles,
                   result, awaiting, joins, calls>>

NativeReturn ==
    /\ ProgramRuns
    /\ native # {}
    /\ held' = held \cup native
    /\ native' = {}
    /\ UNCHANGED <<born, boxes, tracked, stale, finalized, refs, handles, result,
                   awaiting, joins, calls>>

-----------------------------------------------------------------------------
(***************************************************************************)
(* Tasks: only what keeps their results alive.  The coroutine behind a     *)
(* task has its values in `held' whether it runs or is parked.             *)
(***************************************************************************)
Idle == calls = <<>> /\ native = {} /\ JoinsPolled

Outers(js) == {j.outer : j \in js}
Members(js) == UNION {j.tasks : j \in js}

(* The tasks the program, a parked coroutine or a join refers to.  A task  *)
(* is freed, with its result, once none does; the coroutine of a pending   *)
(* one goes on.                                                            *)
Referenced == handles \cup awaiting \cup Outers(joins) \cup Members(joins)

(* The results, with those of the tasks freed by this step gone.           *)
Settle(res) ==
    result' = [t \in Tasks |->
                 IF t \in handles' \cup awaiting' \cup Outers(joins') \cup Members(joins')
                 THEN res[t] ELSE NoObj]

Spawn(t) ==
    /\ ProgramRuns
    /\ t \notin Referenced
    /\ handles' = handles \cup {t}
    /\ UNCHANGED <<born, boxes, tracked, stale, finalized, refs, held, result,
                   awaiting, joins, native, calls>>

DropHandle(t) ==
    /\ ProgramRuns
    /\ t \in handles
    /\ t \in awaiting => "awaited" \in LetsGo
    /\ t \in Members(joins) => "joined" \in LetsGo
    /\ handles' = handles \ {t}
    /\ UNCHANGED <<born, boxes, tracked, stale, finalized, refs, held, awaiting,
                   joins, native, calls>>
    /\ Settle(result)

(* finish_coroutine and fire_timers: the task becomes Ready with a value   *)
(* of its coroutine, or fails.                                             *)
Complete(t, v) ==
    /\ Idle
    /\ t \in Referenced \ Outers(joins) /\ result[t] = NoObj
    /\ v \in held \cup {Plain, Failed}
    /\ result' = [result EXCEPT ![t] = v]
    /\ UNCHANGED <<born, boxes, tracked, stale, finalized, refs, held, handles,
                   awaiting, joins, native, calls>>

(* A token or a group is cancelled: cancel_task on any pending task, that  *)
(* of a join included.                                                     *)
Cancel(t) ==
    /\ ProgramRuns
    /\ t \in Referenced /\ result[t] = NoObj
    /\ result' = [result EXCEPT ![t] = Failed]
    /\ UNCHANGED <<born, boxes, tracked, stale, finalized, refs, held, handles,
                   awaiting, joins, native, calls>>

(* create_join_task: a pending task that the tasks T of a list will        *)
(* settle.  An item of the list that is no task is joined like a finished  *)
(* task whose handle the program has let go.                               *)
CreateJoin(t, T, any) ==
    /\ ProgramRuns
    /\ t \notin Referenced /\ T \subseteq handles
    /\ handles' = handles \cup {t}
    /\ joins' = joins \cup {[outer |-> t, tasks |-> T, any |-> any]}
    /\ UNCHANGED <<born, boxes, tracked, stale, finalized, refs, held, result,
                   awaiting, native, calls>>

(* The outer task of a join becomes v; complete_task and fail_task leave   *)
(* one that was cancelled meanwhile as it is.                              *)
SettleOuter(j, v) ==
    /\ joins' = joins \ {j}
    /\ UNCHANGED <<handles, awaiting>>
    /\ Settle(IF result[j.outer] = NoObj THEN [result EXCEPT ![j.outer] = v] ELSE result)

(* poll_joins on a decided join: the first settled task's outcome, the     *)
(* error of a failed member, or a new array of all the results, which is   *)
(* allocated without a collection.  That one pass in the order of creation *)
(* leaves no join decided is a matter of EventLoop.                        *)
PollAny(j) ==
    /\ j.any
    /\ \/ j.tasks = {} /\ SettleOuter(j, Plain)
       \/ \E t \in j.tasks : result[t] # NoObj /\ SettleOuter(j, result[t])
    /\ UNCHANGED <<born, tracked, refs>>

PollFailed(j) ==
    /\ ~j.any /\ \E t \in j.tasks : result[t] = Failed
    /\ SettleOuter(j, Failed)
    /\ UNCHANGED <<born, tracked, refs>>

\* Mutant: the array is made without alloc_array.
PollAllUntracked(j) ==
    LET o == born + 1 IN
    /\ ~j.any /\ \A t \in j.tasks : result[t] # Failed
    /\ o \in Objs
    /\ born' = o
    /\ refs' = [refs EXCEPT ![o] = Results(j.tasks)]
    /\ SettleOuter(j, o)
    /\ UNCHANGED tracked

PollAll(j) ==
    LET o == born + 1 IN
    /\ ~j.any /\ \A t \in j.tasks : result[t] # Failed
    /\ o \in Objs
    /\ born' = o
    /\ tracked' = tracked \cup {o}
    /\ refs' = [refs EXCEPT ![o] = Results(j.tasks)]
    /\ SettleOuter(j, o)

PollJoin(j) ==
    /\ j \in joins /\ Decided(j)
    /\ PollAny(j) \/ PollFailed(j) \/ PollAll(j)
    /\ UNCHANGED <<boxes, stale, finalized, held, native, calls>>

(* Op::Await on a settled task: its value goes on the stack.               *)
AwaitSettled(t) ==
    /\ ProgramRuns
    /\ t \in handles /\ result[t] \in Objs \ held
    /\ held' = held \cup {result[t]}
    /\ UNCHANGED <<born, boxes, tracked, stale, finalized, refs, handles, result,
                   awaiting, joins, native, calls>>

(* Op::Await on a pending task, never inside a synchronous call.           *)
Park(t) ==
    /\ Idle
    /\ t \in handles \ awaiting /\ result[t] = NoObj
    /\ awaiting' = awaiting \cup {t}
    /\ UNCHANGED <<born, boxes, tracked, stale, finalized, refs, held, handles,
                   result, joins, native, calls>>

(* resume_next hands the result to the coroutine that waited, or drops the *)
(* coroutine when the task has failed.                                     *)
Resume(t) ==
    /\ Idle
    /\ t \in awaiting /\ result[t] # NoObj
    /\ held' = held \cup Results({t})
    /\ awaiting' = awaiting \ {t}
    /\ UNCHANGED <<born, boxes, tracked, stale, finalized, refs, handles, joins,
                   native, calls>>
    /\ Settle(result)

-----------------------------------------------------------------------------
Next ==
    \/ Collect
    \/ StartFinalizer
    \/ EndFinalizer
    \/ FinalizersDone
    \/ \E items \in SUBSET held : NewArray(items)
    \/ NewBox
    \/ \E o \in Objs : Drop(o)
    \/ \E o \in Objs : Get(o)
    \/ \E p, o \in Objs : Put(p, o)
    \/ \E p, o \in Objs : Remove(p, o)
    \/ \E o \in Objs : NativeHold(o)
    \/ NativeReturn
    \/ \E t \in Tasks : Spawn(t)
    \/ \E t \in Tasks : DropHandle(t)
    \/ \E t \in Tasks, v \in Objs \cup {Plain, Failed} : Complete(t, v)
    \/ \E t \in Tasks : Cancel(t)
    \/ \E t \in Tasks, T \in SUBSET Tasks, any \in BOOLEAN : CreateJoin(t, T, any)
    \/ \E j \in joins : PollJoin(j)
    \/ \E t \in Tasks : AwaitSettled(t)
    \/ \E t \in Tasks : Park(t)
    \/ \E t \in Tasks : Resume(t)

(* The loops of gc_collect and of poll_joins go on by themselves, and every *)
(* destructor returns, even one that collects again and again: the one     *)
(* assumption about the program.                                           *)
Fairness ==
    /\ WF_vars(StartFinalizer)
    /\ WF_vars(FinalizersDone)
    /\ SF_vars(EndFinalizer)
    /\ WF_vars(\E j \in joins : PollJoin(j))

Spec == Init /\ [][Next]_vars /\ Fairness

-----------------------------------------------------------------------------
(***************************************************************************)
(* Properties.                                                             *)
(***************************************************************************)

(* A collection never empties an object the program can still get at: the  *)
(* roots that collect_roots gathers cover every reference the VM and its   *)
(* native functions hold.                                                  *)
NothingLiveSwept == [][\A o \in tracked \ tracked' : o \notin Reachable]_vars

(* A sweep removes an object from the heap for good, so nothing the        *)
(* program can get at without the receiver of a destructor in progress is  *)
(* ever outside the tracked set: collect would neither reset its mark bit  *)
(* nor free it, and would stop looking at what it refers to.               *)
LiveIsTracked == Reach(Live \ Running, refs, {}) \subseteq tracked

Pending == UNION {calls[i].todo : i \in 1..Len(calls)}

(* Every swept box is in the list of exactly one gc call or has had its    *)
(* destructor started, and never both: a collection nested in a destructor *)
(* neither loses nor repeats what the outer collection has still to run.   *)
FinalizedOnce ==
    /\ boxes \ tracked = Pending \cup finalized
    /\ Pending \cap finalized = {}
    /\ \A i, j \in 1..Len(calls) :
          i # j => calls[i].todo \cap calls[j].todo = {}
    /\ \A i \in 1..Len(calls) : calls[i].this # NoObj => calls[i].this \in finalized

(* The destructor of a swept box is started in the end, and the gc calls   *)
(* that had it to run return to the program.                               *)
FinalizersRun ==
    /\ \A o \in Objs : o \in Pending ~> o \in finalized
    /\ calls # <<>> ~> ProgramRuns
=============================================================================
