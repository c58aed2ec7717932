----------------------------- MODULE EventLoop -----------------------------
(***************************************************************************)
(* The cooperative scheduler of the bytecode VM: tasks, coroutines, the    *)
(* ready queue, timers, WhenAll / WhenAny joins and cancellation scopes    *)
(* (src/vm.rs and src/async_rt.rs).                                        *)
(*                                                                         *)
(* The VM is single threaded, so nothing interleaves inside one handler;   *)
(* what is hard is the order in which a timer, a finished coroutine, a     *)
(* cancellation and an await reach the same task.  A handler that loops    *)
(* (waking the waiters of a settled task, cancelling the tasks of a scope, *)
(* polling the joins) is one action per iteration, and `pc' says which     *)
(* loop is running: no other action is enabled before that loop is done.   *)
(*                                                                         *)
(* Program code is abstracted to the operations it may ask of the          *)
(* scheduler; a coroutine picks any of them at any point.  Values are      *)
(* abstracted to the outcome of a task.  Deadlines are abstracted: any     *)
(* armed timer may be the next one due.                                    *)
(***************************************************************************)
EXTENDS Integers, Sequences, FiniteSets

CONSTANTS
  MaxTask,      \* bound: tasks a run may create
  MaxCo,        \* bound: coroutines a run may spawn besides the root
  MaxJoinLen,   \* bound: length of the array given to WhenAll / WhenAny
  MaxTry,       \* bound: nested try blocks of one coroutine
  MaxSync,      \* bound: nested synchronous callbacks
  Sources,      \* cancellation token sources
  Groups,       \* task groups
  None          \* no task, no scope, no coroutine

ASSUME BoundsAssumption ==
  /\ MaxTask \in Nat /\ MaxCo \in Nat /\ MaxJoinLen \in Nat
  /\ MaxTry \in Nat /\ MaxSync \in Nat
ASSUME NoneAssumption == None \notin Int /\ None \notin Sources \cup Groups
ASSUME ScopesAssumption == Sources \cap Groups = {}

Tasks  == 1 .. MaxTask
Cos    == 0 .. MaxCo         \* coroutine ids; 0 is the root, which runs the main chunk
Root   == 0
Scopes == Sources \cup Groups

VARIABLES
  tstate,     \* task -> TaskState; "unborn" before it is created
  waiters,    \* task -> ids of the coroutines waiting on it, in order
  ttoken,     \* task -> the scope whose token it carries
  members,    \* join task -> the tasks it aggregates
  any,        \* join task -> WhenAny rather than WhenAll
  cancelled,  \* scopes whose token has isCancelled set
  tracked,    \* scope -> the tasks its Cancel settles (token_tasks, group.tasks)
  cstat,      \* coroutine -> where it is
  awaiting,   \* coroutine -> the task it was parked on
  cotask,     \* coroutine -> the task its end settles (co_task / ParkedCo.task);
              \* taken when it ends, kept here as a record
  tries,      \* coroutine -> number of try frames on its try stack
  ready,      \* ReadyQueue: FIFO of coroutine ids
  timers,     \* tasks armed in the TimerQueue
  joins,      \* the join tasks still unresolved, in creation order
  cur,        \* the coroutine whose frames are loaded, or None
  sync,       \* sync_depth
  woken,      \* waiters taken from a settled task and not yet pushed
  todo,       \* tasks a Cancel has still to settle
  polled,     \* joins already kept by the running poll_joins
  pc,         \* which loop of the VM runs
  ret,        \* where the running poll_joins returns to
  exit        \* how the program ended

taskVars  == <<tstate, waiters, ttoken, members, any>>
scopeVars == <<cancelled, tracked, todo>>
coVars    == <<cstat, awaiting, cotask, tries>>
queueVars == <<ready, timers, joins>>
ctrlVars  == <<cur, sync, polled, pc, ret, exit>>
vars      == <<taskVars, scopeVars, coVars, queueVars, woken, ctrlVars>>

RangeOf(s) == {s[i] : i \in DOMAIN s}
Born       == {t \in Tasks : tstate[t] # "unborn"}
Unborn     == {t \in Tasks : tstate[t] = "unborn"}
Settled(t) == tstate[t] \in {"ready", "failed"}

Init ==
  /\ tstate = [t \in Tasks |-> "unborn"]
  /\ waiters = [t \in Tasks |-> <<>>]
  /\ ttoken = [t \in Tasks |-> None]
  /\ members = [t \in Tasks |-> <<>>]
  /\ any = [t \in Tasks |-> FALSE]
  /\ cancelled = {}
  /\ tracked = [s \in Scopes |-> <<>>]
  /\ cstat = [c \in Cos |-> IF c = Root THEN "running" ELSE "unborn"]
  /\ awaiting = [c \in Cos |-> None]
  /\ cotask = [c \in Cos |-> None]
  /\ tries = [c \in Cos |-> 0]
  /\ ready = <<>> /\ timers = {} /\ joins = <<>>
  /\ cur = Root /\ sync = 0
  /\ woken = <<>> /\ todo = <<>> /\ polled = 0
  /\ pc = "loop" /\ ret = "slice" /\ exit = "none"

-----------------------------------------------------------------------------
(* Primitives of async_rt.rs.                                              *)

\* Mutants of SettleTask: the waiters are lost; a settled task settles again.
SettleTaskNoWake(t, outcome) ==
  /\ tstate' = IF tstate[t] = "pending" THEN [tstate EXCEPT ![t] = outcome] ELSE tstate
  /\ waiters' = [waiters EXCEPT ![t] = <<>>]
  /\ UNCHANGED woken
SettleTaskTwice(t, outcome) ==
  /\ tstate' = [tstate EXCEPT ![t] = outcome]
  /\ waiters' = [waiters EXCEPT ![t] = <<>>]
  /\ woken' = waiters[t]

\* complete_task / fail_task / cancel_task: only a pending task changes, and
\* its waiters are taken out to be pushed on the ready queue.
SettleTask(t, outcome) ==
  IF tstate[t] = "pending"
  THEN /\ tstate' = [tstate EXCEPT ![t] = outcome]
       /\ waiters' = [waiters EXCEPT ![t] = <<>>]
       /\ woken' = waiters[t]
  ELSE UNCHANGED <<tstate, waiters, woken>>

AddWaiter(t, c) ==
  waiters' = IF c \in RangeOf(waiters[t]) THEN waiters
             ELSE [waiters EXCEPT ![t] = Append(@, c)]

\* ReadyQueue::push refuses an id that is already queued.
Push(q, c) == IF c \in RangeOf(q) THEN q ELSE Append(q, c)

\* TaskInner::new_*_with_token: the next unused task, in the given state.
CreateTask(t, state, scope) ==
  /\ t \in Unborn
  /\ \A u \in Unborn : t <= u
  /\ tstate' = [tstate EXCEPT ![t] = state]
  /\ ttoken' = [ttoken EXCEPT ![t] = scope]

\* `for w in waiters { ready.push(w) }', which follows every settlement.
PushWoken ==
  /\ woken # <<>>
  /\ ready' = Push(ready, Head(woken))
  /\ woken' = Tail(woken)
  /\ UNCHANGED <<taskVars, scopeVars, coVars, timers, joins, ctrlVars>>

At(label) == woken = <<>> /\ pc = label

\* Enter poll_joins; it returns to `back'.
CallPoll(back) == pc' = "poll" /\ polled' = 0 /\ ret' = back

-----------------------------------------------------------------------------
(* event_loop                                                              *)

\* fire_timers: a due timer completes its task.  The cancellation check that
\* follows finds the task settled already and changes nothing.
FireTimer ==
  /\ At("loop")
  /\ \E t \in timers : /\ timers' = timers \ {t}
                       /\ SettleTask(t, "ready")
  /\ UNCHANGED <<ttoken, members, any, scopeVars, coVars, ready, joins, ctrlVars>>

\* No further timer is due: poll the joins, then pick the next coroutine
\* unless one is loaded (the root, on the first iteration).
TimersDone ==
  /\ At("loop")
  /\ CallPoll(IF cur = None THEN "resume" ELSE "slice")
  /\ UNCHANGED <<taskVars, scopeVars, coVars, queueVars, woken, cur, sync, exit>>

AnyReady(j)  == \E i \in DOMAIN members[j] : Settled(members[j][i])
AllReady(j)  == \A i \in DOMAIN members[j] : Settled(members[j][i])
Resolvable(j) == IF any[j] THEN AnyReady(j) ELSE AllReady(j)

\* Mutant: WhenAll reports its first member only.
JoinOutcomeFirst(j) == tstate[members[j][1]]

\* WhenAny takes the result of the first member, in array order, that has
\* one; WhenAll fails with a member's error if there is one.
JoinFails(j) ==
  \E i \in DOMAIN members[j] :
    /\ tstate[members[j][i]] = "failed"
    /\ any[j] => \A k \in 1 .. i - 1 : ~Settled(members[j][k])

JoinOutcome(j) == IF JoinFails(j) THEN "failed" ELSE "ready"

\* One iteration of poll_joins.
PollResolved ==
  /\ At("poll") /\ polled < Len(joins)
  /\ LET j == joins[polled + 1] IN
       /\ Resolvable(j)
       /\ SettleTask(j, JoinOutcome(j))
  /\ joins' = SubSeq(joins, 1, polled) \o SubSeq(joins, polled + 2, Len(joins))
  /\ UNCHANGED <<ttoken, members, any, scopeVars, coVars, ready, timers, ctrlVars>>

\* Mutant: skips the join after a kept one.
PollKeptSkips ==
  /\ At("poll") /\ polled < Len(joins)
  /\ ~Resolvable(joins[polled + 1])
  /\ polled' = polled + 2
  /\ UNCHANGED <<taskVars, scopeVars, coVars, queueVars, woken, cur, sync, pc, ret, exit>>

PollKept ==
  /\ At("poll") /\ polled < Len(joins)
  /\ ~Resolvable(joins[polled + 1])
  /\ polled' = polled + 1
  /\ UNCHANGED <<taskVars, scopeVars, coVars, queueVars, woken, cur, sync, pc, ret, exit>>

PollDone ==
  /\ At("poll") /\ polled = Len(joins)
  /\ pc' = ret /\ polled' = 0 /\ ret' = "slice"
  /\ UNCHANGED <<taskVars, scopeVars, coVars, queueVars, woken, cur, sync, exit>>

\* Mutant: exits without looking at the timers.
NothingReadyExits ==
  /\ At("resume") /\ ready = <<>>
  /\ pc' = "done" /\ exit' = "idle"
  /\ UNCHANGED <<taskVars, scopeVars, coVars, queueVars, woken, cur, sync, polled, ret>>

\* resume_next with an empty queue: sleep until a timer is due, or the
\* program is idle and event_loop returns.
NothingReady ==
  /\ At("resume") /\ ready = <<>>
  /\ IF timers # {}
     THEN pc' = "loop" /\ UNCHANGED exit
     ELSE pc' = "done" /\ exit' = "idle"
  /\ UNCHANGED <<taskVars, scopeVars, coVars, queueVars, woken, cur, sync, polled, ret>>

\* The popped coroutine's await completed, or it was never run: load its frames.
ResumeRun(c) ==
  /\ cstat' = [cstat EXCEPT ![c] = "running"]
  /\ awaiting' = [awaiting EXCEPT ![c] = None]
  /\ cur' = c
  /\ pc' = "slice"
  /\ UNCHANGED <<tstate, waiters, woken, polled, ret>>

\* Mutants of ResumeFailed: the task of the dropped coroutine is forgotten; the
\* coroutine goes on as if the awaited task had completed.
ResumeFailedSilently(c) ==
  /\ cstat' = [cstat EXCEPT ![c] = "dropped"]
  /\ UNCHANGED <<tstate, waiters, woken, pc, polled, ret, awaiting, cur>>
ResumeFailedRuns(c) == ResumeRun(c)

\* The awaited task failed: the coroutine is dropped where it is parked, its
\* own task fails with the same error, and the next id is popped.
ResumeFailed(c) ==
  /\ cstat' = [cstat EXCEPT ![c] = "dropped"]
  /\ IF cotask[c] # None
     THEN SettleTask(cotask[c], "failed") /\ CallPoll("resume")
     ELSE UNCHANGED <<tstate, waiters, woken, pc, polled, ret>>
  /\ UNCHANGED <<awaiting, cur>>

\* Popped too early: back among the waiters, still parked.
ResumePending(c) ==
  /\ AddWaiter(awaiting[c], c)
  /\ UNCHANGED <<tstate, woken, cstat, awaiting, cur, pc, polled, ret>>

\* resume_next pops the front of the queue; an id that is not parked is skipped.
ResumeNext ==
  /\ At("resume") /\ ready # <<>>
  /\ ready' = Tail(ready)
  /\ LET c == Head(ready) IN
       IF cstat[c] # "parked"
       THEN UNCHANGED <<tstate, waiters, woken, cstat, awaiting, cur, pc, polled, ret>>
       ELSE IF awaiting[c] = None THEN ResumeRun(c)
       ELSE IF tstate[awaiting[c]] = "ready" THEN ResumeRun(c)
       ELSE IF tstate[awaiting[c]] = "failed" THEN ResumeFailed(c)
       ELSE ResumePending(c)
  /\ UNCHANGED <<ttoken, members, any, scopeVars, cotask, tries, timers, joins, sync, exit>>

-----------------------------------------------------------------------------
(* run_slice: operations of the running coroutine.                         *)

\* spawn_coroutine: parked with nothing to await, and queued.
Spawn(c, t) ==
  /\ cstat[c] = "unborn"
  /\ \A d \in Cos : cstat[d] = "unborn" => c <= d
  /\ cstat' = [cstat EXCEPT ![c] = "parked"]
  /\ cotask' = [cotask EXCEPT ![c] = t]
  /\ ready' = Push(ready, c)

\* Mutant: a cancelled token does not stop the new coroutine.
RunTaskIgnoringToken(scope) ==
  /\ At("slice")
  /\ \E t \in Tasks : CreateTask(t, "pending", scope) /\ \E c \in Cos : Spawn(c, t)
  /\ tracked' = IF scope = None THEN tracked
                ELSE [tracked EXCEPT ![scope] = Append(@, CHOOSE t \in Unborn : \A u \in Unborn : t <= u)]
  /\ UNCHANGED <<waiters, members, any, cancelled, todo, awaiting, tries,
                 timers, joins, woken, ctrlVars>>

\* A call of an async function (scope None), Task.Run with or without a token
\* and TaskGroup.Run: a cancelled token settles the new task at once and
\* spawns nothing.
RunTask(scope) ==
  /\ At("slice")
  /\ \E t \in Tasks :
       /\ IF scope \in cancelled
          THEN /\ CreateTask(t, "failed", scope)
               /\ UNCHANGED <<cstat, cotask, ready>>
          ELSE /\ CreateTask(t, "pending", scope)
               /\ \E c \in Cos : Spawn(c, t)
       /\ tracked' = IF scope = None THEN tracked
                     ELSE [tracked EXCEPT ![scope] = Append(@, t)]
  /\ UNCHANGED <<waiters, members, any, cancelled, todo, awaiting, tries,
                 timers, joins, woken, ctrlVars>>

\* Task.Delay with or without a token.
Delay(scope) ==
  /\ At("slice")
  /\ \E t \in Tasks :
       /\ CreateTask(t, IF scope \in cancelled THEN "failed" ELSE "pending", scope)
       /\ timers' = IF scope \in cancelled THEN timers ELSE timers \cup {t}
       /\ tracked' = IF scope = None THEN tracked
                     ELSE [tracked EXCEPT ![scope] = Append(@, t)]
  /\ UNCHANGED <<waiters, members, any, cancelled, todo, coVars, ready, joins,
                 woken, ctrlVars>>

\* Mutant: the new join is not polled.
NewJoinUnpolled(ts, isAny, scope) ==
  \E t \in Tasks :
    /\ CreateTask(t, IF ts = <<>> THEN "ready" ELSE "pending", scope)
    /\ members' = [members EXCEPT ![t] = ts]
    /\ any' = [any EXCEPT ![t] = isAny]
    /\ joins' = IF ts = <<>> THEN joins ELSE Append(joins, t)
    /\ UNCHANGED <<pc, polled, ret>>

\* create_join_task over the tasks ts; an empty array completes at once.
NewJoin(ts, isAny, scope) ==
  \E t \in Tasks :
    /\ CreateTask(t, IF ts = <<>> THEN "ready" ELSE "pending", scope)
    /\ members' = [members EXCEPT ![t] = ts]
    /\ any' = [any EXCEPT ![t] = isAny]
    /\ IF ts = <<>>
       THEN UNCHANGED <<joins, pc, polled, ret>>
       ELSE joins' = Append(joins, t) /\ CallPoll("slice")

JoinLists == UNION {[1 .. n -> Born] : n \in 0 .. MaxJoinLen}

\* Task.WhenAll / Task.WhenAny over an array of tasks the program holds.
Join ==
  /\ At("slice")
  /\ \E ts \in JoinLists, isAny \in BOOLEAN : NewJoin(ts, isAny, None)
  /\ UNCHANGED <<waiters, scopeVars, coVars, ready, timers, woken, cur, sync, exit>>

\* TaskGroup.WhenAll / TaskGroup.WhenAny: the tasks the group tracks now.
GroupJoin(g) ==
  /\ At("slice")
  /\ \E isAny \in BOOLEAN : NewJoin(tracked[g], isAny, g)
  /\ UNCHANGED <<waiters, scopeVars, coVars, ready, timers, woken, cur, sync, exit>>

\* CancellationTokenSource.Cancel and TaskGroup.Cancel.  A source none of
\* whose tokens is registered returns without polling.
Cancel(scope) ==
  /\ At("slice")
  /\ cancelled' = cancelled \cup {scope}
  /\ todo' = tracked[scope]
  /\ pc' = IF scope \in Sources /\ tracked[scope] = <<>> THEN "slice" ELSE "cancel"
  /\ UNCHANGED <<taskVars, tracked, coVars, queueVars, woken, cur, sync, polled, ret, exit>>

CancelNext ==
  /\ At("cancel") /\ todo # <<>>
  /\ SettleTask(Head(todo), "failed")
  /\ todo' = Tail(todo)
  /\ UNCHANGED <<ttoken, members, any, cancelled, tracked, coVars, queueVars, ctrlVars>>

CancelDone ==
  /\ At("cancel") /\ todo = <<>>
  /\ CallPoll("slice")
  /\ UNCHANGED <<taskVars, scopeVars, coVars, queueVars, woken, cur, sync, exit>>

\* An error reaches run_slice: the innermost try frame takes it, or the
\* coroutine's task fails, or (the root) the program ends with the error.
\* Every synchronous callback on the way has been left.
Raise ==
  /\ sync' = 0
  /\ IF tries[cur] > 0
     THEN /\ tries' = [tries EXCEPT ![cur] = @ - 1]
          /\ UNCHANGED <<tstate, waiters, woken, cstat, cur, polled, pc, ret, exit>>
     ELSE IF cotask[cur] # None
     THEN /\ SettleTask(cotask[cur], "failed")
          /\ cstat' = [cstat EXCEPT ![cur] = "ended"]
          /\ cur' = None
          /\ CallPoll("loop")
          /\ UNCHANGED <<tries, exit>>
     ELSE /\ cstat' = [cstat EXCEPT ![cur] = "ended"]
          /\ cur' = None
          /\ pc' = "done" /\ exit' = "error"
          /\ UNCHANGED <<tstate, waiters, woken, tries, polled, ret>>

\* Op::Throw, a failing native call, ThrowIfCancellationRequested.
Throw ==
  /\ At("slice")
  /\ Raise
  /\ UNCHANGED <<ttoken, members, any, scopeVars, awaiting, cotask, queueVars>>

\* Mutants of AwaitPark: the parked coroutine queues itself as well; the task's
\* state is not looked at before parking; sync_depth is not.
AwaitParkQueued ==
  /\ At("slice") /\ sync = 0
  /\ \E t \in Born : /\ tstate[t] = "pending"
                      /\ AddWaiter(t, cur)
                      /\ awaiting' = [awaiting EXCEPT ![cur] = t]
  /\ cstat' = [cstat EXCEPT ![cur] = "parked"]
  /\ ready' = Push(ready, cur)
  /\ cur' = None /\ pc' = "loop"
  /\ UNCHANGED <<tstate, ttoken, members, any, scopeVars, cotask, tries, timers, joins,
                 woken, sync, polled, ret, exit>>
AwaitParkUnchecked ==
  /\ At("slice") /\ sync = 0
  /\ \E t \in Born : /\ AddWaiter(t, cur)
                      /\ awaiting' = [awaiting EXCEPT ![cur] = t]
  /\ cstat' = [cstat EXCEPT ![cur] = "parked"]
  /\ cur' = None /\ pc' = "loop"
  /\ UNCHANGED <<tstate, ttoken, members, any, scopeVars, cotask, tries, queueVars,
                 woken, sync, polled, ret, exit>>

AwaitParkInCallback ==
  /\ At("slice")
  /\ \E t \in Born : /\ tstate[t] = "pending"
                      /\ AddWaiter(t, cur)
                      /\ awaiting' = [awaiting EXCEPT ![cur] = t]
  /\ cstat' = [cstat EXCEPT ![cur] = "parked"]
  /\ cur' = None /\ pc' = "loop"
  /\ UNCHANGED <<tstate, ttoken, members, any, scopeVars, cotask, tries, queueVars,
                 woken, sync, polled, ret, exit>>

\* Op::Await on a pending task parks the coroutine (park_await).
AwaitPark ==
  /\ At("slice") /\ sync = 0
  /\ \E t \in Born :
       /\ tstate[t] = "pending"
       /\ AddWaiter(t, cur)
       /\ awaiting' = [awaiting EXCEPT ![cur] = t]
  /\ cstat' = [cstat EXCEPT ![cur] = "parked"]
  /\ cur' = None
  /\ pc' = "loop"
  /\ UNCHANGED <<tstate, ttoken, members, any, scopeVars, cotask, tries, queueVars,
                 woken, sync, polled, ret, exit>>

\* Op::Await that raises: on a failed task, or on a pending one inside a
\* synchronous callback.  (On a completed task it only pushes the result.)
AwaitRaise ==
  /\ At("slice")
  /\ \E t \in Born : tstate[t] = "failed" \/ (tstate[t] = "pending" /\ sync > 0)
  /\ Raise
  /\ UNCHANGED <<ttoken, members, any, scopeVars, awaiting, cotask, queueVars>>

\* Op::TryBegin and Op::TryEnd.
TryBegin ==
  /\ At("slice") /\ tries[cur] < MaxTry
  /\ tries' = [tries EXCEPT ![cur] = @ + 1]
  /\ UNCHANGED <<taskVars, scopeVars, cstat, awaiting, cotask, queueVars, woken, ctrlVars>>

TryEnd ==
  /\ At("slice") /\ tries[cur] > 0
  /\ tries' = [tries EXCEPT ![cur] = @ - 1]
  /\ UNCHANGED <<taskVars, scopeVars, cstat, awaiting, cotask, queueVars, woken, ctrlVars>>

\* invoke_function: a native calls back into the program and returns.
SyncCall ==
  /\ At("slice") /\ sync < MaxSync
  /\ sync' = sync + 1
  /\ UNCHANGED <<taskVars, scopeVars, coVars, queueVars, woken, cur, polled, pc, ret, exit>>

SyncReturn ==
  /\ At("slice") /\ sync > 0
  /\ sync' = sync - 1
  /\ UNCHANGED <<taskVars, scopeVars, coVars, queueVars, woken, cur, polled, pc, ret, exit>>

\* Op::Return from the last frame of a spawned coroutine (finish_coroutine).
\* The root never gets here: its chunk ends with Op::Halt.
Finish ==
  /\ At("slice") /\ sync = 0 /\ cotask[cur] # None
  /\ SettleTask(cotask[cur], IF ttoken[cotask[cur]] \in cancelled THEN "failed" ELSE "ready")
  /\ cstat' = [cstat EXCEPT ![cur] = "ended"]
  /\ tries' = [tries EXCEPT ![cur] = 0]
  /\ cur' = None
  /\ CallPoll("loop")
  /\ UNCHANGED <<ttoken, members, any, scopeVars, awaiting, cotask, queueVars, sync, exit>>

\* Op::Halt, the last instruction of the root's chunk: event_loop returns.
Halt ==
  /\ At("slice") /\ sync = 0 /\ cur = Root
  /\ cstat' = [cstat EXCEPT ![Root] = "ended"]
  /\ cur' = None
  /\ pc' = "done" /\ exit' = "halt"
  /\ UNCHANGED <<taskVars, scopeVars, awaiting, cotask, tries, queueVars, woken,
                 sync, polled, ret>>

-----------------------------------------------------------------------------
Loop   == FireTimer \/ TimersDone
Poll   == PollResolved \/ PollKept \/ PollDone
Resume == NothingReady \/ ResumeNext
Slice  == \/ \E s \in Scopes \cup {None} : RunTask(s)
          \/ \E s \in Sources \cup {None} : Delay(s)
          \/ Join \/ \E g \in Groups : GroupJoin(g)
          \/ \E s \in Scopes : Cancel(s)
          \/ Throw \/ AwaitPark \/ AwaitRaise
          \/ TryBegin \/ TryEnd \/ SyncCall \/ SyncReturn
          \/ Finish \/ Halt

\* The process has exited.
Exited == pc = "done" /\ woken = <<>> /\ UNCHANGED vars

Next == PushWoken \/ Loop \/ Poll \/ Resume \/ Slice \/ CancelNext \/ CancelDone \/ Exited

Spec == Init /\ [][Next]_vars

\* The VM keeps running its loops; time passes, so an armed timer comes due;
\* and the program does not compute forever without awaiting or returning, in
\* a coroutine or in a callback.
SliceEnd == AwaitPark \/ Finish \/ Halt
Fairness ==
  /\ WF_vars(PushWoken \/ TimersDone \/ Poll \/ Resume \/ CancelNext \/ CancelDone)
  /\ SF_vars(FireTimer)
  /\ SF_vars(SliceEnd)
  /\ SF_vars(SyncReturn)

FairSpec == Spec /\ Fairness

-----------------------------------------------------------------------------
(* Correctness properties.                                                 *)

TaskStates == {"unborn", "pending", "ready", "failed"}
CoStates   == {"unborn", "parked", "running", "ended", "dropped"}

\* Every variable keeps its type.
TypeOK ==
  /\ tstate \in [Tasks -> TaskStates]
  /\ waiters \in [Tasks -> Seq(Cos)]
  /\ ttoken \in [Tasks -> Scopes \cup {None}]
  /\ members \in [Tasks -> Seq(Tasks)]
  /\ any \in [Tasks -> BOOLEAN]
  /\ cancelled \in SUBSET Scopes
  /\ tracked \in [Scopes -> Seq(Tasks)]
  /\ cstat \in [Cos -> CoStates]
  /\ awaiting \in [Cos -> Tasks \cup {None}]
  /\ cotask \in [Cos -> Tasks \cup {None}]
  /\ tries \in [Cos -> Nat]
  /\ ready \in Seq(Cos)
  /\ timers \in SUBSET Tasks
  /\ joins \in Seq(Tasks)
  /\ cur \in Cos \cup {None}
  /\ sync \in Nat
  /\ woken \in Seq(Cos)
  /\ todo \in Seq(Tasks)
  /\ polled \in 0 .. Len(joins)
  /\ pc \in {"loop", "poll", "resume", "slice", "cancel", "done"}
  /\ ret \in {"loop", "resume", "slice"}
  /\ exit \in {"none", "halt", "error", "idle"}

\* Where the VM executes or is about to execute program code, a coroutine's
\* frames are loaded.
CurLoaded ==
  pc \in {"slice", "cancel"} \/ (pc = "poll" /\ ret = "slice") => cur # None

\* A parked coroutine is never forgotten: while the task it awaits is pending
\* it is among that task's waiters, and from the moment the task settles it is
\* on its way to the ready queue (park_await against complete_task).
NoLostWakeup ==
  \A c \in Cos : cstat[c] = "parked" =>
    IF awaiting[c] # None /\ tstate[awaiting[c]] = "pending"
    THEN c \in RangeOf(waiters[awaiting[c]])
    ELSE c \in RangeOf(ready) \cup RangeOf(woken)

\* The ready queue holds only coroutines that can go on: resume_next's
\* "spurious ready id" and "still pending" branches are never taken, whatever
\* the order of timers, cancellations, joins and returns.
NoSpuriousWakeup ==
  \A c \in RangeOf(ready) \cup RangeOf(woken) :
    cstat[c] = "parked" /\ (awaiting[c] = None \/ Settled(awaiting[c]))

\* No orphan: whatever happened to its coroutine, to its timer or to its
\* scope, a pending task still has something that will settle it.
PendingHasSettler ==
  \A t \in Tasks : tstate[t] = "pending" =>
    \/ \E c \in Cos : cotask[c] = t /\ cstat[c] \in {"parked", "running"}
    \/ t \in timers
    \/ t \in RangeOf(joins)

\* poll_joins leaves nothing behind: whenever program code runs or a coroutine
\* is picked, no join is left whose members already decide it, joins of joins
\* included, although one pass visits each join once.
JoinsPolled ==
  pc \in {"slice", "resume", "done"} => \A j \in RangeOf(joins) : ~Resolvable(j)

\* A settled WhenAll reports a failure exactly when one of its members failed,
\* and then all of them are settled; a settled WhenAny has the outcome of a
\* member that is settled.
JoinsFaithful ==
  \A j \in Tasks : members[j] # <<>> /\ Settled(j) =>
    IF any[j] THEN \E i \in DOMAIN members[j] : tstate[members[j][i]] = tstate[j]
    ELSE /\ AllReady(j)
         /\ tstate[j] = "failed" <=> \E i \in DOMAIN members[j] : tstate[members[j][i]] = "failed"

\* Once a Cancel returned, every task its scope tracks is settled, including a
\* task that is started in the scope afterwards.
CancelReachesScope ==
  pc # "cancel" =>
    \A s \in cancelled : \A t \in RangeOf(tracked[s]) : Settled(t)

\* While a native function that called back is on the Rust stack, the coroutine
\* it belongs to stays the one that runs: no await, return, error or settling in
\* the callback gets the loop to another one.
CallbackOnTop ==
  sync > 0 => cur # None /\ cstat[cur] = "running" /\ pc # "resume"

\* The caller of an async function always gets an answer: a coroutine that is
\* over, by return, by error or dropped at its await, has settled its task.
EndedMeansSettled ==
  \A c \in Cos : cstat[c] \in {"ended", "dropped"} /\ cotask[c] # None
    => Settled(cotask[c])

\* A task settles once: a timer, a return, an error or a join that comes after
\* a cancellation (or the other way round) never changes the outcome.
SettledOnce ==
  [][\A t \in Tasks : Settled(t) => tstate'[t] = tstate[t]]_vars

\* A coroutine leaves its await only after the awaited task has settled, and it
\* runs on only if that task completed.
ResumeAfterSettled ==
  [][\A c \in Cos : cstat[c] = "parked" /\ awaiting[c] # None /\ cstat'[c] # "parked" =>
       /\ Settled(awaiting[c])
       /\ cstat'[c] = "running" => tstate[awaiting[c]] = "ready"]_vars

-----------------------------------------------------------------------------
(* Statements of the documentation and the tests that the code breaks.     *)

\* tests/async.rs task_group_cancel_wakes_waiters: awaiting a task that fails
\* enters the catch of the enclosing try.  A coroutine inside a try is thus
\* never dropped at its await.
HandlerNotDropped ==
  \A c \in Cos : cstat[c] = "dropped" => tries[c] = 0

\* The tests assert inside async Main and unwrap the result of the run: when
\* Main's task failed, the run does not end as a success.
FailureOfMainReported ==
  exit = "idle" => cstat[Root] # "dropped"

-----------------------------------------------------------------------------
\* Liveness: a coroutine whose awaited task settled is picked up, unless the
\* root halts or fails first: event_loop never returns idle over it.
WokenRuns ==
  \A c \in Cos :
    (cstat[c] = "parked" /\ (awaiting[c] = None \/ Settled(awaiting[c])))
      ~> (cstat[c] # "parked" \/ exit \in {"halt", "error"})

\* Liveness: every delay fires, unless the root halts or fails first.
DelaysFire ==
  \A t \in Tasks : (t \in timers) ~> (t \notin timers \/ exit \in {"halt", "error"})
=============================================================================
