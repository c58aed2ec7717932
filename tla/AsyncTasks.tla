----------------------------- MODULE AsyncTasks -----------------------------
(***************************************************************************)
(* What the async surface of the language promises a program, with no      *)
(* queue, timer, join or scope in sight: a task settles at most once; a    *)
(* coroutine that awaits continues only after the task completed and is    *)
(* over if it failed; and a coroutine that is over has settled the task    *)
(* its caller holds.  EventLoop implements it (module EventLoopRefines).   *)
(***************************************************************************)
CONSTANTS Tasks, Cos, Root, None

VARIABLES
  outcome,    \* task -> "unborn", "pending", "ready" or "failed"
  phase,      \* coroutine -> "unborn", "able", "waiting" or "over"
  waitsFor,   \* coroutine -> the task it waits for
  owns        \* coroutine -> the task its end settles

vars == <<outcome, phase, waitsFor, owns>>

Init ==
  /\ outcome = [t \in Tasks |-> "unborn"]
  /\ phase = [c \in Cos |-> IF c = Root THEN "able" ELSE "unborn"]
  /\ waitsFor = [c \in Cos |-> None]
  /\ owns = [c \in Cos |-> None]

\* A new task: pending, or settled from the start.
Create(t, o) ==
  /\ outcome[t] = "unborn"
  /\ outcome' = [outcome EXCEPT ![t] = o]
  /\ UNCHANGED <<phase, waitsFor, owns>>

\* A new task and the coroutine that will settle it.
Start(c, t) ==
  /\ outcome[t] = "unborn" /\ phase[c] = "unborn"
  /\ outcome' = [outcome EXCEPT ![t] = "pending"]
  /\ phase' = [phase EXCEPT ![c] = "able"]
  /\ owns' = [owns EXCEPT ![c] = t]
  /\ UNCHANGED waitsFor

\* A timer, a join or a cancellation settles a pending task.
Settle(t, o) ==
  /\ outcome[t] = "pending"
  /\ outcome' = [outcome EXCEPT ![t] = o]
  /\ UNCHANGED <<phase, waitsFor, owns>>

Await(c, t) ==
  /\ phase[c] = "able" /\ outcome[t] = "pending"
  /\ phase' = [phase EXCEPT ![c] = "waiting"]
  /\ waitsFor' = [waitsFor EXCEPT ![c] = t]
  /\ UNCHANGED <<outcome, owns>>

Continue(c) ==
  /\ phase[c] = "waiting" /\ outcome[waitsFor[c]] = "ready"
  /\ phase' = [phase EXCEPT ![c] = "able"]
  /\ waitsFor' = [waitsFor EXCEPT ![c] = None]
  /\ UNCHANGED <<outcome, owns>>

\* The end of coroutine c settles the task it owns, if nothing did before.
OwnedSettled(c, o) ==
  outcome' = IF owns[c] # None /\ outcome[owns[c]] = "pending"
             THEN [outcome EXCEPT ![owns[c]] = o] ELSE outcome

Abandon(c) ==
  /\ phase[c] = "waiting" /\ outcome[waitsFor[c]] = "failed"
  /\ phase' = [phase EXCEPT ![c] = "over"]
  /\ waitsFor' = [waitsFor EXCEPT ![c] = None]
  /\ OwnedSettled(c, "failed")
  /\ UNCHANGED owns

End(c, o) ==
  /\ phase[c] = "able"
  /\ phase' = [phase EXCEPT ![c] = "over"]
  /\ OwnedSettled(c, o)
  /\ UNCHANGED <<waitsFor, owns>>

Next ==
  \/ \E t \in Tasks : \E o \in {"pending", "ready", "failed"} : Create(t, o)
  \/ \E t \in Tasks, o \in {"ready", "failed"} : Settle(t, o)
  \/ \E c \in Cos, t \in Tasks : Start(c, t) \/ Await(c, t)
  \/ \E c \in Cos : Continue(c) \/ Abandon(c)
  \/ \E c \in Cos, o \in {"ready", "failed"} : End(c, o)

Spec == Init /\ [][Next]_vars

\* The promise to the caller of an async function: once its coroutine is over
\* the task it was given is settled.
OverMeansSettled ==
  \A c \in Cos : phase[c] = "over" /\ owns[c] # None => outcome[owns[c]] \in {"ready", "failed"}
=============================================================================
