-------------------------- MODULE EventLoopRefines --------------------------
(* EventLoop implements AsyncTasks: the queues, the timers, the joins and    *)
(* the scopes are hidden, and a parked coroutine that awaits nothing (just   *)
(* spawned) is able to run.                                                  *)
EXTENDS EventLoop

Waiting(c) == cstat[c] = "parked" /\ awaiting[c] # None

Phase(c) ==
  CASE cstat[c] = "unborn"               -> "unborn"
    [] Waiting(c)                        -> "waiting"
    [] cstat[c] \in {"ended", "dropped"} -> "over"
    [] OTHER                             -> "able"

Async == INSTANCE AsyncTasks WITH
  outcome  <- tstate,
  phase    <- [c \in Cos |-> Phase(c)],
  waitsFor <- [c \in Cos |-> IF Waiting(c) THEN awaiting[c] ELSE None],
  owns     <- cotask

\* Every behaviour of the scheduler is one the language promises.
AsyncSpec == Async!Spec
=============================================================================
