----------------------------- MODULE MCProgress -----------------------------
(***************************************************************************)
(* What must happen in the end: coroutines that were woken run, delays     *)
(* fire, destructors of swept objects run.  The scheduler and the heap     *)
(* have no state in common (coroutines are one program to the heap), so a  *)
(* behaviour is one of either, with its fairness, while the other stays    *)
(* where it starts.                                                        *)
(***************************************************************************)
EXTENDS EventLoopRefines

CONSTANTS MaxObj, MaxNative, LetsGo

VARIABLES part,   \* "scheduler" or "heap"
          born, boxes, heap, stale, finalized, refs, held, handles, result,
          awaited, gcJoins, native, calls

Heap == INSTANCE GcHeap WITH Tasks <- {}, tracked <- heap, awaiting <- awaited, joins <- gcJoins

heapVars == <<born, boxes, heap, stale, finalized, refs, held, handles, result,
              awaited, gcJoins, native, calls>>

EitherInit == part \in {"scheduler", "heap"} /\ Init /\ Heap!Init
EitherNext ==
    /\ UNCHANGED part
    /\ \/ part = "scheduler" /\ Next /\ UNCHANGED heapVars
       \/ part = "heap" /\ Heap!Next /\ UNCHANGED vars

EitherSpec ==
    /\ EitherInit /\ [][EitherNext]_<<part, vars, heapVars>>
    /\ part = "scheduler" => Fairness
    /\ part = "heap" => Heap!Fairness

FinalizersRun == Heap!FinalizersRun
=============================================================================
