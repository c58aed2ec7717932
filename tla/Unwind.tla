------------------------------- MODULE Unwind -------------------------------
(***************************************************************************)
(* Exceptions in the bytecode VM: call frames, the try stack and the       *)
(* synchronous callbacks of native functions (vm.rs), driven by the code   *)
(* that the compiler emits for try statements, return, break and calls     *)
(* (compiler.rs).  One coroutine, no awaits: EventLoop has those.          *)
(*                                                                         *)
(* The VM knows nothing of the try statements it executes, only the        *)
(* handlers that TryBegin pushed; `open' says which try bodies the program *)
(* is really in.  Catch and finally blocks are ordinary code that follows  *)
(* the body: the compiler puts a finally block after the last catch block, *)
(* reached when the body or a catch block ends and in no other way.        *)
(***************************************************************************)
EXTENDS Naturals, Sequences

CONSTANTS Fns,        \* compiled functions (chunks)
          Main,       \* the one a run starts with
          MaxFrames,  \* bound: nested calls
          MaxTry,     \* bound: handlers, try bodies entered and not left
          Leaves      \* how a program may leave a try body other than by its
                      \* end or an exception that crosses no native function:
                      \* "return", "break" (or continue), "callback" (an
                      \* exception caught in the callback it was raised in);
                      \* or a destructor by an exception: "destructor"

ASSUME BoundsAssumption == MaxFrames \in Nat \ {0} /\ MaxTry \in Nat
ASSUME FnsAssumption == Main \in Fns
ASSUME LeavesAssumption == Leaves \subseteq {"return", "break", "callback", "destructor"}

VARIABLES frames,   \* Vm.frames: the function a frame executes, and whether a
                    \* native function called it back
          tries,    \* Vm.try_stack: the function a handler is in, and the
                    \* number of frames when it was pushed
          syncs,    \* the running invoke_function loops: the number of frames
                    \* each waits to get back to, and whether it runs a
                    \* destructor for the collector, which ignores its errors
          outcome,  \* of the run
          open      \* the frames of the try bodies the program is in,
                    \* innermost last

vars == <<frames, tries, syncs, outcome, open>>

Frame   == [fn : Fns, callback : BOOLEAN]
Handler == [fn : Fns, frameLen : 1..MaxFrames]
Sync    == [depth : 1..MaxFrames, destructor : BOOLEAN]

TypeOK ==
    /\ frames \in Seq(Frame) /\ Len(frames) <= MaxFrames
    /\ tries \in Seq(Handler)
    /\ syncs \in Seq(Sync)
    /\ outcome \in {"running", "done", "uncaught"}
    /\ open \in Seq(1..MaxFrames)
    /\ outcome = "running" => frames # <<>>

Depth == Len(frames)
Top(s) == s[Len(s)]
Pop(s) == SubSeq(s, 1, Len(s) - 1)
Running == outcome = "running"

Init ==
    /\ frames = <<[fn |-> Main, callback |-> FALSE]>>
    /\ tries = <<>> /\ syncs = <<>> /\ open = <<>>
    /\ outcome = "running"

-----------------------------------------------------------------------------
(* Calls.                                                                  *)

Call(f) ==
    /\ Running /\ Depth < MaxFrames
    /\ frames' = Append(frames, [fn |-> f, callback |-> FALSE])
    /\ UNCHANGED <<tries, syncs, outcome, open>>

(* A native function calls back, or a collection runs a destructor:        *)
(* invoke_function pushes the frame and steps the VM until it is gone.     *)
Callback(f, destructor) ==
    /\ Running /\ Depth < MaxFrames
    /\ frames' = Append(frames, [fn |-> f, callback |-> TRUE])
    /\ syncs' = Append(syncs, [depth |-> Depth, destructor |-> destructor])
    /\ UNCHANGED <<tries, outcome, open>>

\* Mutant: the loop of invoke_function waits for one frame less.
ReturnSyncLate ==
    IF syncs # <<>> /\ Depth - 1 < Top(syncs).depth THEN Pop(syncs) ELSE syncs

(* A loop of invoke_function ends when the frame it pushed is gone.        *)
ReturnSync ==
    IF syncs # <<>> /\ Depth - 1 <= Top(syncs).depth THEN Pop(syncs) ELSE syncs

(* The bodies of `open' in the first d frames: it is ordered by frames.     *)
UpTo(d) == SubSeq(open, 1, CHOOSE n \in 0..Len(open) :
                              \A i \in 1..Len(open) : open[i] <= d <=> i <= n)

(* Op::Return, the value going to the caller or ending the run.  The       *)
(* compiler emits it alone, whatever try statements enclose it.            *)
Return ==
    /\ Running
    /\ "return" \notin Leaves => \A i \in 1..Len(open) : open[i] < Depth
    /\ frames' = Pop(frames)
    /\ syncs' = ReturnSync
    /\ outcome' = IF Depth = 1 THEN "done" ELSE "running"
    /\ open' = UpTo(Depth - 1)
    /\ UNCHANGED tries

-----------------------------------------------------------------------------
(* Try statements.                                                         *)

\* Mutant: the handler remembers the frame below.
TryBeginShallow ==
    /\ Running /\ Len(open) < MaxTry /\ Len(tries) < MaxTry
    /\ syncs # <<>> => "callback" \in Leaves
    /\ tries' = Append(tries, [fn |-> Top(frames).fn, frameLen |-> Depth - 1])
    /\ open' = Append(open, Depth)
    /\ UNCHANGED <<frames, syncs, outcome>>

(* Op::TryBegin.                                                           *)
TryBegin ==
    /\ Running /\ Len(open) < MaxTry /\ Len(tries) < MaxTry
    /\ syncs # <<>> => "callback" \in Leaves
    /\ tries' = Append(tries, [fn |-> Top(frames).fn, frameLen |-> Depth])
    /\ open' = Append(open, Depth)
    /\ UNCHANGED <<frames, syncs, outcome>>

\* Mutant: the body ends without taking its handler away.
TryEndStays ==
    /\ Running /\ open # <<>> /\ Top(open) = Depth
    /\ open' = Pop(open)
    /\ UNCHANGED <<frames, tries, syncs, outcome>>

(* The end of the body, Op::TryEnd and the jump over the catch blocks; or  *)
(* a break or continue out of a loop around the statement, a jump alone.   *)
TryEnd ==
    /\ Running /\ open # <<>> /\ Top(open) = Depth
    /\ open' = Pop(open)
    /\ \E jump \in (IF "break" \in Leaves THEN BOOLEAN ELSE {FALSE}) :
          tries' = IF jump \/ tries = <<>> THEN tries ELSE Pop(tries)
    /\ UNCHANGED <<frames, syncs, outcome>>

-----------------------------------------------------------------------------
(* Exceptions.                                                             *)

\* Mutant: the frames of the callees stay.
LandHigh(h) == [frames EXCEPT ![Len(frames)].fn = h.fn]

(* frames.truncate(frame_len), and the frame that is then the last goes on *)
(* at the handler.                                                         *)
Land(h) ==
    LET n == IF h.frameLen < Depth THEN h.frameLen ELSE Depth IN
    [SubSeq(frames, 1, n) EXCEPT ![n].fn = h.fn]

(* The loops that run a destructor.                                        *)
Destructors == {k \in 1..Len(syncs) : syncs[k].destructor}

(* Without one the error passes through every invoke_function and native   *)
(* call on the Rust stack up to run_slice, which takes the last handler.   *)
ToHandler ==
    /\ syncs' = <<>>
    /\ open' = IF open = <<>> THEN open ELSE Pop(open)
    /\ IF tries = <<>>
       THEN outcome' = "uncaught" /\ UNCHANGED <<frames, tries>>
       ELSE /\ frames' = Land(Top(tries))
            /\ tries' = Pop(tries)
            /\ UNCHANGED outcome

(* Otherwise it gets as far as the innermost gc_collect, which drops it;   *)
(* the frames stay as they are.                                            *)
ToCollector ==
    LET k == CHOOSE k \in Destructors : \A j \in Destructors : j <= k IN
    /\ syncs' = SubSeq(syncs, 1, k - 1)
    /\ open' = UpTo(syncs[k].depth)
    /\ UNCHANGED <<frames, tries, outcome>>

(* An instruction fails: Op::Throw, a failing native function, the throw   *)
(* that follows the catch blocks when none matches.                        *)
Raise ==
    /\ Running
    /\ Destructors # {} => "destructor" \in Leaves
    /\ IF Destructors = {} THEN ToHandler ELSE ToCollector

Next ==
    \/ \E f \in Fns : Call(f)
    \/ \E f \in Fns, destructor \in BOOLEAN : Callback(f, destructor)
    \/ Return
    \/ TryBegin
    \/ TryEnd
    \/ Raise

Spec == Init /\ [][Next]_vars

-----------------------------------------------------------------------------
(***************************************************************************)
(* Properties.                                                             *)
(***************************************************************************)

(* The handlers are those of the try bodies the program is in, in their    *)
(* order, each in the frame that entered it: an exception reaches the      *)
(* innermost enclosing catch, and no other.                                *)
HandlersMatchProgram ==
    Running =>
       /\ Len(tries) = Len(open)
       /\ \A i \in 1..Len(tries) :
             /\ tries[i].frameLen = open[i]
             /\ open[i] <= Depth
             /\ tries[i].fn = frames[open[i]].fn

(* A frame executes the code of its own function from its call to its end. *)
FrameKeepsItsCode ==
    [][\A i \in 1..Depth : i <= Len(frames') => frames'[i].fn = frames[i].fn]_vars

(* Every callback frame has the native function that waits for it, and no  *)
(* native function waits for a frame that is gone: a native function that  *)
(* called back gets its answer or is unwound together with its caller.     *)
CallbacksReturnToNatives ==
    Running => LET C == {i \in 1..Depth : frames[i].callback} IN
               /\ \A i \in C : \E k \in 1..Len(syncs) : syncs[k].depth = i - 1
               /\ \A k \in 1..Len(syncs) : syncs[k].depth + 1 \in C

(* An exception raised outside every try body ends the run as uncaught.    *)
UncaughtEndsTheRun ==
    [][Raise /\ open = <<>> /\ Destructors = {} => outcome' = "uncaught"]_vars
=============================================================================
