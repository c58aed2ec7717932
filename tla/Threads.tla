------------------------------- MODULE Threads -------------------------------
(***************************************************************************)
(* bstd.threads: one channel and one mutex, shared by the coroutines of    *)
(* the VM.  There is one OS thread: coroutines take turns at awaits, and   *)
(* Thread.Run calls its function then and there (vm.rs, THREAD_RUN), where *)
(* no await may park.  What a coroutine does next is its program's choice. *)
(* Messages are told apart by a number; null is not sent, because a null   *)
(* message and the end of the channel look the same to the receiver.       *)
(***************************************************************************)
EXTENDS Naturals, Sequences, SequencesExt

CONSTANTS Coroutines, MaxMessages, MaxUpdates, MaxDepth

VARIABLES messages, closed,     \* the VecDeque and the flag behind the channel's mutex
          cell,                 \* the value in the mutex: a counter
          cur,                  \* the coroutine that runs
          copies,               \* for each coroutine the local copy of each of its nested calls
          accepted, received,   \* history: what Send took, what Recv and TryRecv gave
          ended,                \* history: a Recv has answered null
          updates,              \* history: Lock .. Unlock(copy + 1) rounds
          lapsed,               \* history: somebody awaited or ran a thread between Lock and Unlock
          blocked               \* the VM's thread waits on the condition variable
threads == <<messages, closed, cell, cur, copies, accepted, received, ended, updates, lapsed, blocked>>

NoCopy == 0
channel == <<messages, closed, accepted, received, ended, blocked>>
mutex == <<cell, updates, lapsed>>

ThreadsInit ==
    /\ messages = <<>> /\ closed = FALSE /\ cell = 1 /\ cur \in Coroutines
    /\ copies = [c \in Coroutines |-> <<NoCopy>>]
    /\ accepted = <<>> /\ received = <<>> /\ ended = FALSE
    /\ updates = 0 /\ lapsed = FALSE /\ blocked = FALSE

Copy == Last(copies[cur])
Holding == Copy # NoCopy

-----------------------------------------------------------------------------
(* Channel.  A Send to a closed channel is an error, which ends the sender's  *)
(* turn at its own choice and changes nothing.                                *)
Send ==
    /\ ~closed /\ Len(accepted) < MaxMessages
    /\ messages' = Append(messages, Len(accepted) + 1)
    /\ accepted' = Append(accepted, Len(accepted) + 1)
    /\ UNCHANGED <<closed, received, ended, blocked, mutex, cur, copies>>

TakeFirst ==
    /\ received' = Append(received, Head(messages))
    /\ messages' = Tail(messages)
    /\ UNCHANGED <<closed, accepted, ended, blocked>>

\* The mutant looks at the flag before the queue.
RecvClosedFirst ==
    /\ \/ messages # <<>> /\ ~closed /\ TakeFirst
       \/ closed /\ ended' = TRUE /\ UNCHANGED <<messages, closed, accepted, received, blocked>>
       \/ messages = <<>> /\ ~closed /\ blocked' = TRUE
          /\ UNCHANGED <<messages, closed, accepted, received, ended>>
    /\ UNCHANGED <<mutex, cur, copies>>

(* A Recv on an empty channel that is open waits for a notification, and      *)
(* nobody is left to send one: the thread that waits is the only one.         *)
Recv ==
    /\ \/ messages # <<>> /\ TakeFirst
       \/ messages = <<>> /\ closed /\ ended' = TRUE
          /\ UNCHANGED <<messages, closed, accepted, received, blocked>>
       \/ messages = <<>> /\ ~closed /\ blocked' = TRUE
          /\ UNCHANGED <<messages, closed, accepted, received, ended>>
    /\ UNCHANGED <<mutex, cur, copies>>

TryRecv ==
    /\ messages # <<>> /\ TakeFirst
    /\ UNCHANGED <<mutex, cur, copies>>

Close ==
    /\ closed' = TRUE
    /\ UNCHANGED <<messages, accepted, received, ended, blocked, mutex, cur, copies>>

-----------------------------------------------------------------------------
(* Mutex.  Lock and TryLock copy the value and let go of the lock before      *)
(* they return; Unlock stores a value, whoever calls it.                      *)
Lock ==
    /\ copies' = [copies EXCEPT ![cur] = Append(Front(@), cell)]
    /\ UNCHANGED <<channel, mutex, cur>>

\* The mutant stores the value in a copy of the guarded value.
UnlockOnCopy ==
    /\ Holding /\ updates < MaxUpdates
    /\ updates' = updates + 1
    /\ copies' = [copies EXCEPT ![cur] = Append(Front(@), NoCopy)]
    /\ UNCHANGED <<channel, cell, lapsed, cur>>
Unlock ==
    /\ Holding /\ updates < MaxUpdates
    /\ cell' = Copy + 1 /\ updates' = updates + 1
    /\ copies' = [copies EXCEPT ![cur] = Append(Front(@), NoCopy)]
    /\ UNCHANGED <<channel, lapsed, cur>>

-----------------------------------------------------------------------------
(* The turns of the coroutines.  Op::Await parks at depth 0 only.             *)
Await ==
    /\ Len(copies[cur]) = 1
    /\ cur' \in Coroutines
    /\ lapsed' = (lapsed \/ (Holding /\ cur' # cur))
    /\ UNCHANGED <<channel, cell, updates, copies>>

ThreadRun ==
    /\ Len(copies[cur]) <= MaxDepth
    /\ copies' = [copies EXCEPT ![cur] = Append(@, NoCopy)]
    /\ lapsed' = (lapsed \/ Holding)
    /\ UNCHANGED <<channel, cell, updates, cur>>

ThreadDone ==
    /\ Len(copies[cur]) > 1
    /\ copies' = [copies EXCEPT ![cur] = Front(@)]
    /\ UNCHANGED <<channel, mutex, cur>>

ThreadsNext ==
    /\ ~blocked
    /\ \/ Send \/ Recv \/ TryRecv \/ Close \/ Lock \/ Unlock
       \/ Await \/ ThreadRun \/ ThreadDone

ThreadsSpec == ThreadsInit /\ [][ThreadsNext]_threads

-----------------------------------------------------------------------------
(* Whoever sends and receives, inside a thread or not, every message that was *)
(* accepted is received once and in order, and a receiver that is told the     *)
(* end has missed none: after it nothing arrives any more.                     *)
ChannelDelivers ==
    /\ received \o messages = accepted
    /\ ended => closed /\ messages = <<>>

(* Rounds of Lock .. Unlock(copy + 1) add up, unless somebody awaited, or ran *)
(* a thread, between the two: the lock itself is not held there.               *)
UpdatesAddUp == lapsed \/ cell = updates + 1
=============================================================================
