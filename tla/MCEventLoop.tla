---------------------------- MODULE MCEventLoop ----------------------------
(***************************************************************************)
(* EventLoop for TLC: callbacks and try frames are looked at beside two    *)
(* tasks, the other operations beside all of them.                         *)
(***************************************************************************)
EXTENDS EventLoopRefines

Plain == sync = 0 /\ \A c \in Cos : tries[c] = 0
Focus == Plain \/ Cardinality(Born) <= 2
=============================================================================
