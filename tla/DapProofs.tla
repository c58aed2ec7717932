----------------------------- MODULE DapProofs -----------------------------
(***************************************************************************)
(* For every program, every set of breakpoints and any number of requests: *)
(* a run stops only for a pause that is still to be answered, nothing runs *)
(* while the client believes that the program stands still, and debug_run  *)
(* passes no line with an accepted breakpoint (callbacks do).  The one     *)
(* thing to add to the properties is that the VM has the breakpoints the   *)
(* session accepted.                                                       *)
(***************************************************************************)
EXTENDS Dap, TLAPS

USE LinesAssumption, BoundsAssumption

BreakpointsArrived == bps = confirmed

IInv == TypeOK /\ PauseIsPending /\ RunsOnlyWhenTold /\ BreakpointsArrived

-----------------------------------------------------------------------------
(* The initial states.                                                     *)

\* A session that has just been launched satisfies the invariant.
LEMMA InitIInv == Init => IInv
<1> SUFFICES ASSUME Init PROVE IInv
  OBVIOUS
<1>1. TypeOK
  <2>1. PICK l \in Lines : /\ at = [line |-> l, depth |-> 1]
                           /\ last = IF stopOnEntry THEN l ELSE NoLine
    BY DEF Init
  <2>2. at \in Places /\ start \in Places /\ last \in Lines \cup {NoLine} /\ inside = 0
    BY <2>1 DEF Init, Places
  <2>3. pipe \in Seq(Message) /\ cmds \in Seq(Message) /\ hand \in Seq(Message) /\ Len(hand) <= 1
    BY DEF Init
  <2>4. launchBps \subseteq Lines /\ bps \subseteq Lines /\ confirmed \subseteq Lines
    BY DEF Init
  <2>5. /\ pc \in {"wait", "drain"} /\ mode \in Resumes \cup {"pause"}
        /\ told \in {"running", "stopped"}
    BY DEF Init, Resumes
  <2>6. sent \in 0..MaxReq /\ pending \subseteq 1..MaxReq
    BY DEF Init
  <2>7. inside \in 0..MaxDepth /\ (pc # "run" => inside = 0)
    BY <2>2
  <2>8. /\ patient \in BOOLEAN /\ stopOnEntry \in BOOLEAN /\ reader \in BOOLEAN
        /\ flag \in BOOLEAN /\ wantsStop \in BOOLEAN
    BY DEF Init
  <2> QED
    BY <2>2, <2>3, <2>4, <2>5, <2>6, <2>7, <2>8 DEF TypeOK
<1> QED
  BY <1>1 DEF IInv, PauseIsPending, RunsOnlyWhenTold, BreakpointsArrived, Init

-----------------------------------------------------------------------------
(* The client and the reader.                                              *)

\* A message of a client is a message.
LEMMA SendIInv ==
  ASSUME IInv, NEW kind \in Requests, NEW lines \in SUBSET Lines, Send(kind, lines)
  PROVE  IInv'
<1>1. TypeOK'
  <2>1. sent + 1 \in 1..MaxReq /\ sent' \in 0..MaxReq
    BY DEF IInv, TypeOK, Send
  <2>2. [id |-> sent + 1, kind |-> kind, lines |-> lines] \in Message
    BY <2>1 DEF Message
  <2>3. pipe' \in Seq(Message)
    BY <2>2 DEF IInv, TypeOK, Send
  <2>4. pending' \subseteq 1..MaxReq /\ wantsStop' \in BOOLEAN
    BY <2>1 DEF IInv, TypeOK, Send
  <2> QED
    BY <2>1, <2>3, <2>4 DEF IInv, TypeOK, Send, launch, program
<1> QED
  BY <1>1 DEF IInv, Send, PauseIsPending, RunsOnlyWhenTold, BreakpointsArrived

\* A pause that is taken is in the reader's hand when its flag is set.
LEMMA ReaderTakeIInv == ASSUME IInv, ReaderTake PROVE IInv'
<1>1. Head(pipe) \in Message /\ Tail(pipe) \in Seq(Message)
  BY DEF IInv, TypeOK, ReaderTake
<1>2. hand' \in Seq(Message) /\ Len(hand') <= 1
  BY <1>1 DEF ReaderTake
<1>3. TypeOK'
  BY <1>1, <1>2 DEF IInv, TypeOK, ReaderTake, answers, launch, program
<1>4. PauseIsPending'
  <2>1. CASE Head(pipe).kind = "pause"
    <3>1. hand' = <<Head(pipe)>> /\ hand' # <<>> /\ hand'[1].kind = "pause"
      BY <2>1 DEF ReaderTake
    <3> QED
      BY <3>1 DEF PauseIsPending
  <2>2. CASE Head(pipe).kind # "pause"
    <3>1. flag' = flag /\ hand = <<>> /\ cmds' = cmds /\ pc' = pc
      BY <2>2 DEF ReaderTake, IInv, TypeOK
    <3> QED
      BY <3>1 DEF PauseIsPending, IInv
  <2> QED
    BY <2>1, <2>2
<1> QED
  BY <1>3, <1>4 DEF IInv, ReaderTake, answers, RunsOnlyWhenTold, BreakpointsArrived

\* A pause that leaves the reader's hand is in the channel.
LEMMA ReaderSendIInv == ASSUME IInv, ReaderSend PROVE IInv'
<1>1. Head(hand) \in Message /\ Head(hand) = hand[1]
  BY DEF IInv, TypeOK, ReaderSend
<1>2. cmds' \in Seq(Message) /\ cmds' = Append(cmds, Head(hand))
  BY <1>1 DEF IInv, TypeOK, ReaderSend
<1>3. hand' \in Seq(Message) /\ Len(hand') <= 1 /\ reader' \in BOOLEAN
  BY DEF ReaderSend
<1>4. TypeOK'
  BY <1>2, <1>3 DEF IInv, TypeOK, ReaderSend, client, answers, launch, program
<1>5. PauseIsPending'
  <2> SUFFICES ASSUME pc = "run", flag
               PROVE  \E i \in 1..Len(cmds') : cmds'[i].kind = "pause"
    BY DEF PauseIsPending, ReaderSend
  <2>1. cmds \in Seq(Message) /\ Len(cmds) \in Nat /\ Len(cmds') = Len(cmds) + 1
    BY <1>1 DEF IInv, TypeOK, ReaderSend
  <2>2. CASE hand[1].kind = "pause"
    <3>1. cmds'[Len(cmds) + 1] = hand[1]
      BY <1>1, <1>2, <2>1
    <3> QED
      BY <2>1, <2>2, <3>1
  <2>3. CASE \E i \in 1..Len(cmds) : cmds[i].kind = "pause"
    <3>1. PICK i \in 1..Len(cmds) : cmds[i].kind = "pause"
      BY <2>3
    <3>2. i \in 1..Len(cmds') /\ cmds'[i] = cmds[i]
      BY <1>1, <1>2, <2>1
    <3> QED
      BY <3>1, <3>2
  <2> QED
    BY <2>2, <2>3 DEF PauseIsPending, IInv
<1> QED
  BY <1>4, <1>5 DEF IInv, ReaderSend, answers, RunsOnlyWhenTold, BreakpointsArrived

\* The reader that stops takes nothing with it.
LEMMA HangupIInv == ASSUME IInv, Hangup PROVE IInv'
BY DEF IInv, TypeOK, Hangup, client, answers, launch, program, PauseIsPending,
       RunsOnlyWhenTold, BreakpointsArrived

-----------------------------------------------------------------------------
(* The session.  Its steps have in common that they end where nothing      *)
(* runs, with a program that is about to run only if the client knows.     *)

Settled ==
  /\ pc' \in {"wait", "drain", "ended"} /\ mode' \in Resumes \cup {"pause"}
  /\ pc' = "drain" => told' = "running"
  /\ told' \in {"running", "stopped", "over"} /\ wantsStop' \in BOOLEAN
  /\ pending' \subseteq 1..MaxReq /\ flag' \in BOOLEAN
  /\ bps' \subseteq Lines /\ confirmed' \subseteq Lines /\ bps' = confirmed'
  /\ at' \in Places /\ start' \in Places /\ last' \in Lines \cup {NoLine} /\ inside' = 0

\* A new session starts at a line of the program, with the breakpoints of the
\* launch.
LEMMA RestartSettles ==
  ASSUME IInv, pc \in {"wait", "drain"}, NEW m, Restart(m) PROVE Settled
<1>1. pending' \subseteq 1..MaxReq
  BY DEF IInv, TypeOK, Restart, Answer
<1>2. CASE NewSession
  <2>1. PICK l \in Lines : /\ at' = [line |-> l, depth |-> 1]
                           /\ last' = IF stopOnEntry THEN l ELSE NoLine
    BY <1>2 DEF NewSession
  <2>2. at' \in Places /\ start' \in Places /\ last' \in Lines \cup {NoLine} /\ inside' = 0
    BY <1>2, <2>1 DEF NewSession, Places
  <2>3. /\ pc' \in {"wait", "drain"} /\ mode' \in Resumes \cup {"pause"}
        /\ pc' = "drain" => told' = "running"
        /\ told' \in {"running", "stopped"} /\ wantsStop' \in BOOLEAN
    BY <1>2 DEF NewSession, Tell, Resumes, IInv, TypeOK
  <2> QED
    BY <1>1, <1>2, <2>2, <2>3 DEF NewSession, Settled, IInv, TypeOK
<1>3. CASE End /\ Keep
  BY <1>1, <1>3 DEF End, Keep, Settled, IInv, TypeOK, program, BreakpointsArrived
<1> QED
  BY <1>2, <1>3 DEF Restart

\* What is settled, with one command fewer, satisfies the invariant.
LEMMA SettledIInv ==
  ASSUME IInv, Settled, cmds' \in Seq(Message), UNCHANGED <<client, hand, reader, launch>>
  PROVE  IInv'
BY DEF IInv, TypeOK, Settled, client, launch, PauseIsPending, RunsOnlyWhenTold,
       BreakpointsArrived

\* Every command leaves the session settled.
LEMMA WaitIInv == ASSUME IInv, Wait PROVE IInv'
<1>1. Head(cmds) \in Message /\ cmds' \in Seq(Message)
  BY DEF IInv, TypeOK, Wait
<1> DEFINE m == Head(cmds)
<1>2. m.lines \subseteq Lines
  BY <1>1 DEF Message
<1>3. \A x : Answer(x) => pending' \subseteq 1..MaxReq
  BY DEF Answer, IInv, TypeOK
<1>0. pc = "wait" /\ inside = 0
  BY DEF Wait, IInv, TypeOK
<1> HIDE DEF m
<1>4. Settled
  <2>1. CASE /\ m.kind \in Resumes
             /\ mode' = m.kind /\ pc' = "drain" /\ Answer(m) /\ Tell("running")
             /\ UNCHANGED <<flag, bps, confirmed, program>>
    BY <1>0, <1>3, <2>1 DEF Settled, Tell, IInv, TypeOK, program, BreakpointsArrived
  <2>2. CASE /\ m.kind \in {"pause", "inspect"}
             /\ Answer(m) /\ Keep
             /\ UNCHANGED <<flag, pc, mode, bps, confirmed, program>>
    BY <1>0, <1>3, <2>2 DEF Settled, Keep, IInv, TypeOK, program, BreakpointsArrived
  <2>3. CASE /\ m.kind = "setBreakpoints"
             /\ AcceptBreakpoints(m) /\ Answer(m) /\ Keep
             /\ UNCHANGED <<flag, pc, mode, program>>
    BY <1>0, <1>2, <1>3, <2>3 DEF Settled, AcceptBreakpoints, Keep, IInv, TypeOK, program
  <2>4. CASE m.kind = "restart" /\ Restart(m)
    BY <1>0, <2>4, RestartSettles
  <2>5. CASE m.kind = "disconnect" /\ End /\ Tell("over") /\ UNCHANGED pending
    BY <1>0, <2>5 DEF Settled, End, Tell, IInv, TypeOK, program, BreakpointsArrived
  <2> QED
    BY <2>1, <2>2, <2>3, <2>4, <2>5 DEF Wait, m
<1> QED
  BY <1>1, <1>4, SettledIInv DEF Wait

LEMMA DrainIInv == ASSUME IInv, Drain PROVE IInv'
<1>1. Head(cmds) \in Message /\ cmds' \in Seq(Message)
  BY DEF IInv, TypeOK, Drain
<1> DEFINE m == Head(cmds)
<1>2. m.lines \subseteq Lines
  BY <1>1 DEF Message
<1>3. \A x : Answer(x) => pending' \subseteq 1..MaxReq
  BY DEF Answer, IInv, TypeOK
<1>4. pc = "drain" /\ told = "running" /\ inside = 0
  BY DEF Drain, IInv, TypeOK, RunsOnlyWhenTold
<1> HIDE DEF m
<1>5. Settled
  <2>1. CASE /\ m.kind = "pause"
             /\ flag' = TRUE /\ Answer(m) /\ Keep
             /\ UNCHANGED <<pc, mode, bps, confirmed, program>>
    BY <1>3, <1>4, <2>1 DEF Settled, Keep, IInv, TypeOK, program, BreakpointsArrived
  <2>2. CASE /\ m.kind = "setBreakpoints"
             /\ AcceptBreakpoints(m) /\ Keep
             /\ UNCHANGED <<pending, flag, pc, mode, program>>
    BY <1>2, <1>4, <2>2 DEF Settled, AcceptBreakpoints, Keep, IInv, TypeOK, program
  <2>3. CASE m.kind = "restart" /\ Restart(m)
    BY <1>4, <2>3, RestartSettles
  <2>4. CASE m.kind = "disconnect" /\ End /\ Keep /\ UNCHANGED pending
    BY <1>4, <2>4 DEF Settled, End, Keep, IInv, TypeOK, program, BreakpointsArrived
  <2>5. CASE /\ m.kind \in Resumes \cup {"inspect"}
             /\ UNCHANGED <<answers, flag, pc, mode, bps, confirmed, program>>
    BY <1>4, <2>5 DEF Settled, answers, IInv, TypeOK, program, BreakpointsArrived
  <2> QED
    BY <2>1, <2>2, <2>3, <2>4, <2>5 DEF Drain, m
<1> QED
  BY <1>1, <1>5, SettledIInv DEF Drain

\* A run starts without a pause.
LEMMA LeaveIInv ==
  ASSUME IInv, WaitClosed \/ DrainDone \/ Start PROVE IInv'
<1>1. CASE WaitClosed
  BY <1>1 DEF WaitClosed, End, IInv, TypeOK, client, answers, launch, program,
     PauseIsPending, RunsOnlyWhenTold, BreakpointsArrived
<1>2. CASE DrainDone
  BY <1>2 DEF DrainDone, IInv, TypeOK, client, answers, launch, program,
     PauseIsPending, RunsOnlyWhenTold, BreakpointsArrived
<1>3. CASE Start
  <2>1. at.line \in Lines \cup {NoLine}
    BY DEF IInv, TypeOK, Places
  <2> QED
    BY <1>3, <2>1 DEF Start, Session, IInv, TypeOK, client, launch,
       PauseIsPending, RunsOnlyWhenTold, BreakpointsArrived
<1> QED
  BY <1>1, <1>2, <1>3

-----------------------------------------------------------------------------
(* debug_run.                                                              *)

\* The program stops and the client is told.
LEMMA StopIInv ==
  ASSUME IInv, Stop, at' \in Places, last' \in Lines \cup {NoLine} PROVE IInv'
BY DEF Stop, Tell, Session, IInv, TypeOK, client, launch,
       PauseIsPending, RunsOnlyWhenTold, BreakpointsArrived

LEMMA RunIInv == ASSUME IInv, PauseStop \/ Run PROVE IInv'
<1>1. at \in Places /\ last \in Lines \cup {NoLine} /\ at.line \in Lines \cup {NoLine}
  BY DEF IInv, TypeOK, Places
<1>2. CASE PauseStop
  BY <1>1, <1>2, StopIInv DEF PauseStop
<1>3. CASE BreakStop
  BY <1>1, <1>3, StopIInv DEF BreakStop
<1>4. CASE StepStop
  BY <1>1, <1>4, StopIInv DEF StepStop
<1>5. CASE Step
  BY <1>1, <1>5 DEF Step, Instruction, Session, IInv, TypeOK, client, launch,
     PauseIsPending, RunsOnlyWhenTold, BreakpointsArrived
<1>6. CASE Fail
  <2>1. at' \in Places /\ last' \in Lines \cup {NoLine}
    BY <1>1, <1>6 DEF Fail, Instruction
  <2> QED
    BY <1>6, <2>1, StopIInv DEF Fail
<1>7. CASE Terminate
  BY <1>1, <1>7 DEF Terminate, Instruction, Turn, Tell, Session, IInv, TypeOK, client, launch,
     PauseIsPending, RunsOnlyWhenTold, BreakpointsArrived
<1>8. CASE CallBack
  <2>1. at.depth \in 0..MaxDepth
    BY <1>1 DEF Places
  <2> QED
    BY <1>1, <1>8, <2>1 DEF CallBack, Instruction, Turn, Session, IInv, TypeOK, client, launch,
       PauseIsPending, RunsOnlyWhenTold, BreakpointsArrived
<1>9. CASE CallbackStep
  BY <1>1, <1>9 DEF CallbackStep, Session, IInv, TypeOK, client, launch,
     PauseIsPending, RunsOnlyWhenTold, BreakpointsArrived
<1>10. CASE CallbackFail
  <2>1. at' \in Places /\ last' \in Lines \cup {NoLine}
    BY <1>1, <1>10 DEF CallbackFail
  <2> QED
    BY <1>10, <2>1, StopIInv DEF CallbackFail
<1> QED
  BY <1>2, <1>3, <1>4, <1>5, <1>6, <1>7, <1>8, <1>9, <1>10 DEF Run

LEMMA NextIInv == ASSUME IInv, [Next]_vars PROVE IInv'
<1>1. CASE UNCHANGED vars
  BY <1>1 DEF vars, IInv, TypeOK, client, answers, launch, program, PauseIsPending,
     RunsOnlyWhenTold, BreakpointsArrived
<1>2. CASE \E kind \in Requests, lines \in SUBSET Lines : Send(kind, lines)
  BY <1>2, SendIInv
<1>3. CASE ReaderTake \/ ReaderSend \/ Hangup
  BY <1>3, ReaderTakeIInv, ReaderSendIInv, HangupIInv
<1>4. CASE SessionLoop
  BY <1>4, WaitIInv, DrainIInv, LeaveIInv DEF SessionLoop
<1>5. CASE PauseStop \/ Run
  BY <1>5, RunIInv
<1> QED
  BY <1>1, <1>2, <1>3, <1>4, <1>5 DEF Next

-----------------------------------------------------------------------------
(* The theorems.                                                           *)

\* The inductive invariant of a session: what its two threads and the VM have
\* to agree on after every step.
THEOREM InductiveInvariant == Spec => []IInv
<1>1. Init => IInv
  BY InitIInv
<1>2. IInv /\ [Next]_vars => IInv'
  BY NextIInv
<1> QED
  BY <1>1, <1>2, PTL DEF Spec

\* Type correctness of the session, the reader and the debugger's loop, for
\* any number of lines, frames and requests.
THEOREM DapTypeCorrect == Spec => []TypeOK
<1>1. IInv => TypeOK
  BY DEF IInv
<1> QED
  BY <1>1, InductiveInvariant, PTL

\* debug_run returns DebugStop::Pause only for a pause that is on its way from
\* the reader to the session loop, never for one that was answered before.
THEOREM PausesAreFresh == Spec => []PauseIsPending
<1>1. IInv => PauseIsPending
  BY DEF IInv
<1> QED
  BY <1>1, InductiveInvariant, PTL

\* The VM runs only between the answer to a resuming request (or a start
\* without stopOnEntry) and the next stopped event.
THEOREM StoppedMeansStopped == Spec => []RunsOnlyWhenTold
<1>1. IInv => RunsOnlyWhenTold
  BY DEF IInv
<1> QED
  BY <1>1, InductiveInvariant, PTL

\* debug_run executes an instruction of a line with an accepted, unconditional
\* breakpoint only after it has noted that line as its last one.  (The loop of
\* invoke_function does not look.)
THEOREM NoBreakpointPassed == Spec => BreakpointsHold
<1>1. ASSUME IInv, [Next]_vars PROVE [inside = 0 => ~Passes]_vars
  <2> SUFFICES ASSUME Next, inside = 0, Passes PROVE FALSE
    BY <1>1
  <2>1. bps = confirmed
    BY <1>1 DEF IInv, BreakpointsArrived
  <2>2. pc = "run" /\ at' # at /\ at.line \in confirmed \ Conditional /\ last # at.line
    BY DEF Passes
  <2>3. PassesBreakpoint
    <3>1. ~ (\E kind \in Requests, lines \in SUBSET Lines : Send(kind, lines))
      BY <2>2 DEF Send, program
    <3>2. ~ ReaderTake /\ ~ ReaderSend /\ ~ Hangup
      BY <2>2 DEF ReaderTake, ReaderSend, Hangup, program
    <3>3. ~ SessionLoop
      BY <2>2 DEF SessionLoop, Wait, WaitClosed, Drain, DrainDone, Start
    <3>4. ~ PauseStop /\ ~ BreakStop /\ ~ StepStop /\ ~ CallbackStep /\ ~ CallbackFail
      BY <2>2 DEF PauseStop, BreakStop, StepStop, CallbackStep, CallbackFail
    <3> QED
      BY <3>1, <3>2, <3>3, <3>4 DEF Next, Run, Step, CallBack, Fail, Terminate, Instruction
  <2> QED
    BY <2>1, <2>2, <2>3 DEF PassesBreakpoint, NewBreakpoint
<1> QED
  BY <1>1, InductiveInvariant, PTL DEF Spec, BreakpointsHold
=============================================================================
