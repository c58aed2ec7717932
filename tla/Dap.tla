-------------------------------- MODULE Dap --------------------------------
(***************************************************************************)
(* A debug session: the client, the thread that reads its requests, the    *)
(* session loop (run_debug_session in dap.rs) and the debugger's loop over *)
(* the VM (debug_run in vm.rs), from configurationDone to the end.  The    *)
(* reader and the main thread share a channel of commands and pause_flag;  *)
(* requests and answers go through pipes.                                  *)
(*                                                                         *)
(* The program is a place, a line and a depth of frames, that any          *)
(* instruction may move.  Natives, interfaces and collections call back:   *)
(* the frames of a callback are run by a loop of their own                 *)
(* (invoke_function), within one instruction of debug_run, and that loop   *)
(* knows nothing of the debugger.                                          *)
(*                                                                         *)
(* Requests that only look (stackTrace, scopes, variables, evaluate,       *)
(* threads) are "inspect"; those that the reader does not know are "other" *)
(***************************************************************************)
EXTENDS Naturals, Sequences, FiniteSets

CONSTANTS Lines,       \* lines of the program (of one file)
          Conditional, \* those whose breakpoints have a condition or a log
                       \* message: they need not stop
          MaxDepth,    \* bound: nested frames
          MaxReq       \* bound: requests of the client

ASSUME LinesAssumption == Lines \subseteq Nat \ {0} /\ Conditional \subseteq Lines
ASSUME BoundsAssumption == MaxDepth \in Nat \ {0} /\ MaxReq \in Nat

VARIABLES
  patient,     \* the client waits for an answer before it goes on, and does
               \* not ask a running program for anything but a pause
  sent,        \* number of requests sent
  pending,     \* those without an answer
  wantsStop,   \* the client asked a running program to pause, and has not
               \* been told that it stopped
  told,        \* the client's view of the program
  pipe,        \* requests on their way to the reader
  hand,        \* the command the reader is about to send
  reader,      \* the reader runs
  cmds,        \* the channel of commands
  flag,        \* pause_flag
  pc,          \* where the session loop is
  mode,        \* StepMode
  stopOnEntry, launchBps,    \* from the launch
  bps,         \* VmDebug.breakpoints: the lines that have one
  confirmed,   \* the breakpoints the session has accepted since it started
  at,          \* where the program is
  last,        \* VmDebug.last_line
  start,       \* where the program was when debug_run began
  inside       \* the depth of the frame whose instruction has called back,
               \* as long as invoke_function runs; 0 when debug_run does

client  == <<patient, sent, pipe>>
answers == <<pending, wantsStop, told>>
launch  == <<stopOnEntry, launchBps>>
program == <<at, last, start, inside>>
vars    == <<client, answers, hand, reader, cmds, flag, pc, mode, launch, bps,
             confirmed, program>>

NoLine == 0
Resumes  == {"continue", "next", "stepIn", "stepOut"}
Requests == Resumes \cup {"pause", "setBreakpoints", "inspect", "restart", "disconnect", "other"}
Message  == [id : 1..MaxReq, kind : Requests, lines : SUBSET Lines]
Places   == {[line |-> NoLine, depth |-> 0]} \cup [line : Lines, depth : 1..MaxDepth]

TypeOK ==
  /\ patient \in BOOLEAN /\ sent \in 0..MaxReq /\ pending \subseteq 1..MaxReq
  /\ wantsStop \in BOOLEAN /\ told \in {"running", "stopped", "over"}
  /\ pipe \in Seq(Message) /\ cmds \in Seq(Message)
  /\ hand \in Seq(Message) /\ Len(hand) <= 1
  /\ reader \in BOOLEAN /\ flag \in BOOLEAN
  /\ pc \in {"wait", "drain", "start", "run", "ended"}
  /\ mode \in Resumes \cup {"pause"}
  /\ stopOnEntry \in BOOLEAN /\ launchBps \subseteq Lines
  /\ bps \subseteq Lines /\ confirmed \subseteq Lines
  /\ at \in Places /\ start \in Places /\ last \in Lines \cup {NoLine}
  /\ inside \in 0..MaxDepth /\ (pc # "run" => inside = 0)

-----------------------------------------------------------------------------
(* The client and the reader.                                              *)

\* A patient client asks a stopped program for anything, a running one for a
\* pause, and never for what the reader does not know and nobody answers.
MaySend(kind) ==
  patient => /\ pending = {} /\ kind # "other"
             /\ IF kind = "pause" THEN told = "running" ELSE told = "stopped"

\* While the reader reads: the client has not closed its end, nor disconnected.
Send(kind, lines) ==
  /\ pc # "ended" /\ reader /\ sent < MaxReq /\ MaySend(kind)
  /\ kind # "setBreakpoints" => lines = {}
  /\ sent' = sent + 1
  /\ pending' = pending \cup {sent + 1}
  /\ wantsStop' = (wantsStop \/ (kind = "pause" /\ told = "running"))
  /\ pipe' = Append(pipe, [id |-> sent + 1, kind |-> kind, lines |-> lines])
  /\ UNCHANGED <<patient, told, hand, reader, cmds, flag, pc, mode, launch, bps,
                 confirmed, program>>

\* Mutant: the reader parses the next request before it has sent the last.
ReaderTakeAhead ==
  /\ reader /\ pipe # <<>>
  /\ pipe' = Tail(pipe)
  /\ hand' = IF Head(pipe).kind = "other" THEN hand ELSE Append(hand, Head(pipe))
  /\ flag' = (flag \/ Head(pipe).kind = "pause")
  /\ UNCHANGED <<patient, sent, answers, reader, cmds, pc, mode, launch, bps, confirmed, program>>

\* The reader stores the flag of a pause before it sends the command.
ReaderTake ==
  /\ reader /\ hand = <<>> /\ pipe # <<>>
  /\ pipe' = Tail(pipe)
  /\ hand' = IF Head(pipe).kind = "other" THEN <<>> ELSE <<Head(pipe)>>
  /\ flag' = (flag \/ Head(pipe).kind = "pause")
  /\ UNCHANGED <<patient, sent, answers, reader, cmds, pc, mode, launch, bps, confirmed, program>>

ReaderSend ==
  /\ hand # <<>>
  /\ cmds' = Append(cmds, Head(hand))
  /\ hand' = <<>>
  /\ reader' = (Head(hand).kind # "disconnect")
  /\ UNCHANGED <<client, answers, flag, pc, mode, launch, bps, confirmed, program>>

\* The client closes its end, and the reader with it.
Hangup ==
  /\ reader /\ hand = <<>> /\ pipe = <<>>
  /\ reader' = FALSE
  /\ UNCHANGED <<client, answers, hand, cmds, flag, pc, mode, launch, bps, confirmed, program>>

-----------------------------------------------------------------------------
(* The session.                                                            *)

\* Mutant: a request is served and not answered.
AnswerNothing(m) == UNCHANGED pending

\* respond_ok, and the responses with a body.
Answer(m) == pending' = pending \ {m.id}

Tell(view) ==
  /\ told' = view
  /\ wantsStop' = (wantsStop /\ view = "running")

Keep == UNCHANGED <<told, wantsStop>>

\* Mutant: the breakpoints of the session reach the VM with the next restart.
AcceptBreakpointsLate(m) == confirmed' = m.lines /\ UNCHANGED bps

\* breakpoints.insert, debug_set_breakpoints.
AcceptBreakpoints(m) == confirmed' = m.lines /\ bps' = m.lines

\* run_debug_session: the program is loaded again and starts at its first
\* line, with the breakpoints of the launch.
NewSession ==
  /\ flag' = FALSE
  /\ bps' = launchBps /\ confirmed' = launchBps
  /\ \E l \in Lines :
        /\ at' = [line |-> l, depth |-> 1]
        /\ last' = IF stopOnEntry THEN l ELSE NoLine
  /\ start' = at' /\ inside' = 0
  /\ IF stopOnEntry THEN pc' = "wait" /\ mode' = "pause" /\ Tell("stopped")
                    ELSE pc' = "drain" /\ mode' = "continue" /\ Tell("running")

End == pc' = "ended" /\ UNCHANGED <<mode, flag, bps, confirmed, program>>

\* The answer to a restart; the program may fail to load.
Restart(m) ==
  /\ Answer(m)
  /\ NewSession \/ (End /\ Keep)

\* A command taken by the loop that waits while the program is stopped.
Wait ==
  /\ pc = "wait" /\ cmds # <<>>
  /\ cmds' = Tail(cmds)
  /\ LET m == Head(cmds) IN
     \/ /\ m.kind \in Resumes
        /\ mode' = m.kind /\ pc' = "drain" /\ Answer(m) /\ Tell("running")
        /\ UNCHANGED <<flag, bps, confirmed, program>>
     \/ /\ m.kind \in {"pause", "inspect"}
        /\ Answer(m) /\ Keep
        /\ UNCHANGED <<flag, pc, mode, bps, confirmed, program>>
     \/ /\ m.kind = "setBreakpoints"
        /\ AcceptBreakpoints(m) /\ Answer(m) /\ Keep
        /\ UNCHANGED <<flag, pc, mode, program>>
     \/ m.kind = "restart" /\ Restart(m)
     \/ m.kind = "disconnect" /\ End /\ Tell("over") /\ UNCHANGED pending
  /\ UNCHANGED <<client, hand, reader, launch>>

\* The channel is closed: there is nobody to wait for.
WaitClosed ==
  /\ pc = "wait" /\ cmds = <<>> /\ ~reader
  /\ End
  /\ UNCHANGED <<client, answers, hand, reader, cmds, launch>>

\* The commands that are there when the program is about to run.
Drain ==
  /\ pc = "drain" /\ cmds # <<>>
  /\ cmds' = Tail(cmds)
  /\ LET m == Head(cmds) IN
     \/ /\ m.kind = "pause"
        /\ flag' = TRUE /\ Answer(m) /\ Keep
        /\ UNCHANGED <<pc, mode, bps, confirmed, program>>
     \/ /\ m.kind = "setBreakpoints"
        /\ AcceptBreakpoints(m) /\ Keep
        /\ UNCHANGED <<pending, flag, pc, mode, program>>
     \/ m.kind = "restart" /\ Restart(m)
     \/ m.kind = "disconnect" /\ End /\ Keep /\ UNCHANGED pending
     \/ /\ m.kind \in Resumes \cup {"inspect"}
        /\ UNCHANGED <<answers, flag, pc, mode, bps, confirmed, program>>
  /\ UNCHANGED <<client, hand, reader, launch>>

DrainDone ==
  /\ pc = "drain" /\ cmds = <<>>
  /\ pc' = "start"
  /\ UNCHANGED <<client, answers, hand, reader, cmds, flag, mode, launch, bps, confirmed, program>>

-----------------------------------------------------------------------------
(* debug_run.                                                              *)

Session == <<client, pending, hand, reader, cmds, launch, bps, confirmed>>

\* Mutant: a pause that is still set from an earlier run is kept.
StartKeepsPause ==
  /\ pc = "start"
  /\ pc' = "run" /\ flag' = flag
  /\ start' = at
  /\ last' = IF mode = "continue" THEN last ELSE at.line
  /\ UNCHANGED <<Session, told, wantsStop, mode, at, inside>>

Start ==
  /\ pc = "start"
  /\ pc' = "run" /\ flag' = FALSE
  /\ start' = at
  /\ last' = IF mode = "continue" THEN last ELSE at.line
  /\ UNCHANGED <<Session, told, wantsStop, mode, at, inside>>

\* What the session does when debug_run returns with the program stopped.
Stop ==
  /\ pc' = "wait" /\ mode' = "pause" /\ Tell("stopped") /\ inside' = 0
  /\ UNCHANGED <<Session, flag, start>>

\* A turn of debug_run's loop, which a callback keeps waiting.
Turn == pc = "run" /\ inside = 0

\* Every 64th turn of the loop looks at the flag.
PauseStop ==
  /\ Turn /\ flag
  /\ Stop /\ UNCHANGED <<at, last>>

NewBreakpoint == at.line \in bps /\ last # at.line

BreakStop ==
  /\ Turn /\ NewBreakpoint
  /\ Stop /\ last' = at.line /\ UNCHANGED at

StepEnds ==
  /\ at.depth > 0
  /\ \/ mode = "next" /\ at.depth <= start.depth /\ at.line # start.line
     \/ mode = "stepIn" /\ (at.line # start.line \/ at.depth > start.depth)
     \/ mode = "stepOut" /\ at.depth < start.depth

\* A condition that does not hold, or a log message, lets the program pass.
PassesBreakpoint == NewBreakpoint => at.line \in Conditional

StepStop ==
  /\ Turn /\ PassesBreakpoint /\ StepEnds
  /\ Stop /\ last' = at.line /\ UNCHANGED at

\* The program goes on by one instruction, which may call, return, await
\* (depth 0: the frames are parked) or fail; or, with no frames, by a
\* coroutine that is resumed or a timer that is waited for.
Instruction ==
  /\ Turn /\ PassesBreakpoint /\ ~StepEnds
  /\ last' = IF at.depth = 0 THEN last ELSE at.line

Step ==
  /\ Instruction
  /\ at' \in Places
  /\ at.depth # 0 => at'.depth <= at.depth + 1
  /\ UNCHANGED <<Session, told, wantsStop, flag, pc, mode, start, inside>>

\* The instruction calls back: a function given to a native, a method that an
\* operation of the VM calls, a destructor.
CallBack ==
  /\ Instruction
  /\ at.depth > 0 /\ at' \in Places /\ at'.depth = at.depth + 1
  /\ inside' = at.depth
  /\ UNCHANGED <<Session, told, wantsStop, flag, pc, mode, start>>

\* invoke_function goes on by one instruction, until the program is back in the
\* frame that called (or, after an exception, below it).  The error of a
\* destructor is dropped, and leaves the frames where they were.
CallbackStep ==
  /\ pc = "run" /\ inside > 0
  /\ at' \in Places /\ at'.depth \in 1..(at.depth + 1)
  /\ inside' \in (IF at'.depth > inside THEN {inside, 0} ELSE {0})
  /\ UNCHANGED <<Session, told, wantsStop, flag, pc, mode, last, start>>

\* The error of a callback is that of the instruction.
CallbackFail ==
  /\ pc = "run" /\ inside > 0
  /\ \E p \in Places : p.depth = at.depth /\ at' = p
  /\ Stop /\ UNCHANGED last

\* Mutant: the session reports an error and forgets to stop.
FailRunsOn ==
  /\ Instruction
  /\ \E p \in Places : p.depth = at.depth /\ at' = p
  /\ pc' = "drain" /\ Tell("stopped")
  /\ UNCHANGED <<Session, flag, mode, start, inside>>

\* DebugStop::Error, even inside a try statement.
Fail ==
  /\ Instruction
  /\ \E p \in Places : p.depth = at.depth /\ at' = p
  /\ Stop

\* DebugStop::Terminated.
Terminate ==
  /\ Instruction
  /\ pc' = "ended" /\ Tell("over")
  /\ UNCHANGED <<Session, flag, mode, at, start, inside>>

-----------------------------------------------------------------------------
Init ==
  /\ patient \in BOOLEAN /\ stopOnEntry \in BOOLEAN /\ launchBps \in SUBSET Lines
  /\ sent = 0 /\ pending = {} /\ wantsStop = FALSE
  /\ pipe = <<>> /\ hand = <<>> /\ reader = TRUE /\ cmds = <<>> /\ flag = FALSE
  /\ bps = launchBps /\ confirmed = launchBps
  /\ \E l \in Lines : at = [line |-> l, depth |-> 1] /\ last = IF stopOnEntry THEN l ELSE NoLine
  /\ start = at /\ inside = 0
  /\ pc = IF stopOnEntry THEN "wait" ELSE "drain"
  /\ mode = IF stopOnEntry THEN "pause" ELSE "continue"
  /\ told = IF stopOnEntry THEN "stopped" ELSE "running"

SessionLoop == Wait \/ WaitClosed \/ Drain \/ DrainDone \/ Start
Run         == BreakStop \/ StepStop \/ Step \/ CallBack \/ CallbackStep \/ CallbackFail
               \/ Fail \/ Terminate

Next ==
  \/ \E kind \in Requests, lines \in SUBSET Lines : Send(kind, lines)
  \/ ReaderTake
  \/ ReaderSend
  \/ Hangup
  \/ SessionLoop
  \/ PauseStop
  \/ Run

\* Both threads go on, and a run of the VM reaches its 64th turn time and
\* again, whether the program has frames to run or waits for a timer.
Fairness ==
  /\ WF_vars(ReaderTake) /\ WF_vars(ReaderSend)
  /\ WF_vars(SessionLoop) /\ WF_vars(Run)
  /\ SF_vars(PauseStop)

Spec == Init /\ [][Next]_vars /\ Fairness

-----------------------------------------------------------------------------
(* Properties.                                                             *)

\* A run is stopped by a pause only if that pause is still to be answered: one
\* that was answered while the program stood still (a breakpoint came first)
\* never stops the run that the client asks for afterwards.
PauseIsPending ==
  pc = "run" /\ flag =>
    \/ hand # <<>> /\ hand[1].kind = "pause"
    \/ \E i \in 1..Len(cmds) : cmds[i].kind = "pause"

\* Nothing is executed while the client believes that the program stands still:
\* whatever it looks at is not a moment old.
RunsOnlyWhenTold == pc \in {"drain", "start", "run"} => told = "running"

\* Executing an instruction of a line that was newly come to, and that has a
\* breakpoint the session accepted, before the program has stopped there.
Passes == pc = "run" /\ at' # at /\ at.line \in confirmed \ Conditional /\ last # at.line

\* debug_run passes no accepted breakpoint, after whatever callbacks and
\* restarts, and whenever the breakpoint was set.  What invoke_function runs
\* within one of its instructions passes them all, and is not included.
BreakpointsHold == [][inside = 0 => ~Passes]_vars

\* The requests that a patient client makes of a stopped program are answered,
\* and so is a pause that came too late, unless the session ends.
PatientServed ==
  (patient /\ told = "stopped" /\ pending # {}) ~> (pending = {} \/ pc = "ended")

\* A pause that a patient client asks of a running program stops it, unless it
\* ends or the client leaves first (debug_run: "Run until breakpoint, step
\* boundary, pause, ...").
PauseStops == (patient /\ wantsStop) ~> (~wantsStop \/ pc = "ended" \/ ~reader)
=============================================================================
