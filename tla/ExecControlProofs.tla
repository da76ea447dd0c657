-------------------------- MODULE ExecControlProofs --------------------------
(***************************************************************************)
(* Safety of the run control, for every program and every sequence of      *)
(* debugger commands: of the flags by which the debugger holds the         *)
(* execution thread, and of KillCurrentInstruction, by which the emulator  *)
(* thread ends it.  Without the second nothing asks the thread to end,     *)
(* which IInv says and KillSpec does not keep, so each specification has   *)
(* an inductive invariant of its own: IInv for Spec, KillInv for KillSpec. *)
(***************************************************************************)
EXTENDS ExecKill, TLAPS

Pending == IF epc \in InFlight THEN 1 ELSE 0

\* g_ExecutionRunning tells the truth: it is 1 from StartRunning until the
\* instruction is over, and 0 where the thread is parked or reports a hit.
RunningInv ==
    /\ epc \in (InFlight \ {"run"}) \cup {"hit"} => running = 1
    /\ epc \in {"start", "disallow", "raise", "notify", "park"} => running = 0

\* Nothing requests termination, and no thread runs before the first prompt.
ThreadInv ==
    /\ terminate = 0 /\ epc \notin {"term", "done"}
    /\ dpc \in Booting => epc = "start"

\* Who may have left g_AllowOneInstruction or g_ExecutionAllowed at 1.
RequestInv ==
    /\ dpc \notin {"stepAllow", "stepTaken"} => allowOne = 0
    /\ epc = "clearOne" => allowOne = 1
    /\ dpc \in {"firstWait", "pauseWait", "interruptWait", "unhandle"}
         => allowed = 0

\* At the prompt: at most the escaped instruction is, or has been, executed.
PromptInv ==
    dpc \in AtPrompt /\ escaped < 2
      => /\ executed + Pending <= escaped
         /\ allowed = 1 => epc = "disallow"

\* During a step that met no escaped instruction.
StepInv ==
    dpc \in Stepping /\ escaped < 2
      => /\ dpc \in {"step", "stepAllow"}
              => /\ executed = 0
                 /\ epc \notin InFlight
                 /\ allowed = 1 => epc = "disallow"
         /\ dpc = "stepAllow" => allowOne = 1
         /\ dpc = "stepTaken" /\ allowOne = 1
              => /\ executed = 0
                 /\ epc \notin InFlight \ {"run", "one", "clearOne"}
         /\ dpc \in {"stepTaken", "stepWait"} /\ allowOne = 0
              => /\ executed + Pending <= 1
                 /\ allowed = 1 => epc = "clearAllow"

\* Breakpoints: the look-up is skipped or overtaken only for an escaped
\* instruction.
BreakpointInv ==
    /\ bpEnabled = 0 => struck = {} /\ (bps = {} \/ dpc = "enable")
    /\ epc \in {"readd", "exec"} \cup Waiting /\ ip \in bps
         => escaped = 2 \/ (escaped = 1 /\ executed = 0)
    /\ epc \in {"look", "hit", "disallow"} => bpEnabled = 1

IInv ==
    /\ TypeOK /\ RunningInv /\ ThreadInv /\ RequestInv
    /\ PromptInv /\ StepInv /\ BreakpointInv

-----------------------------------------------------------------------------

LEMMA InitIInv == Init => IInv
  BY ProgramAssumption
     DEF Init, IInv, TypeOK, RunningInv, ThreadInv, RequestInv, PromptInv,
         StepInv, BreakpointInv, Bit, EventType, Pending, InFlight, HitLock,
         Waiting, ExecPC, AtPrompt, Stepping, Freed, Booting, DebugPC

LEMMA ExecutionIInv == IInv /\ ExecutionLoop => IInv'
  <1> SUFFICES ASSUME IInv, ExecutionLoop PROVE IInv'
    OBVIOUS
  <1> USE DEF IInv, TypeOK, RunningInv, ThreadInv, RequestInv, PromptInv,
              StepInv, BreakpointInv, Bit, EventType, Pending, InFlight,
              HitLock, Waiting, ExecPC, AtPrompt, Stepping, Freed, Booting, DebugPC,
              words, bpVars, eventVars, history, At, Debug
  <1>1. CASE StartExecution
    BY <1>1 DEF StartExecution
  <1>2. CASE LoopHead
    BY <1>2 DEF LoopHead
  <1>3. CASE TestAllowed
    BY <1>3 DEF TestAllowed
  <1>4. CASE StopRunning
    BY <1>4 DEF StopRunning
  <1>5. CASE Unpark
    BY <1>5 DEF Unpark
  <1>6. CASE StartRunning
    BY <1>6 DEF StartRunning
  <1>7. CASE TestAllowOne
    BY <1>7 DEF TestAllowOne
  <1>8. CASE ClearAllowOne
    BY <1>8 DEF ClearAllowOne
  <1>9. CASE ClearAllowed
    BY <1>9 DEF ClearAllowed
  <1>10. CASE TestBreakpoints
    BY <1>10 DEF TestBreakpoints
  <1>11. CASE LookUpBreakpoint
    BY <1>11 DEF LookUpBreakpoint
  <1>12. CASE HitStopRunning
    BY <1>12 DEF HitStopRunning
  <1>13. CASE HitDisallow
    BY <1>13 DEF HitDisallow
  <1>14. CASE RaiseBreakpoint
    BY <1>14 DEF RaiseBreakpoint
  <1>15. CASE NotifyBreakpoint
    BY <1>15 DEF NotifyBreakpoint
  <1>16. CASE ReaddBreakpoint
    BY <1>16 DEF ReaddBreakpoint
  <1>17. CASE Execute
    BY ProgramAssumption, <1>17 DEF Execute, FinishAt, Count
  <1>18. CASE BeginRaise
    BY <1>18 DEF BeginRaise
  <1> QED
    BY <1>1, <1>2, <1>3, <1>4, <1>5, <1>6, <1>7, <1>8, <1>9, <1>10, <1>11, <1>12, <1>13, <1>14, <1>15, <1>16, <1>17, <1>18 DEF ExecutionLoop

LEMMA AnswerIInv == IInv /\ Answer => IInv'
  <1> SUFFICES ASSUME IInv, Answer PROVE IInv'
    OBVIOUS
  <1> USE DEF IInv, TypeOK, RunningInv, ThreadInv, RequestInv, PromptInv,
              StepInv, BreakpointInv, Bit, EventType, Pending, InFlight,
              HitLock, Waiting, ExecPC, AtPrompt, Stepping, Freed, Booting,
              DebugPC, words, bpVars, eventVars, history, At, Debug
  <1>1. CASE FinishAt("lock")
    BY ProgramAssumption, <1>1 DEF FinishAt, Count
  <1>2. CASE Succeed
    BY ProgramAssumption, <1>2 DEF Succeed, FinishAt, Count
  <1>3. CASE At("lock", "handed")
               /\ UNCHANGED <<words, ip, bpVars, dpc, eventVars, spc, history>>
    BY <1>3
  <1> QED
    BY ONLY Answer, <1>1, <1>2, <1>3 DEF Answer, InsertEvent

LEMMA DebuggerIInv == IInv /\ MainLoop => IInv'
  <1> SUFFICES ASSUME IInv, MainLoop PROVE IInv'
    OBVIOUS
  <1> USE DEF IInv, TypeOK, RunningInv, ThreadInv, RequestInv, PromptInv,
              StepInv, BreakpointInv, Bit, EventType, Pending, InFlight,
              HitLock, Waiting, ExecPC, AtPrompt, Stepping, Freed, Booting, DebugPC,
              words, bpVars, eventVars, history, At, Debug
  <1>1. CASE PauseStore
    BY <1>1 DEF PauseStore
  <1>2. CASE PauseWait
    BY <1>2 DEF PauseWait, TakeOver, Escapes
  <1>3. CASE Unhandle
    BY <1>3 DEF Unhandle, TakeOver, Escapes
  <1>4. CASE ContinueAllow
    BY <1>4 DEF ContinueAllow
  <1>5. CASE StepAllowOne
    BY <1>5 DEF StepAllowOne
  <1>6. CASE StepAllow
    BY <1>6 DEF StepAllow
  <1>7. CASE StepTaken
    BY <1>7 DEF StepTaken
  <1>8. CASE StepDone
    BY <1>8 DEF StepDone, TakeOver, Escapes
  <1>9. CASE EnableBreakpoints
    BY <1>9 DEF EnableBreakpoints
  <1>10. CASE BeginHandling
    BY <1>10 DEF BeginHandling
  <1>11. CASE HandleEvents
    BY <1>11 DEF HandleEvents
  <1> QED
    BY <1>1, <1>2, <1>3, <1>4, <1>5, <1>6, <1>7, <1>8, <1>9, <1>10, <1>11 DEF MainLoop

LEMMA CommandIInv == IInv /\ Command => IInv'
  <1> SUFFICES ASSUME IInv, Command PROVE IInv'
    OBVIOUS
  <1> USE DEF IInv, TypeOK, RunningInv, ThreadInv, RequestInv, PromptInv,
              StepInv, BreakpointInv, Bit, EventType, Pending, InFlight,
              HitLock, Waiting, ExecPC, AtPrompt, Stepping, Freed, Booting, DebugPC,
              words, bpVars, eventVars, history, At, Debug
  <1>1. CASE CommandPause
    BY <1>1 DEF CommandPause
  <1>2. CASE CommandContinue
    BY <1>2 DEF CommandContinue, TakeOver, Escapes
  <1>3. CASE CommandStep
    BY <1>3 DEF CommandStep, TakeOver
  <1>4. ASSUME NEW a \in Addr, CommandBreakpoint(a) PROVE IInv'
    BY <1>4 DEF CommandBreakpoint
  <1>5. ASSUME NEW a \in Addr, CommandDelete(a) PROVE IInv'
    BY <1>5 DEF CommandDelete
  <1> QED
    BY <1>1, <1>2, <1>3, <1>4, <1>5 DEF Command

LEMMA SignalIInv == IInv /\ (Signal \/ SignalHandler) => IInv'
  <1> SUFFICES ASSUME IInv, (Signal \/ SignalHandler) PROVE IInv'
    OBVIOUS
  <1> USE DEF IInv, TypeOK, RunningInv, ThreadInv, RequestInv, PromptInv,
              StepInv, BreakpointInv, Bit, EventType, Pending, InFlight,
              HitLock, Waiting, ExecPC, AtPrompt, Stepping, Freed, Booting, DebugPC,
              words, bpVars, eventVars, history, At, Debug
  <1>1. CASE Signal
    BY <1>1 DEF Signal
  <1>2. CASE RaiseSignal
    BY <1>2 DEF RaiseSignal
  <1>3. CASE NotifySignal
    BY <1>3 DEF NotifySignal
  <1> QED
    BY <1>1, <1>2, <1>3 DEF SignalHandler

-----------------------------------------------------------------------------
(* The theorems.                                                           *)

\* IInv holds in every reachable state: each thread's steps preserve it.
THEOREM Invariance == Spec => []IInv
  <1>1. IInv /\ [Next]_vars => IInv'
    <2> SUFFICES ASSUME IInv, [Next]_vars PROVE IInv'
      OBVIOUS
    <2>1. CASE ExecutionLoop
      BY <2>1, ExecutionIInv
    <2>2. CASE MainLoop
      BY <2>2, DebuggerIInv
    <2>3. CASE Command
      BY <2>3, CommandIInv
    <2>4. CASE Signal \/ SignalHandler
      BY <2>4, SignalIInv
    <2>5. CASE Answer
      BY <2>5, AnswerIInv
    <2>6. CASE UNCHANGED vars
      BY <2>6 DEF vars, words, bpVars, eventVars, history, IInv, TypeOK,
         RunningInv, ThreadInv, RequestInv, PromptInv, StepInv,
         BreakpointInv, Pending
    <2> QED
      BY <2>1, <2>2, <2>3, <2>4, <2>5, <2>6 DEF Next, Threads
  <1> QED
    BY InitIInv, <1>1, PTL DEF Spec

\* Every variable keeps its type.
THEOREM TypeCorrect == Spec => []TypeOK
  BY Invariance, PTL DEF IInv

\* At the prompt no instruction executes but the one that escaped the pause.
THEOREM PauseCorrect == Spec => []PauseHolds
  <1>1. IInv => PauseHolds
    BY DEF IInv, TypeOK, PromptInv, PauseHolds, Pending
  <1> QED
    BY <1>1, Invariance, PTL

\* A step executes at most one instruction unless it was given while one
\* that had escaped the pause was in flight.
THEOREM StepCorrect == Spec => []StepBound
  <1>1. IInv => StepBound
    BY DEF IInv, TypeOK, Bit, StepInv, StepBound, Stepping, RequestInv,
           Pending, InFlight
  <1> QED
    BY <1>1, Invariance, PTL

\* The prompt leaves no request to run behind.
THEOREM RequestCorrect == Spec => []NoStaleRequest
  <1>1. IInv => NoStaleRequest
    BY DEF IInv, TypeOK, Bit, PromptInv, RequestInv, NoStaleRequest, AtPrompt
  <1> QED
    BY <1>1, Invariance, PTL

\* An instruction with a breakpoint in g_breakpoints is executed only as the
\* instruction that escaped the pause.
THEOREM BreakpointCorrect == Spec => BreakpointStops
  <1> DEFINE Stops == epc' = "head" /\ epc \in {"exec"} \cup Waiting
                          /\ ip \in bps
                        => escaped = 2 \/ (escaped = 1 /\ executed = 0)
  <1>1. IInv /\ [Next]_vars => [Stops]_vars
    BY DEF IInv, BreakpointInv
  <1> QED
    BY <1>1, Invariance, PTL DEF Spec, BreakpointStops

\* A user's breakpoint is disarmed without a delete only when another one is
\* hit while it waits to be put back.
THEOREM OverwriteCorrect == Spec => OnlyOverwritten
  <1> DEFINE Kept == \A a \in userBps \cap userBps' :
                       Armed(a) /\ ~Armed(a)'
                         => a \in struck /\ epc = "disallow" /\ a # ip
  <1>1. ASSUME Next, NEW a \in userBps \cap userBps', Armed(a), ~Armed(a)'
        PROVE  a \in struck /\ epc = "disallow" /\ a # ip
    <2>1. CASE HitDisallow
      BY <1>1, <2>1 DEF HitDisallow, Armed, At
    <2>2. CASE ReaddBreakpoint
      BY <1>1, <2>2 DEF ReaddBreakpoint, Armed
    <2>3. ASSUME NEW b \in Addr, CommandBreakpoint(b) \/ CommandDelete(b)
          PROVE  FALSE
      BY <1>1, <2>3 DEF CommandBreakpoint, CommandDelete, Armed
    <2>4. CASE UNCHANGED <<bps, struck>>
      BY <1>1, <2>4 DEF Armed
    <2> HIDE DEF Armed
    <2>5. CASE ExecutionLoop /\ ~HitDisallow /\ ~ReaddBreakpoint
      <3>1. UNCHANGED bpVars
        BY <2>5 DEF ExecutionLoop, StartExecution, LoopHead,
           TestAllowed, StopRunning, Unpark, StartRunning, TestAllowOne,
           ClearAllowOne, ClearAllowed, TestBreakpoints, LookUpBreakpoint,
           HitStopRunning, RaiseBreakpoint, NotifyBreakpoint, Execute,
           FinishAt, BeginRaise
      <3> QED
        BY <3>1, <2>4 DEF bpVars
    <2>6. CASE MainLoop
      <3>1. UNCHANGED <<bps, struck>>
        BY <2>6 DEF MainLoop, PauseStore, PauseWait, Unhandle, ContinueAllow,
           StepAllowOne, StepAllow, StepTaken, StepDone, EnableBreakpoints,
           BeginHandling, HandleEvents, bpVars
      <3> QED
        BY <3>1, <2>4
    <2>7. CASE CommandPause \/ CommandContinue \/ CommandStep
      BY <2>4, <2>7 DEF CommandPause, CommandContinue, CommandStep, bpVars
    <2>8. CASE Signal \/ SignalHandler
      BY <2>4, <2>8 DEF Signal, SignalHandler, RaiseSignal, NotifySignal, bpVars
    <2>9. CASE Answer
      BY <2>4, <2>9 DEF Answer, InsertEvent, Succeed, FinishAt, bpVars
    <2> QED
      BY <1>1, <2>1, <2>2, <2>3, <2>5, <2>6, <2>7, <2>8, <2>9
         DEF Next, Threads, Command
  <1>2. [Next]_vars => [Kept]_vars
    BY <1>1
  <1> QED
    BY <1>2, PTL DEF Spec, OnlyOverwritten

-----------------------------------------------------------------------------
(* KillCurrentInstruction.  The argument: a thread is at the end of        *)
(* ExecutionLoop only because g_TerminateExecution was 1, which only the   *)
(* emulator thread makes it; it withdraws the request before it starts the *)
(* next thread.                                                            *)

Ending == {"term", "done"}

\* The request to terminate and the end of the thread happen only between
\* RequestStop and JumpToHandler.
EndInv ==
    /\ kpc \in KillPC
    /\ terminate \in {0, 1}
    /\ terminate = 1 => kpc \in Stopping \cup (Restoring \ {"resume"})
    /\ epc \in Ending => kpc \in Stopping \cup Restoring
    /\ epc = "done" => running = 0

\* The saved request is 0, and is restored when the thread has ended.
SavedInv ==
    /\ saved \in [terminate : {0}, allowed : Nat, allowOne : Nat]
    /\ allowed \in Nat /\ allowOne \in Nat
    /\ kpc \in Restoring => epc = "done"

KillInv == EndInv /\ SavedInv

-----------------------------------------------------------------------------

LEMMA InitKillInv == KillInit => KillInv
  BY DEF KillInit, Init, KillInv, EndInv, SavedInv, KillPC, Stopping,
         Restoring, Ending

\* A step of the execution thread: it ends only if asked to.
LEMMA ExecutionKillInv ==
    KillInv /\ (ExecutionLoop \/ Terminate \/ Answer) /\ UNCHANGED killVars
      => KillInv'
  <1> SUFFICES ASSUME KillInv, UNCHANGED killVars,
                      ExecutionLoop \/ Terminate \/ Answer
               PROVE  KillInv'
    OBVIOUS
  <1> USE DEF KillInv, EndInv, SavedInv, Ending, Stopping, Restoring,
              killVars, words, At
  <1>1. CASE LoopHead
    BY <1>1 DEF LoopHead
  <1>2. CASE Terminate
    BY <1>2 DEF Terminate
  <1>3. CASE TestAllowed
    BY <1>3 DEF TestAllowed
  <1>4. CASE TestAllowOne \/ TestBreakpoints \/ LookUpBreakpoint
    BY <1>4 DEF TestAllowOne, TestBreakpoints, LookUpBreakpoint
  <1>5. CASE StopRunning \/ StartRunning \/ HitStopRunning
    BY <1>5 DEF StopRunning, StartRunning, HitStopRunning
  <1>6. CASE ClearAllowOne
    BY <1>6 DEF ClearAllowOne
  <1>7. CASE ClearAllowed \/ HitDisallow
    BY <1>7 DEF ClearAllowed, HitDisallow
  <1>8. CASE StartExecution \/ Unpark \/ RaiseBreakpoint \/ NotifyBreakpoint
             \/ ReaddBreakpoint \/ Execute \/ BeginRaise
    BY <1>8 DEF StartExecution, Unpark, RaiseBreakpoint, NotifyBreakpoint,
       ReaddBreakpoint, Execute, FinishAt, BeginRaise
  <1>9. CASE Answer
    BY <1>9 DEF Answer, InsertEvent, Succeed, FinishAt
  <1> QED
    BY <1>1, <1>2, <1>3, <1>4, <1>5, <1>6, <1>7, <1>8, <1>9 DEF ExecutionLoop

\* The debugger and the signal handler move neither thread; a continue may
\* only withdraw the request.
LEMMA DebuggerKillInv ==
    KillInv /\ (MainLoop \/ Command \/ Signal \/ SignalHandler)
      /\ UNCHANGED killVars => KillInv'
  <1> SUFFICES ASSUME KillInv, UNCHANGED killVars,
                      MainLoop \/ Command \/ Signal \/ SignalHandler
               PROVE  KillInv'
    OBVIOUS
  <1>1. /\ UNCHANGED <<epc, running>>
        /\ terminate' \in {0, terminate}
        /\ allowed' \in {0, 1, allowed}
        /\ allowOne' \in {0, 1, allowOne}
    <2>1. CASE MainLoop
      BY <2>1 DEF MainLoop, PauseStore, PauseWait, Unhandle, ContinueAllow,
         StepAllowOne, StepAllow, StepTaken, StepDone, EnableBreakpoints,
         BeginHandling, HandleEvents, words
    <2>2. CASE Command
      BY <2>2 DEF Command, CommandPause, CommandContinue, CommandStep,
         CommandBreakpoint, CommandDelete, words
    <2>3. CASE Signal \/ SignalHandler
      BY <2>3 DEF Signal, SignalHandler, RaiseSignal, NotifySignal, words
    <2> QED
      BY <2>1, <2>2, <2>3
  <1> QED
    BY <1>1 DEF KillInv, EndInv, SavedInv, Ending, Stopping, Restoring,
       killVars

\* A step of the emulator thread.
LEMMA EmulatorKillInv ==
    KillInv /\ (SaveTerminate \/ KillCurrentInstruction) => KillInv'
  <1> SUFFICES ASSUME KillInv, SaveTerminate \/ KillCurrentInstruction
               PROVE  KillInv'
    OBVIOUS
  <1> USE DEF KillInv, EndInv, SavedInv, KillPC, Saving, Stopping, Restoring,
              Ending, Kill
  <1>1. CASE SaveTerminate
    BY <1>1 DEF SaveTerminate, vars, words
  <1>2. CASE SaveAllowed \/ SaveAllowOne
    BY <1>2 DEF SaveAllowed, SaveAllowOne, vars, words
  <1>3. CASE RequestStop
    BY <1>3 DEF RequestStop
  <1>4. CASE SpinWhileRunning \/ JoinExecution
    BY <1>4 DEF SpinWhileRunning, JoinExecution, vars, words
  <1>5. CASE RestoreAllowOne \/ RestoreAllowed \/ RestoreTerminate
    BY <1>5 DEF RestoreAllowOne, RestoreAllowed, RestoreTerminate
  <1>6. CASE JumpToHandler
    BY <1>6 DEF JumpToHandler, words
  <1> QED
    BY <1>1, <1>2, <1>3, <1>4, <1>5, <1>6 DEF KillCurrentInstruction

\* KillInv holds in every reachable state.
THEOREM KillInvariance == KillSpec => []KillInv
  <1>1. KillInv /\ [KillNext]_allVars => KillInv'
    <2> SUFFICES ASSUME KillInv, [KillNext]_allVars PROVE KillInv'
      OBVIOUS
    <2>1. CASE Threads /\ UNCHANGED killVars
      BY <2>1, ExecutionKillInv, DebuggerKillInv DEF Threads
    <2>2. CASE SaveTerminate \/ KillCurrentInstruction
      BY <2>2, EmulatorKillInv
    <2>3. CASE UNCHANGED allVars
      BY <2>3 DEF allVars, vars, words, killVars, KillInv, EndInv, SavedInv
    <2>4. CASE ExecutionEnds \/ AnswerEvent
      BY <2>4, ExecutionKillInv DEF ExecutionEnds, AnswerEvent
    <2> QED
      BY <2>1, <2>2, <2>3, <2>4 DEF KillNext
  <1> QED
    BY InitKillInv, <1>1, PTL DEF KillSpec

\* From the join to the jump no execution thread exists, whatever the
\* debugger does meanwhile.
THEOREM StoppedCorrect == KillSpec => []OneExecutionThread
  <1>1. KillInv => OneExecutionThread
    BY DEF KillInv, EndInv, SavedInv, OneExecutionThread
  <1> QED
    BY <1>1, KillInvariance, PTL

\* The thread that runs the handler is not asked to end by the request that
\* ended its predecessor.
THEOREM WithdrawnCorrect == KillSpec => []TerminateWithdrawn
  <1>1. KillInv => TerminateWithdrawn
    BY DEF KillInv, EndInv, TerminateWithdrawn, Stopping, Restoring
  <1> QED
    BY <1>1, KillInvariance, PTL

=============================================================================
