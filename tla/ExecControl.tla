---------------------------- MODULE ExecControl ----------------------------
(***************************************************************************)
(* Run control of the emulator: the execution thread, the debugger thread  *)
(* and the four atomic words they share                                    *)
(* (src/Emulator/src/Instruction/Instruction.cpp:46-49, 180-298,           *)
(*  src/Emulator/src/DebugInterface.cpp:140-255, 296-347).                 *)
(*                                                                         *)
(* One action is one access to a word the threads share; what a thread     *)
(* does between two such accesses is merged with one of them.  A section   *)
(* under g_breakpointsLock or under the lock of m_eventQueue is one action *)
(* unless it touches one of the atomics: the breakpoint-hit section does,  *)
(* so the execution thread owns g_breakpointsLock while epc is in HitLock. *)
(*                                                                         *)
(* Abstracted: addresses are opaque, an instruction is a move of IP along  *)
(* Succ, and m_eventQueue is the set of the queued event types, because    *)
(* the debugger drains the whole queue and every type interrupts           *)
(* execution.  The emulator thread is seen only where an instruction       *)
(* waits for it (Waiting): nothing is assumed of when, or whether, it      *)
(* answers.  That is the subject of the modules EventLoop and ExecKill.    *)
(*                                                                         *)
(* A definition marked "Mutant" is a faulty variant of the one after it;   *)
(* the specification does not use it.                                      *)
(***************************************************************************)
EXTENDS Naturals

CONSTANTS Addr,   \* instruction addresses
          Entry,  \* where execution starts
          Succ,   \* Succ[a]: addresses that may follow a
          DebugEnabled \* debugConsoleMode is not "disabled"

ASSUME ProgramAssumption ==
    /\ Entry \in Addr
    /\ Succ \in [Addr -> SUBSET Addr]
    /\ \A a \in Addr : Succ[a] # {}
    /\ DebugEnabled \in BOOLEAN

EventType == {"Breakpoint", "Signal"}

VARIABLES
    allowed,      \* g_ExecutionAllowed
    running,      \* g_ExecutionRunning
    terminate,    \* g_TerminateExecution
    allowOne,     \* g_AllowOneInstruction
    epc,          \* where the execution thread is in ExecutionLoop
    ip,           \* the IP register, which the loop re-reads at its head
    bps,          \* keys of g_breakpoints
    bpEnabled,    \* g_breakpointsEnabled
    struck,       \* {g_CurrentBreakpoint.first} if g_breakpointHit, else {}
    dpc,          \* where the debugger thread is in MainLoop
    eventQueue,   \* types of the events in m_eventQueue
    eventPending, \* m_eventPending
    handling,     \* m_handlingEvents
    spc,          \* where the SIGINT handler is
    executed,     \* history: instructions since the prompt or last command
    escaped,      \* history: 1 if an instruction was in flight at that
                  \* moment, 2 once a step was given while one was
    userBps       \* history: breakpoints set and not deleted by the user

words     == <<allowed, running, terminate, allowOne>>
bpVars    == <<bps, bpEnabled, struck>>
eventVars == <<eventQueue, eventPending, handling>>
history   == <<executed, escaped, userBps>>
vars      == <<words, epc, ip, bpVars, dpc, eventVars, spc, history>>

-----------------------------------------------------------------------------
(* Program points.                                                         *)

\* Points past the test of g_ExecutionAllowed: one instruction is on its way.
InFlight == {"run", "one", "clearOne", "clearAllow", "check", "look",
             "readd", "exec", "lock", "handed"}

\* The instruction raises an event of the emulator: it waits for the lock of
\* g_events, or, after a jump, an exception or a change of MMU, for the thread
\* that is to succeed it.  g_ExecutionRunning stays 1.
Waiting == {"lock", "handed"}

\* The points at which the execution thread owns g_breakpointsLock.
HitLock == {"hit", "disallow"}

ExecPC == InFlight \cup HitLock \cup
          {"start", "head", "allow", "unrun", "park", "raise", "notify",
           "term", "done"}

\* The debugger shows its prompt, or runs a command that does not resume.
AtPrompt == {"prompt", "pause", "pauseWait", "enable"}
Stepping == {"step", "stepAllow", "stepTaken", "stepWait"}
Freed    == {"contAllow", "handle", "wait", "interrupt", "interruptWait",
             "unhandle"}
Booting  == {"first", "firstWait"}
DebugPC  == AtPrompt \cup Stepping \cup Freed \cup Booting \cup {"absent"}

At(from, to)    == epc = from /\ epc' = to
Debug(from, to) == dpc = from /\ dpc' = to

Init ==
    /\ allowed = 1 /\ running = 0 /\ terminate = 0 /\ allowOne = 0
    /\ epc = "start" /\ ip = Entry
    /\ bps = {} /\ bpEnabled = 0 /\ struck = {}
    /\ dpc = IF DebugEnabled THEN "first" ELSE "absent"
    /\ eventQueue = {} /\ eventPending = 0 /\ handling = 0
    /\ spc = "idle"
    /\ executed = 0 /\ escaped = 0 /\ userBps = {}

-----------------------------------------------------------------------------
(* The execution thread: ExecutionLoop.                                    *)

\* EmulatorMain creates the thread after the debugger's first prompt
\* (InterfaceInit waits on m_waitLock for it).
StartExecution ==
    /\ dpc \notin Booting
    /\ At("start", "head")
    /\ UNCHANGED <<words, ip, bpVars, dpc, eventVars, spc, history>>

LoopHead ==
    /\ epc = "head"
    /\ epc' = IF terminate = 1 THEN "term" ELSE "allow"
    /\ UNCHANGED <<words, ip, bpVars, dpc, eventVars, spc, history>>

\* Mutant: the loop ends without reporting that it stopped running.
TerminateSilently ==
    /\ At("term", "done")
    /\ UNCHANGED <<words, ip, bpVars, dpc, eventVars, spc, history>>

\* Only an interrupt asks for it: a step of module ExecKill.
Terminate ==
    /\ At("term", "done")
    /\ running' = 0
    /\ UNCHANGED <<allowed, terminate, allowOne, ip, bpVars, dpc, eventVars,
                   spc, history>>

TestAllowed ==
    /\ epc = "allow"
    /\ epc' = IF allowed = 0 THEN "unrun" ELSE "run"
    /\ UNCHANGED <<words, ip, bpVars, dpc, eventVars, spc, history>>

StopRunning ==
    /\ At("unrun", "park")
    /\ running' = 0
    /\ UNCHANGED <<allowed, terminate, allowOne, ip, bpVars, dpc, eventVars,
                   spc, history>>

\* g_ExecutionAllowed.wait(0), then continue.
Unpark ==
    /\ allowed = 1
    /\ At("park", "head")
    /\ UNCHANGED <<words, ip, bpVars, dpc, eventVars, spc, history>>

\* Mutant: g_ExecutionRunning counts instead of being a flag.
CountRunning ==
    /\ At("run", "one")
    /\ running' = running + 1
    /\ UNCHANGED <<allowed, terminate, allowOne, ip, bpVars, dpc, eventVars,
                   spc, history>>

StartRunning ==
    /\ At("run", "one")
    /\ running' = 1
    /\ UNCHANGED <<allowed, terminate, allowOne, ip, bpVars, dpc, eventVars,
                   spc, history>>

TestAllowOne ==
    /\ epc = "one"
    /\ epc' = IF allowOne = 1 THEN "clearOne" ELSE "check"
    /\ UNCHANGED <<words, ip, bpVars, dpc, eventVars, spc, history>>

ClearAllowOne ==
    /\ At("clearOne", "clearAllow")
    /\ running' = 1
    /\ allowOne' = 0
    /\ UNCHANGED <<allowed, terminate, ip, bpVars, dpc, eventVars, spc,
                   history>>

ClearAllowed ==
    /\ At("clearAllow", "check")
    /\ allowed' = 0
    /\ UNCHANGED <<running, terminate, allowOne, ip, bpVars, dpc, eventVars,
                   spc, history>>

\* g_breakpointsEnabled never goes back to 0, so its load merges with the
\* load of g_AllowOneInstruction.
TestBreakpoints ==
    /\ epc = "check"
    /\ epc' = IF bpEnabled = 1 /\ allowOne = 0 THEN "look" ELSE "readd"
    /\ UNCHANGED <<words, ip, bpVars, dpc, eventVars, spc, history>>

LookUpBreakpoint ==
    /\ epc = "look"
    /\ epc' = IF ip \in bps THEN "hit" ELSE "readd"
    /\ UNCHANGED <<words, ip, bpVars, dpc, eventVars, spc, history>>

HitStopRunning ==
    /\ At("hit", "disallow")
    /\ running' = 0
    /\ UNCHANGED <<allowed, terminate, allowOne, ip, bpVars, dpc, eventVars,
                   spc, history>>

\* Mutant: the breakpoint that is hit is not remembered.
HitForget ==
    /\ At("disallow", "raise")
    /\ allowed' = 0
    /\ bps' = bps \ {ip}
    /\ UNCHANGED <<running, terminate, allowOne, ip, bpEnabled, struck, dpc,
                   eventVars, spc, history>>

\* The rest of the section: the breakpoint leaves g_breakpoints and waits in
\* g_CurrentBreakpoint; one that waited there before is overwritten.
HitDisallow ==
    /\ At("disallow", "raise")
    /\ allowed' = 0
    /\ struck' = {ip}
    /\ bps' = bps \ {ip}
    /\ UNCHANGED <<running, terminate, allowOne, ip, bpEnabled, dpc,
                   eventVars, spc, history>>

\* DebugInterface::RaiseEvent(Breakpoint), called back by the loop.
RaiseBreakpoint ==
    /\ At("raise", "notify")
    /\ eventQueue' = eventQueue \cup {"Breakpoint"}
    /\ UNCHANGED <<words, ip, bpVars, dpc, eventPending, handling, spc,
                   history>>

NotifyBreakpoint ==
    /\ At("notify", "head")
    /\ eventPending' = 1
    /\ UNCHANGED <<words, ip, bpVars, dpc, eventQueue, handling, spc, history>>

\* Mutant: the breakpoint is put back before its instruction has executed.
ReaddAtOnce ==
    /\ At("readd", "exec")
    /\ bps' = bps \cup struck
    /\ struck' = {}
    /\ UNCHANGED <<words, ip, bpEnabled, dpc, eventVars, spc, history>>

\* g_breakpointHit and g_CurrentBreakpoint belong to the execution thread;
\* the re-insertion takes the lock, which only it holds across actions.
ReaddBreakpoint ==
    /\ At("readd", "exec")
    /\ IF struck # {} /\ ip \notin struck
       THEN bps' = bps \cup struck /\ struck' = {}
       ELSE UNCHANGED <<bps, struck>>
    /\ UNCHANGED <<words, ip, bpEnabled, dpc, eventVars, spc, history>>

\* History: instructions since the last command are counted, to a bound that
\* tells what the properties ask.
Count(n) ==
    LET bound == IF dpc \in AtPrompt \cup Stepping /\ escaped < 2 THEN 2 ELSE 1
    IN  IF n < bound THEN n + 1 ELSE n

FinishAt(from) ==
    /\ At(from, "head")
    /\ ip' \in Succ[ip]
    /\ executed' = Count(executed)
    /\ UNCHANGED <<words, bpVars, dpc, eventVars, spc, escaped, userBps>>

\* An instruction that raises no event.
Execute == FinishAt("exec")

\* Emulator::RaiseEvent, from a jump, an exception, a change of MMU or a
\* command of the storage device: the instruction spins on g_events.
BeginRaise ==
    /\ At("exec", "lock")
    /\ UNCHANGED <<words, ip, bpVars, dpc, eventVars, spc, history>>

\* The lock is taken and the event queued.  After a storage command the
\* instruction ends; otherwise its thread waits in EmulatorThread->join().
InsertEvent ==
    \/ FinishAt("lock")
    \/ /\ At("lock", "handed")
       /\ UNCHANGED <<words, ip, bpVars, dpc, eventVars, spc, history>>

\* WaitForOperation: a new thread enters ExecutionLoop at the new IP.
Succeed == FinishAt("handed")

\* What needs the emulator thread to have released g_events.
Answer == InsertEvent \/ Succeed

ExecutionLoop ==
    \/ StartExecution \/ LoopHead
    \/ TestAllowed \/ StopRunning \/ Unpark \/ StartRunning
    \/ TestAllowOne \/ ClearAllowOne \/ ClearAllowed
    \/ TestBreakpoints \/ LookUpBreakpoint \/ HitStopRunning \/ HitDisallow
    \/ RaiseBreakpoint \/ NotifyBreakpoint \/ ReaddBreakpoint \/ Execute
    \/ BeginRaise

-----------------------------------------------------------------------------
(* The debugger thread: MainLoop and its commands.                         *)

\* History: the debugger takes over at its prompt.  An instruction that is
\* already past the test of g_ExecutionAllowed has escaped the pause; a step
\* given meanwhile is spoiled, which lasts until the next continue or pause.
Escapes == IF epc \in InFlight THEN 1 ELSE 0
TakeOver(e) == executed' = 0 /\ escaped' = e

\* Mutant: the pause waits for execution to stop without forbidding it.
PauseOnlyWaits ==
    /\ \/ Debug("first", "firstWait")
       \/ Debug("pause", "pauseWait")
       \/ Debug("interrupt", "interruptWait")
    /\ UNCHANGED <<words, epc, ip, bpVars, eventVars, spc, history>>

\* PauseExecution: the store, then the wait.
PauseStore ==
    /\ \/ Debug("first", "firstWait")
       \/ Debug("pause", "pauseWait")
       \/ Debug("interrupt", "interruptWait")
    /\ allowed' = 0
    /\ UNCHANGED <<running, terminate, allowOne, epc, ip, bpVars, eventVars,
                   spc, history>>

PauseWait ==
    /\ running = 0
    /\ \/ Debug("firstWait", "prompt") /\ TakeOver(Escapes)
       \/ Debug("pauseWait", "prompt") /\ UNCHANGED <<executed, escaped>>
       \/ Debug("interruptWait", "unhandle") /\ UNCHANGED <<executed, escaped>>
    /\ UNCHANGED <<words, epc, ip, bpVars, eventVars, spc, userBps>>

\* After "Emulator paused": leave the event loop for the prompt.
Unhandle ==
    /\ Debug("unhandle", "prompt")
    /\ TakeOver(Escapes)
    /\ handling' = 0
    /\ UNCHANGED <<words, epc, ip, bpVars, eventQueue, eventPending, spc,
                   userBps>>

CommandPause ==
    /\ Debug("prompt", "pause")
    /\ UNCHANGED <<words, epc, ip, bpVars, eventVars, spc, history>>

\* Command_Continue: AllowExecution(nullptr), then the event loop.
CommandContinue ==
    /\ Debug("prompt", "contAllow")
    /\ terminate' = 0
    /\ TakeOver(Escapes)
    /\ UNCHANGED <<allowed, running, allowOne, epc, ip, bpVars, eventVars,
                   spc, userBps>>

\* Mutant: continue withdraws the termination only.
ContinueWithoutAllow ==
    /\ Debug("contAllow", "handle")
    /\ UNCHANGED <<words, epc, ip, bpVars, eventVars, spc, history>>

ContinueAllow ==
    /\ Debug("contAllow", "handle")
    /\ allowed' = 1
    /\ UNCHANGED <<running, terminate, allowOne, epc, ip, bpVars, eventVars,
                   spc, history>>

\* Mutant: execution is allowed before the single step is requested.
AllowThenStep ==
    /\ Debug("prompt", "step")
    /\ TakeOver(IF escaped = 2 \/ epc \in InFlight THEN 2 ELSE 0)
    /\ allowed' = 1
    /\ UNCHANGED <<running, terminate, allowOne, epc, ip, bpVars, eventVars,
                   spc, userBps>>

\* Command_Step: AllowOneInstruction.
CommandStep ==
    /\ Debug("prompt", "step")
    /\ TakeOver(IF escaped = 2 \/ epc \in InFlight THEN 2 ELSE 0)
    /\ UNCHANGED <<words, epc, ip, bpVars, eventVars, spc, userBps>>

StepAllowOne ==
    /\ Debug("step", "stepAllow")
    /\ allowOne' = 1
    /\ UNCHANGED <<allowed, running, terminate, epc, ip, bpVars, eventVars,
                   spc, history>>

StepAllow ==
    /\ Debug("stepAllow", "stepTaken")
    /\ allowed' = 1
    /\ UNCHANGED <<running, terminate, allowOne, epc, ip, bpVars, eventVars,
                   spc, history>>

\* Mutant: no wait for g_AllowOneInstruction to be taken.
StepNotAwaited ==
    /\ Debug("stepTaken", "stepWait")
    /\ UNCHANGED <<words, epc, ip, bpVars, eventVars, spc, history>>

StepTaken ==
    /\ allowOne = 0
    /\ Debug("stepTaken", "stepWait")
    /\ UNCHANGED <<words, epc, ip, bpVars, eventVars, spc, history>>

StepDone ==
    /\ running = 0
    /\ Debug("stepWait", "prompt")
    /\ TakeOver(IF escaped = 2 THEN 2 ELSE Escapes)
    /\ UNCHANGED <<words, epc, ip, bpVars, eventVars, spc, userBps>>

\* Command_Breakpoint: AddBreakpoint inserts under the lock, then enables.
CommandBreakpoint(a) ==
    /\ epc \notin HitLock
    /\ Debug("prompt", "enable")
    /\ bps' = bps \cup {a}
    /\ userBps' = userBps \cup {a}
    /\ UNCHANGED <<words, epc, ip, bpEnabled, struck, eventVars, spc,
                   executed, escaped>>

EnableBreakpoints ==
    /\ Debug("enable", "prompt")
    /\ bpEnabled' = 1
    /\ UNCHANGED <<words, epc, ip, bps, struck, eventVars, spc, history>>

\* Command_Delete: RemoveBreakpoint.
CommandDelete(a) ==
    /\ epc \notin HitLock
    /\ dpc = "prompt"
    /\ bps' = bps \ {a}
    /\ userBps' = userBps \ {a}
    /\ UNCHANGED <<words, epc, ip, bpEnabled, struck, dpc, eventVars, spc,
                   executed, escaped>>

\* Mutant: m_eventPending is reset on entry to the event loop.
BeginAfresh ==
    /\ Debug("handle", "wait")
    /\ handling' = 1
    /\ eventPending' = 0
    /\ UNCHANGED <<words, epc, ip, bpVars, eventQueue, spc, history>>

\* The event loop of MainLoop.
BeginHandling ==
    /\ Debug("handle", "wait")
    /\ handling' = 1
    /\ UNCHANGED <<words, epc, ip, bpVars, eventQueue, eventPending, spc,
                   history>>

\* The whole queue is handled and m_eventPending cleared under its lock.
HandleEvents ==
    /\ dpc = "wait"
    /\ eventPending = 1
    /\ eventQueue' = {}
    /\ eventPending' = 0
    /\ dpc' = IF eventQueue = {} THEN "handle" ELSE "interrupt"
    /\ UNCHANGED <<words, epc, ip, bpVars, handling, spc, history>>

Command ==
    \/ CommandPause \/ CommandContinue \/ CommandStep
    \/ \E a \in Addr : CommandBreakpoint(a) \/ CommandDelete(a)

\* What the debugger does without waiting for its user.
MainLoop ==
    \/ PauseStore \/ PauseWait \/ Unhandle \/ ContinueAllow
    \/ StepAllowOne \/ StepAllow \/ StepTaken \/ StepDone
    \/ EnableBreakpoints \/ BeginHandling \/ HandleEvents

-----------------------------------------------------------------------------
(* The SIGINT handler: it raises an event only while the debugger is in    *)
(* its event loop; otherwise the signal goes to GlobalSignalHandler, which *)
(* does not touch this state.                                              *)

Signal ==
    /\ spc = "idle"
    /\ handling = 1
    /\ spc' = "raise"
    /\ UNCHANGED <<words, epc, ip, bpVars, dpc, eventVars, history>>

RaiseSignal ==
    /\ spc = "raise"
    /\ spc' = "notify"
    /\ eventQueue' = eventQueue \cup {"Signal"}
    /\ UNCHANGED <<words, epc, ip, bpVars, dpc, eventPending, handling,
                   history>>

NotifySignal ==
    /\ spc = "notify"
    /\ spc' = "idle"
    /\ eventPending' = 1
    /\ UNCHANGED <<words, epc, ip, bpVars, dpc, eventQueue, handling, history>>

SignalHandler == RaiseSignal \/ NotifySignal

-----------------------------------------------------------------------------
\* The steps of the threads of this module.
Threads == ExecutionLoop \/ MainLoop \/ Command \/ Signal \/ SignalHandler

Next == Threads \/ Answer

Spec == Init /\ [][Next]_vars

\* The host schedules every thread; it is the user who may never type a
\* command or send a signal, and the emulator thread that may never answer.
Fairness == WF_vars(ExecutionLoop) /\ WF_vars(MainLoop) /\ WF_vars(SignalHandler)

FairSpec == Spec /\ Fairness
-----------------------------------------------------------------------------
(* Properties.                                                             *)

Bit == {0, 1}

\* Type invariant.
TypeOK ==
    /\ allowed \in Bit /\ running \in Bit
    /\ terminate \in Bit /\ allowOne \in Bit
    /\ epc \in ExecPC /\ ip \in Addr
    /\ bps \in SUBSET Addr /\ struck \in SUBSET Addr /\ bpEnabled \in Bit
    /\ dpc \in DebugPC /\ spc \in {"idle", "raise", "notify"}
    /\ eventQueue \in SUBSET EventType
    /\ eventPending \in Bit /\ handling \in Bit
    /\ executed \in 0..2 /\ escaped \in 0..2 /\ userBps \in SUBSET Addr

\* While the debugger shows its prompt after "Emulator paused" (or after a
\* step), no instruction executes except one that had already passed the
\* test of g_ExecutionAllowed when PauseExecution saw g_ExecutionRunning 0.
PauseHolds == dpc \in AtPrompt /\ escaped < 2 => executed <= escaped

\* "step" executes at most one instruction.
StepBound == dpc \in Stepping /\ escaped < 2 => executed <= 1

\* Whenever the prompt is shown, no request to run is left behind, except one
\* that a breakpoint hit is about to withdraw: no fresh iteration can start
\* under the user's commands.
NoStaleRequest ==
    dpc \in AtPrompt /\ escaped < 2
      => allowOne = 0 /\ (allowed = 0 \/ epc = "disallow")

\* An instruction whose address is in g_breakpoints is never executed, except
\* as the instruction that escaped the pause before the prompt.  A single step
\* is no exception, although a comment of the code says so: see
\* StepIgnoresBreakpoints.
BreakpointStops ==
    [][epc' = "head" /\ epc \in {"exec"} \cup Waiting /\ ip \in bps
         => escaped = 2 \/ (escaped = 1 /\ executed = 0)]_vars

\* A breakpoint is armed while it is in g_breakpoints or waits in
\* g_CurrentBreakpoint to be put back.
Armed(a) == a \in bps \cup struck

\* A breakpoint the user did not delete is disarmed in one way only: another
\* breakpoint is hit while it still waits in g_CurrentBreakpoint.
OnlyOverwritten ==
    [][\A a \in userBps \cap userBps' :
         Armed(a) /\ ~Armed(a)' => a \in struck /\ epc = "disallow" /\ a # ip]_vars

\* The emulator thread never answers the instruction (EventLoop says when).
Unanswered == [](epc \in Waiting)

\* An event raised while the debugger waits for events brings it back to its
\* prompt, unless the pause waits for an instruction that is never answered:
\* the notification of RaiseEvent is not lost.
EventsReachPrompt ==
    dpc = "wait" /\ eventQueue # {} ~> dpc = "prompt" \/ Unanswered

\* "continue" is never forgotten: an instruction executes, or a breakpoint
\* or signal brings the prompt back, at once if it was raised before; unless
\* the instruction under way is never answered.
ContinueProgresses ==
    dpc = "wait" ~> epc = "exec" \/ dpc = "prompt" \/ Unanswered

\* Claims of the source that the code does not keep (see README, findings).

\* DebugInterface.cpp:121 "delete a breakpoint": a deleted breakpoint does
\* not come back.
DeletedStaysDeleted == bps \subseteq userBps

\* Instruction.cpp:269 "don't check on single step": a step executes the
\* instruction a breakpoint is set on.  The word that is tested there is
\* cleared five lines before, so the step stops at it and executes nothing.
StepIgnoresBreakpoints ==
    [][epc = "look" /\ dpc \in Stepping /\ escaped = 0 => epc' # "hit"]_vars

\* DebugInterface.cpp:119 "execute one instruction": the step command ends.
StepReturns == dpc = "step" ~> dpc = "prompt"
=============================================================================
