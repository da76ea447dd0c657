------------------------------ MODULE ExecKill ------------------------------
(***************************************************************************)
(* A device interrupt on top of ExecControl: the emulator thread stops the *)
(* execution thread, joins it, restores the run-control words it saved and *)
(* starts a new execution thread in the interrupt handler                  *)
(* (Emulator::KillCurrentInstruction and JumpToIPExternal,                 *)
(*  src/Emulator/src/Emulator.cpp:444-448, 539-551, with StopExecution and *)
(*  AllowExecution, src/Emulator/src/Instruction/Instruction.cpp:180-217). *)
(*                                                                         *)
(* The emulator thread holds g_events throughout, and answers no event: an *)
(* instruction that raises one waits for it with g_ExecutionRunning 1,     *)
(* while it spins on that word.                                            *)
(*                                                                         *)
(* The saved copy of g_ExecutionRunning is never read back and is left     *)
(* out.  What the interrupt pushes on the guest stack is not modelled here.*)
(***************************************************************************)
EXTENDS ExecControl

CONSTANT Handler   \* address of the interrupt handler

ASSUME HandlerAssumption == Handler \in Addr

VARIABLES
    kpc,    \* where the emulator thread is in KillCurrentInstruction
    saved   \* its InstructionExecutionRunState

killVars == <<kpc, saved>>
allVars  == <<vars, killVars>>

Saving    == {"saveAllowed", "saveOne", "stop"}
Stopping  == {"spin", "join"}
Restoring == {"restoreOne", "restoreAllowed", "restoreTerminate", "resume"}
KillPC    == {"idle"} \cup Saving \cup Stopping \cup Restoring

Kill(from, to) == kpc = from /\ kpc' = to

KillInit ==
    /\ Init
    /\ kpc = "idle"
    /\ saved = [terminate |-> 0, allowed |-> 0, allowOne |-> 0]

-----------------------------------------------------------------------------
(* StopExecution: one load per word, then the store and the spin.          *)

SaveTerminate ==
    /\ epc # "start"
    /\ Kill("idle", "saveAllowed")
    /\ saved' = [saved EXCEPT !.terminate = terminate]
    /\ UNCHANGED vars

SaveAllowed ==
    /\ Kill("saveAllowed", "saveOne")
    /\ saved' = [saved EXCEPT !.allowed = allowed]
    /\ UNCHANGED vars

SaveAllowOne ==
    /\ Kill("saveOne", "stop")
    /\ saved' = [saved EXCEPT !.allowOne = allowOne]
    /\ UNCHANGED vars

\* Mutant: g_TerminateExecution is saved after it was set.
StopThenSave ==
    /\ Kill("stop", "spin")
    /\ terminate' = 1
    /\ saved' = [saved EXCEPT !.terminate = terminate']
    /\ UNCHANGED <<allowed, running, allowOne, epc, ip, bpVars, dpc,
                   eventVars, spc, history>>

RequestStop ==
    /\ Kill("stop", "spin")
    /\ terminate' = 1
    /\ UNCHANGED <<allowed, running, allowOne, epc, ip, bpVars, dpc,
                   eventVars, spc, history, saved>>

SpinWhileRunning ==
    /\ running = 0
    /\ Kill("spin", "join")
    /\ UNCHANGED <<vars, saved>>

\* ExecutionThread->join(), after which the thread object is deleted.
JoinExecution ==
    /\ epc = "done"
    /\ Kill("join", "restoreOne")
    /\ UNCHANGED <<vars, saved>>

(* AllowExecution(&state): the stores in the order of the code.            *)

\* Mutant: the saved fields are mixed up.
RestoreWrongField ==
    /\ Kill("restoreOne", "restoreAllowed")
    /\ allowOne' = saved.allowed
    /\ UNCHANGED <<allowed, running, terminate, epc, ip, bpVars, dpc,
                   eventVars, spc, history, saved>>

RestoreAllowOne ==
    /\ Kill("restoreOne", "restoreAllowed")
    /\ allowOne' = saved.allowOne
    /\ UNCHANGED <<allowed, running, terminate, epc, ip, bpVars, dpc,
                   eventVars, spc, history, saved>>

RestoreAllowed ==
    /\ Kill("restoreAllowed", "restoreTerminate")
    /\ allowed' = saved.allowed
    /\ UNCHANGED <<running, terminate, allowOne, epc, ip, bpVars, dpc,
                   eventVars, spc, history, saved>>

RestoreTerminate ==
    /\ Kill("restoreTerminate", "resume")
    /\ terminate' = saved.terminate
    /\ UNCHANGED <<allowed, running, allowOne, epc, ip, bpVars, dpc,
                   eventVars, spc, history, saved>>

\* Mutant: the new thread starts after the first instruction of the handler.
JumpPastHandler ==
    /\ Kill("resume", "idle")
    /\ ip' = Handler + 1
    /\ epc' = "head"
    /\ UNCHANGED <<words, bpVars, dpc, eventVars, spc, history, saved>>

\* JumpToIPExternal: the IP is the handler's and a new thread runs the loop.
JumpToHandler ==
    /\ Kill("resume", "idle")
    /\ ip' = Handler
    /\ epc' = "head"
    /\ UNCHANGED <<words, bpVars, dpc, eventVars, spc, history, saved>>

KillCurrentInstruction ==
    \/ SaveAllowed \/ SaveAllowOne \/ RequestStop \/ SpinWhileRunning
    \/ JoinExecution \/ RestoreAllowOne \/ RestoreAllowed
    \/ RestoreTerminate \/ JumpToHandler

\* The execution thread ends as it was asked to.
ExecutionEnds == Terminate /\ UNCHANGED killVars

-----------------------------------------------------------------------------
\* WaitForOperation comes to the next event when the interrupt is delivered.
AnswerEvent == kpc = "idle" /\ Answer /\ UNCHANGED killVars

KillNext ==
    \/ Threads /\ UNCHANGED killVars
    \/ AnswerEvent
    \/ ExecutionEnds
    \/ SaveTerminate
    \/ KillCurrentInstruction

KillSpec == KillInit /\ [][KillNext]_allVars

\* Every thread is scheduled, the emulator thread too; devices need not
\* interrupt.
KillFairSpec ==
    /\ KillSpec
    /\ WF_allVars((ExecutionLoop \/ Terminate) /\ UNCHANGED killVars)
    /\ WF_allVars(MainLoop /\ UNCHANGED killVars)
    /\ WF_allVars(SignalHandler /\ UNCHANGED killVars)
    /\ WF_allVars(KillCurrentInstruction)

-----------------------------------------------------------------------------
(* Properties.                                                             *)

KillTypeOK ==
    /\ TypeOK
    /\ kpc \in KillPC
    /\ saved \in [terminate : Bit, allowed : Bit, allowOne : Bit]

\* From the join to the jump there is no execution thread: the emulator
\* thread may write the IP and the caches, and the new thread is the only one.
OneExecutionThread == kpc \in Restoring => epc = "done" /\ running = 0

\* A request to terminate does not outlive the interrupt that made it: the
\* thread started for the handler does not end at its first loop head.
TerminateWithdrawn == kpc \in {"idle", "resume"} => terminate = 0

\* Without a debugger an interrupt leaves run control as it found it.
WordsRestored ==
    kpc = "idle" /\ dpc = "absent" => allowed = 1 /\ allowOne = 0

\* A device interrupt is delivered: the emulator thread gets through
\* KillCurrentInstruction, unless the instruction it waits for raises an
\* event, or has handed over.  Then each waits for the other for ever.
KillCompletes ==
    dpc = "absent" /\ kpc = "spin" ~> kpc = "idle" \/ epc \in Waiting

\* Interrupts leave the machine alive: when they stop arriving, and no
\* debugger holds it, instructions go on executing, as long as the events
\* they raise are answered.
ExecutionResumes ==
    dpc = "absent" /\ <>[](kpc = "idle")
      => []<>(epc = "exec") \/ <>Unanswered

\* Claims of the source that the code does not keep (see README, findings).

\* Emulator.cpp:545 "wait for current instruction to finish executing": it
\* does, also without a debugger.
InterruptsEnd == dpc = "absent" /\ kpc = "spin" ~> kpc = "idle"

\* Emulator.cpp:547 "ensure the thread has finished executing", with a
\* debugger: as long as instructions go on
\* executing, the kill ends.
KillEnds == []<>(epc = "exec") => (kpc = "spin" ~> kpc = "idle")
=============================================================================
