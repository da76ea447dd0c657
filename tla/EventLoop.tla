----------------------------- MODULE EventLoop -----------------------------
(***************************************************************************)
(* The emulator thread and the execution threads it creates                *)
(* (src/Emulator/src/Emulator.cpp:144-197, 438-480, 539-551): g_events and *)
(* g_eventWait, the hand-over of a jump or of a new MMU to a new execution *)
(* thread, and the device interrupt at the end of a storage transfer.      *)
(*                                                                         *)
(* g_events is held by the emulator thread while it handles events (empc   *)
(* in Holding); RaiseEvent holds it for one insertion, one action here.    *)
(* No debugger is attached, so of the run-control words only               *)
(* g_TerminateExecution and g_ExecutionRunning change (module ExecKill has *)
(* the others).  What an event carries, the transfer itself and the        *)
(* interrupt frame are abstracted.                                         *)
(***************************************************************************)
EXTENDS Naturals, Sequences

CONSTANTS
    Thread,       \* names for execution threads: one is reused when its
                  \* thread is done or parked for ever, so their number
                  \* bounds the detached threads still on their way there
    Kinds,        \* the events the guest's instructions raise
    QueueBound,   \* bound on the events queued by storage commands
    Interrupts,   \* transfers may ask for an interrupt on completion
    Faults        \* the target of a jump may not be mapped, the interrupt may
                  \* have no present handler or no stack

EventType == {"SwitchToIP", "NewMMU", "StorageTransfer"}

ASSUME EventLoopAssumption ==
    /\ Thread # {}
    /\ Kinds \subseteq EventType
    /\ QueueBound \in Nat
    /\ Interrupts \in BOOLEAN /\ Faults \in BOOLEAN

VARIABLES
    queue,      \* g_events, head first
    eventWait,  \* g_eventWait
    terminate,  \* g_TerminateExecution
    running,    \* g_ExecutionRunning
    tpc,        \* where each execution thread is
    current,    \* the thread ExecutionThread points to
    empc,       \* where the emulator thread is in WaitForOperation
    index       \* its loop counter i

words == <<terminate, running>>
vars  == <<queue, eventWait, words, tpc, current, empc, index>>

\* Threads that execute guest instructions, or are about to.
Active  == {"head", "begin", "exec", "raise", "notifyOn", "term"}
\* Threads that have handed over and wait for a successor.
Waiting == {"notify", "parked"}
ThreadPC == Active \cup Waiting \cup {"none", "done"}

\* The points of the emulator thread that hold g_events.
Holding == {"loop", "stop", "spin", "join", "restore", "deliver", "relock",
            "fault"}
EmulatorPC == Holding \cup {"wait", "lock"}

Init ==
    /\ queue = <<>> /\ eventWait = 0
    /\ terminate = 0 /\ running = 0
    /\ current \in Thread
    /\ tpc = [t \in Thread |-> IF t = current THEN "head" ELSE "none"]
    /\ empc = "wait" /\ index = 0

-----------------------------------------------------------------------------
(* An execution thread: the head of ExecutionLoop, an instruction, and     *)
(* RaiseEvent if the instruction calls it.                                 *)

Go(t, from, to) == tpc[t] = from /\ tpc' = [tpc EXCEPT ![t] = to]

LoopHead(t) ==
    /\ Go(t, "head", IF terminate = 1 THEN "term" ELSE "begin")
    /\ UNCHANGED <<queue, eventWait, words, current, empc, index>>

Terminate(t) ==
    /\ Go(t, "term", "done")
    /\ running' = 0
    /\ UNCHANGED <<queue, eventWait, terminate, current, empc, index>>

BeginInstruction(t) ==
    /\ Go(t, "begin", "exec")
    /\ running' = 1
    /\ UNCHANGED <<queue, eventWait, terminate, current, empc, index>>

\* An instruction that raises no event is over; any other calls RaiseEvent.
Execute(t) ==
    /\ Go(t, "exec", "head") \/ (Kinds # {} /\ Go(t, "exec", "raise"))
    /\ UNCHANGED <<queue, eventWait, words, current, empc, index>>

\* RaiseEvent: the insertion under the lock.
Insert(t) ==
    /\ empc \notin Holding
    /\ \E kind \in Kinds :
         /\ kind = "StorageTransfer" => Len(queue) < QueueBound
         /\ queue' = Append(queue, kind)
         /\ Go(t, "raise",
               IF kind = "StorageTransfer" THEN "notifyOn" ELSE "notify")
    /\ UNCHANGED <<eventWait, words, current, empc, index>>

\* Mutants: a counter instead of a flag; no wake-up; no join.
NotifyCounting(t) ==
    /\ \/ Go(t, "notifyOn", "head")
       \/ t = current /\ Go(t, "notify", "parked")
       \/ t # current /\ Go(t, "notify", "none")
    /\ eventWait' = eventWait + 1
    /\ UNCHANGED <<queue, words, current, empc, index>>

NotifyNobody(t) ==
    /\ \/ Go(t, "notifyOn", "head")
       \/ t = current /\ Go(t, "notify", "parked")
       \/ t # current /\ Go(t, "notify", "none")
    /\ UNCHANGED <<queue, eventWait, words, current, empc, index>>

NotifyAndGoOn(t) ==
    /\ Go(t, "notifyOn", "head") \/ Go(t, "notify", "head")
    /\ eventWait' = 1
    /\ UNCHANGED <<queue, words, current, empc, index>>

\* RaiseEvent: the wake-up.  A storage command goes on with the next
\* instruction; JumpToIP and SyncRegisters join the emulator thread, which
\* never ends, so the thread stays there after its successor replaced it.
Notify(t) ==
    /\ \/ Go(t, "notifyOn", "head")
       \/ t = current /\ Go(t, "notify", "parked")
       \/ t # current /\ Go(t, "notify", "none")
    /\ eventWait' = 1
    /\ UNCHANGED <<queue, words, current, empc, index>>

ExecutionStep(t) ==
    \/ LoopHead(t) \/ Terminate(t) \/ BeginInstruction(t)
    \/ Execute(t) \/ Insert(t) \/ Notify(t)

-----------------------------------------------------------------------------
(* The emulator thread: WaitForOperation.                                  *)

Emulator(from, to) == empc = from /\ empc' = to

Wake ==
    /\ eventWait = 1
    /\ Emulator("wait", "lock")
    /\ eventWait' = 0
    /\ UNCHANGED <<queue, words, tpc, current, index>>

LockEvents ==
    /\ Emulator("lock", IF queue = <<>> THEN "wait" ELSE "loop")
    /\ index' = 0
    /\ UNCHANGED <<queue, eventWait, words, tpc, current>>

\* The loop test: i grows while getCount() shrinks.
MoreEvents == empc = "loop" /\ index < Len(queue)

UnlockEvents ==
    /\ ~MoreEvents
    /\ Emulator("loop", "wait")
    /\ UNCHANGED <<queue, eventWait, words, tpc, current, index>>

\* Mutant: the newest event is removed instead of the one handled.
RemoveLast ==
    /\ queue' = SubSeq(queue, 1, Len(queue) - 1)
    /\ index' = index + 1

RemoveHead ==
    /\ queue' = Tail(queue)
    /\ index' = index + 1

\* A new execution thread replaces the current one, which is detached (it
\* may still have to do its notify) or has been joined.
NewThread ==
    \E n \in Thread :
      /\ tpc[n] = "none"
      /\ current' = n
      /\ tpc' = [tpc EXCEPT
                   ![current] = IF @ \in {"parked", "done"} THEN "none" ELSE @,
                   ![n] = "head"]

\* SwitchToIP and NewMMU.
HandOver ==
    /\ MoreEvents
    /\ Head(queue) \in {"SwitchToIP", "NewMMU"}
    /\ NewThread
    /\ RemoveHead
    /\ UNCHANGED <<eventWait, words, empc>>

\* The current thread is detached; then the instruction cache fills its line
\* from the target of the jump, or through the new MMU, and a byte of it is
\* not mapped.  The exception is raised on this thread, whose JumpToIP calls
\* RaiseEvent: it spins at "fault" on g_events, which it holds, and no action
\* leaves that point.
HandOverFaults ==
    /\ Faults
    /\ MoreEvents
    /\ Head(queue) \in {"SwitchToIP", "NewMMU"}
    /\ empc' = "fault"
    /\ UNCHANGED <<queue, eventWait, words, tpc, current, index>>

\* StorageTransfer without an interrupt: StartTransfer returns.
Transfer ==
    /\ MoreEvents
    /\ Head(queue) = "StorageTransfer"
    /\ RemoveHead
    /\ UNCHANGED <<eventWait, words, tpc, current, empc>>

\* StorageTransfer with an interrupt: RaiseInterruptExternal.
TransferInterrupts ==
    /\ Interrupts
    /\ MoreEvents
    /\ Head(queue) = "StorageTransfer"
    /\ empc' = "stop"
    /\ UNCHANGED <<queue, eventWait, words, tpc, current, index>>

RequestStop ==
    /\ Emulator("stop", "spin")
    /\ terminate' = 1
    /\ UNCHANGED <<queue, eventWait, running, tpc, current, index>>

SpinWhileRunning ==
    /\ running = 0
    /\ Emulator("spin", "join")
    /\ UNCHANGED <<queue, eventWait, words, tpc, current, index>>

\* Mutant: the thread is taken for finished.
NoJoin ==
    /\ Emulator("join", "restore")
    /\ UNCHANGED <<queue, eventWait, words, tpc, current, index>>

JoinExecution ==
    /\ tpc[current] = "done"
    /\ Emulator("join", "restore")
    /\ UNCHANGED <<queue, eventWait, words, tpc, current, index>>

RestoreTerminate ==
    /\ Emulator("restore", "deliver")
    /\ terminate' = 0
    /\ UNCHANGED <<queue, eventWait, running, tpc, current, index>>

\* RaiseInterruptCommon succeeds: JumpToIPExternal.
Deliver ==
    /\ Emulator("deliver", "loop")
    /\ NewThread
    /\ RemoveHead
    /\ UNCHANGED <<eventWait, words>>

\* RaiseInterruptCommon fails, and HandleFailure raises UNHANDLED_INTERRUPT on
\* this thread, or JumpToIPExternal cannot fill the line: it spins on g_events
\* as it does at "fault".
DeliverFails ==
    /\ Faults
    /\ Emulator("deliver", "relock")
    /\ UNCHANGED <<queue, eventWait, words, tpc, current, index>>

WaitForOperation ==
    \/ Wake \/ LockEvents \/ UnlockEvents \/ HandOver \/ HandOverFaults
    \/ Transfer \/ TransferInterrupts \/ RequestStop \/ SpinWhileRunning
    \/ JoinExecution \/ RestoreTerminate \/ Deliver \/ DeliverFails

-----------------------------------------------------------------------------
Next == WaitForOperation \/ \E t \in Thread : ExecutionStep(t)

Spec == Init /\ [][Next]_vars

\* The host schedules every thread.
FairSpec ==
    /\ Spec
    /\ WF_vars(WaitForOperation)
    /\ \A t \in Thread : WF_vars(ExecutionStep(t))

-----------------------------------------------------------------------------
(* Properties.                                                             *)

TypeOK ==
    /\ queue \in Seq(EventType)
    /\ eventWait \in {0, 1} /\ terminate \in {0, 1} /\ running \in {0, 1}
    /\ tpc \in [Thread -> ThreadPC] /\ current \in Thread
    /\ empc \in EmulatorPC
    /\ index \in Nat

\* At most one thread executes guest instructions: the registers, the MMU and
\* the caches have no lock.
OneActive == \A t, u \in Thread : tpc[t] \in Active /\ tpc[u] \in Active => t = u

\* A jump or a change of MMU is queued exactly while the thread that asked
\* for it waits to be replaced, and only once: it is not lost, and a device
\* interrupt that is delivered meanwhile does not give the machine a second
\* successor.
HandOverPending ==
    LET pending == {i \in 1..Len(queue) : queue[i] # "StorageTransfer"}
    IN  /\ tpc[current] \in Waiting <=> pending # {}
        /\ \A i, j \in pending : i = j

\* Emulator.cpp:169, 176 "assuming that the execution thread has joined this
\* thread": a thread is replaced only when it executes no more instructions.
ReplacedWhenStopped ==
    [][current' # current => tpc[current] \in Waiting \cup {"done"}]_vars

\* The handler of a device interrupt starts on a stopped machine: from the
\* join to the jump no thread executes and none waits for a successor.
StoppedForInterrupt ==
    empc \in {"restore", "deliver"} =>
        \A t \in Thread : tpc[t] \notin Active /\ (t = current => tpc[t] = "done")

\* Emulator.cpp:153 "just loops waiting for events": a thread that jumped, or
\* changed the MMU, gets its successor.  Storage commands break it (see
\* README, findings).
ParkedResumes == tpc[current] = "parked" ~> tpc[current] \in Active

\* It holds as long as jumps and changes of MMU are the only events, and their
\* targets are mapped: then no wake-up is lost between RaiseEvent and
\* WaitForOperation.
JumpsOnly == \A i \in 1..Len(queue) : queue[i] # "StorageTransfer"
JumpsComplete == [](JumpsOnly /\ empc # "fault") => ParkedResumes

\* docs/design.md:79 "Thrown when an invalid physical memory address is
\* accessed": a jump to such an address raises the exception, so the thread
\* that jumped is replaced by one at the handler.  The code does not keep it
\* (see README, findings).
JumpAnswered == empc = "loop" ~> empc = "wait"

\* Emulator.cpp:545 "wait for current instruction to finish executing": the
\* wait ends.  The code does not keep it (see README, findings).
InterruptStops == empc = "spin" ~> empc # "spin"
=============================================================================
