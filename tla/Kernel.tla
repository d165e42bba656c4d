------------------------------- MODULE Kernel -------------------------------
(***************************************************************************)
(* The kernel: the components composed, with the system calls of sys.c     *)
(* that touch all of them (fork, clone, exit).                             *)
(***************************************************************************)
EXTENDS Semaphores, Memory

CONSTANT MaxPID   \* bound: processes are created up to this PID
ASSUME KernelAssumption == MaxPID \in Int

VARIABLE incrementalPID

vars == <<schedVars, kbVars, semVars, memVars, incrementalPID>>

\* What the boot leaves: interrupts are on a little before user mode is entered,
\* so that init's first turn may have lost ticks (module Boot).
Init ==
  /\ SchedInit /\ KeyboardInit /\ SemaphoresInit /\ MemoryInit
  /\ qLeft \in 1 .. DEFAULT_QUANTUM
  /\ incrementalPID = 2

-----------------------------------------------------------------------------
(* Taking a PCB for a new process.                                         *)

\* list_del of t in the queue q, if it hangs there.
Unlinked(q, t) ==
  LET i == CHOOSE k \in DOMAIN q : q[k] = t
  IN  IF t \in Range(q) THEN SubSeq(q, 1, i - 1) \o SubSeq(q, i + 1, Len(q)) ELSE q

\* The queues a PCB may hang in.
InSomeQueue(t) ==
  \/ t \in Range(readyqueue)
  \/ t \in Range(keyboardqueue)
  \/ \E i \in Slots : t \in Range(blockedQueue[i])

\* The first PCB of a broken free list is in use and hangs nowhere: list_del
\* follows its null links.
NullLinks == Exhausted /\ ~InSomeQueue(FirstFree)

\* list_del(new) also takes a PCB that is in use out of the queue it is in.
TakePCB(new) ==
  /\ TakeFirst
  /\ keyboardqueue' = Unlinked(keyboardqueue, new)
  /\ blockedQueue' = [i \in Slots |-> Unlinked(blockedQueue[i], new)]
  /\ fault' = IF Exhausted THEN "reused" ELSE "none"

\* copy_data(current(), new): the whole PCB and kernel stack; pid and st are
\* what its PID and estado are in the end.
CopyPCB(new, pid, st) ==
  /\ PID' = [PID EXCEPT ![new] = pid]
  /\ estado' = [estado EXCEPT ![new] = st]
  /\ quantum' = [quantum EXCEPT ![new] = quantum[current]]
  /\ sem_ret' = [sem_ret EXCEPT ![new] = sem_ret[current]]
  /\ missingKeys' = [missingKeys EXCEPT ![new] = missingKeys[current]]
  /\ UNCHANGED <<current, qLeft, keyboardBuff, semaphores>>

\* Variant: the PID is not used up.
Created_SamePID(new) ==
  /\ CopyPCB(new, incrementalPID, "READY")
  /\ readyqueue' = Append(Unlinked(readyqueue, new), new)
  /\ UNCHANGED incrementalPID

\* A new process or thread: the next PID, READY, at the end of the queue.
Created(new) ==
  /\ CopyPCB(new, incrementalPID, "READY")
  /\ readyqueue' = Append(Unlinked(readyqueue, new), new)
  /\ incrementalPID' = incrementalPID + 1

\* Variant: the copy is queued before the fork can fail.
Abandoned_Queued(new) ==
  /\ CopyPCB(new, PID[current], estado[current])
  /\ readyqueue' = Append(Unlinked(readyqueue, new), new)
  /\ UNCHANGED incrementalPID

\* A fork given up: the copy keeps PID and state of its parent, in no queue.
Abandoned(new) ==
  /\ CopyPCB(new, PID[current], estado[current])
  /\ readyqueue' = Unlinked(readyqueue, new)
  /\ UNCHANGED incrementalPID

CanCreate ==
  /\ InUserProcess
  /\ freequeue # <<>>
  /\ incrementalPID <= MaxPID

CreateFaults ==
  /\ CanCreate /\ NullLinks
  /\ fault' = "pagefault"
  /\ UNCHANGED <<freequeue, freelinks, readyqueue, PID, estado, quantum, current, qLeft>>
  /\ UNCHANGED <<kbVars, semVars, memVars, incrementalPID>>

sys_fork ==
  \/ CreateFaults
  \/ /\ CanCreate /\ ~NullLinks
     /\ TakePCB(FirstFree)
     /\ \/ ForkMemory(FirstFree) /\ Created(FirstFree)
        \/ ForkWithoutDIR(FirstFree) /\ Abandoned(FirstFree)
        \/ ForkWithoutFrames(FirstFree) /\ Abandoned(FirstFree)

sys_clone ==
  \/ CreateFaults
  \/ /\ CanCreate /\ ~NullLinks
     /\ TakePCB(FirstFree)
     /\ CloneMemory(FirstFree)
     /\ Created(FirstFree)

-----------------------------------------------------------------------------
(* exit.                                                                   *)

Owned  == {i \in Slots : semaphores[i].owner = PID[current]}
Woken  == {t \in Tasks : \E i \in Owned : t \in Range(blockedQueue[i])}

\* s is woken before t: in a lower slot, or earlier in the same queue.
WokenBefore(s, t) ==
  \E i, j \in Owned : \E k \in DOMAIN blockedQueue[i], l \in DOMAIN blockedQueue[j] :
    /\ blockedQueue[i][k] = s /\ blockedQueue[j][l] = t
    /\ i < j \/ (i = j /\ k < l)

\* w lists the waiters of the owned semaphores as the loop over the slots
\* and sem_destroy's loop over each queue come to them.
InWakeOrder(w) ==
  /\ Range(w) = Woken
  /\ \A k, l \in DOMAIN w : k < l => WokenBefore(w[k], w[l])

\* The PCB is in the free list twice from line 144 on; its state becomes
\* BLOCKED, like that of anything put in a queue that is not readyqueue.
ExitSwitches ==
  /\ AddTwice(current)
  /\ ExitMemory
  /\ semaphores' = [i \in Slots |-> IF i \in Owned THEN Destroyed(semaphores[i]) ELSE semaphores[i]]
  /\ blockedQueue' = [i \in Slots |-> IF i \in Owned THEN <<>> ELSE blockedQueue[i]]
  /\ sem_ret' = FailedWait(Woken)
  /\ PID' = [PID EXCEPT ![current] = -1]
  /\ \E n \in 0 .. NR_TASKS : \E w \in [1 .. n -> Woken] :
       /\ InWakeOrder(w)
       /\ Dispatch(readyqueue \o w, Released(exitRunCurrent("BLOCKED"), Woken), missingKeys)
  /\ UNCHANGED <<quantum, keyboardqueue, incrementalPID>>

ExitCorrupts ==
  /\ WouldCorrupt(current)
  /\ fault' = "corrupt"
  /\ UNCHANGED <<freequeue, freelinks, readyqueue, PID, estado, quantum, current, qLeft>>
  /\ UNCHANGED <<kbVars, semVars, memVars, incrementalPID>>

sys_exit ==
  /\ InUserProcess
  /\ ExitSwitches \/ ExitCorrupts

-----------------------------------------------------------------------------
SchedStep ==
  /\ Clock \/ Key \/ (\E n \in ReadSizes : Read(n))
  /\ UNCHANGED <<semVars, memVars, incrementalPID>>

NiceStep ==
  /\ \E q \in Quanta : Nice(q)
  /\ UNCHANGED <<kbVars, semVars, memVars, incrementalPID>>

SemaphoreStep ==
  /\ \E n \in SemIds :
       \/ \E value \in SemValues : sys_sem_init(n, value)
       \/ sys_sem_destroy(n)
       \/ sys_sem_signal(n)
       \/ sys_sem_wait(n)
  /\ UNCHANGED <<memVars, incrementalPID>>

Next == SchedStep \/ NiceStep \/ SemaphoreStep \/ sys_fork \/ sys_clone \/ sys_exit

Spec == Init /\ [][Next]_vars

\* The timer goes on interrupting as long as interrupts are enabled, and they
\* are whenever no handler runs.
ClockStep == Clock /\ UNCHANGED <<semVars, memVars, incrementalPID>>
FairSpec  == Spec /\ WF_vars(ClockStep)

-----------------------------------------------------------------------------
TypeOK ==
  /\ SchedTypeOK /\ KeyboardTypeOK /\ SemaphoresTypeOK /\ MemoryTypeOK
  /\ incrementalPID \in Int

=============================================================================
