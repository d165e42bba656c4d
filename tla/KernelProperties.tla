-------------------------- MODULE KernelProperties --------------------------
(***************************************************************************)
(* What makes the kernel of module Kernel correct.  The invariants speak   *)
(* of the states in which the kernel still runs; the faults that end it    *)
(* are the subject of the properties at the end, which do not hold.        *)
(***************************************************************************)
EXTENDS Kernel

Disjoint(p, q) == \A i \in DOMAIN p, j \in DOMAIN q : p[i] # q[j]

\* The processes: what the scheduler can still reach.  The copy a failed fork
\* abandons has a PID but is none of them.
Procs == {t \in Tasks : t \in {current, idle_task} \/ InSomeQueue(t)}

-----------------------------------------------------------------------------
(* Queues.                                                                 *)

\* Every PCB hangs in at most one queue, once.
OneQueuePerPCB ==
  /\ IsInjective(readyqueue) /\ IsInjective(keyboardqueue)
  /\ Disjoint(readyqueue, keyboardqueue)
  /\ \A i \in Slots :
       /\ IsInjective(blockedQueue[i])
       /\ Disjoint(blockedQueue[i], readyqueue) /\ Disjoint(blockedQueue[i], keyboardqueue)
       /\ \A j \in Slots \ {i} : Disjoint(blockedQueue[i], blockedQueue[j])

\* The state a PCB records is the queue it is in.
StateIsQueue ==
  \A t \in Tasks : PID[t] # -1 =>
    /\ estado[t] = "READY" <=> t \in Range(readyqueue)
    /\ estado[t] = "BLOCKED" <=>
         t \in Range(keyboardqueue) \/ \E i \in Slots : t \in Range(blockedQueue[i])

\* No queue and no CPU for a dead PCB; idle is never blocked.
DeadAreOut ==
  /\ \A t \in Tasks : PID[t] = -1 => ~InSomeQueue(t)
  /\ PID[current] # -1 /\ estado[current] = "RUN"
  /\ PID[idle_task] = 0 /\ estado[idle_task] # "BLOCKED"

\* What the free list offers is free, unless it is exhausted: then it is one
\* PCB that is in use.
FreeListInv ==
  /\ IsInjective(freequeue)
  /\ ~Exhausted => \A i \in DOMAIN freequeue : PID[freequeue[i]] = -1
  /\ Exhausted => Len(freequeue) = 1 /\ PID[FirstFree] # -1 /\ FirstFree # idle_task
  /\ freelinks \in {"loop", "loopfront"} => freequeue # <<>>

\* fork, clone, exit, the interrupts, read and the semaphore calls keep every
\* live process in exactly the queue its state names, and no dead one in any.
QueueInv ==
  KernelRuns => OneQueuePerPCB /\ StateIsQueue /\ DeadAreOut /\ FreeListInv

\* keyboard_rutine wakes a reader only when its keys are there, and nobody
\* takes them before it runs: sys_read_keyboard's loop never blocks again.
\* Who sleeps in a read is in keyboardqueue, or on its way back.
ReadersWokenWithKeys ==
  KernelRuns =>
    /\ \A t \in Tasks : missingKeys[t] # -1 =>
         \/ t \in Range(keyboardqueue)
         \/ t \in Range(readyqueue) /\ EnoughKeys(keyboardBuff, missingKeys[t])
    /\ \A t \in Range(keyboardqueue) : missingKeys[t] # -1

-----------------------------------------------------------------------------
(* Processes and semaphores.                                               *)

\* PIDs identify processes: no two share one, none will be given out again.
UniquePIDs ==
  KernelRuns =>
    \A t \in Procs :
      /\ PID[t] < incrementalPID
      /\ \A u \in Procs : PID[t] = PID[u] => t = u

\* Units and waiters exclude each other, a free slot has no waiters, a name is
\* in one slot, and the owner is a process that is still there: the waiters of
\* every semaphore in use have somebody whose exit lets them go.
SemaphoreInv ==
  KernelRuns =>
    \A i \in Slots :
      /\ blockedQueue[i] # <<>> => semaphores[i].state = "USED" /\ semaphores[i].counter <= 0
      /\ semaphores[i].state = "USED" =>
           /\ \E t \in Procs \ {idle_task} : PID[t] = semaphores[i].owner
           /\ \A j \in Slots \ {i} : ~Named(j, semaphores[i].n_sem)

-----------------------------------------------------------------------------
(* Memory.                                                                 *)

\* The references init_idle and init_task1 count twice.
Extra(d) == IF d \in {0, 1} THEN 1 ELSE 0

\* A directory's count is the number of processes that run in it, and one more
\* for the two that were set up at boot.
DirectoryCounts ==
  KernelRuns =>
    \A d \in Dirs : refs_DIR[d] = Cardinality({t \in Procs : n_directorio[t] = d}) + Extra(d)

\* Data pages of processes in different directories are different frames, all
\* of them marked used and none of them kernel or code.
Isolation ==
  KernelRuns =>
    \A t, u \in Procs \ {idle_task}, p, q \in DataPages :
      LET f == PT[n_directorio[t]][p]
          g == PT[n_directorio[u]][q]
      IN  /\ f \in phys_mem /\ f >= BootFrame(NUM_PAG_CODE)
          /\ f = g => p = q /\ n_directorio[t] = n_directorio[u]

\* The frames in use are the boot image and what directories with references
\* map: exit gives back exactly what fork took.
FramesAccounted ==
  KernelRuns =>
    phys_mem = (0 .. NUM_PAG_KERNEL - 1)
      \cup {BootFrame(k) : k \in 0 .. NUM_PAG_CODE - 1}
      \cup {PT[d][p] : d \in {e \in Dirs \ {0} : refs_DIR[e] > 0}, p \in DataPages}

\* A fork that does not take the last PCB of the list finds a directory and
\* frames, so none is abandoned half-way: the directory init never gives back
\* is missing only when all PCBs are taken.
ForkHasMemory ==
  CanCreate /\ ~Exhausted /\ Len(freequeue) > 1 =>
    ~NoDIR /\ Cardinality(FreeFrames) >= NUM_PAG_DATA

-----------------------------------------------------------------------------
(* Steps.                                                                  *)

\* First come, first served: a step takes at most the first process from the
\* ready queue, to run it, and adds others only behind the ones that wait.
ServedInOrder ==
  fault' = "none" =>
    \E k \in {0, 1} :
      /\ k <= Len(readyqueue) /\ Len(readyqueue) - k <= Len(readyqueue')
      /\ k = 1 => current' = Head(readyqueue)
      /\ \A i \in 1 .. Len(readyqueue) - k : readyqueue'[i] = readyqueue[i + k]

ReadyIsFIFO == [][ServedInOrder]_vars

\* A process leaves a semaphore's queue in its turn with answer 0, or together
\* with all others because the semaphore was destroyed, with answer -1.
WaitEnds ==
  fault' = "none" =>
    \A i \in Slots, t \in Tasks :
      t \in Range(blockedQueue[i]) /\ t \notin Range(blockedQueue'[i]) =>
        \/ /\ semaphores'[i].state = "USED"
           /\ t = Head(blockedQueue[i]) /\ sem_ret'[t] = 0
        \/ /\ semaphores'[i].state = "FREE"
           /\ blockedQueue'[i] = <<>> /\ sem_ret'[t] = -1

WaitAnswers == [][WaitEnds]_vars

\* The semaphores as processes know them: by name, and owned by a process
\* where the table has a PID.
NamesInUse == {semaphores[i].n_sem : i \in {j \in Slots : semaphores[j].state = "USED"}}

OwnerOf(i) == CHOOSE t \in Tasks : PID[t] = semaphores[i].owner /\ t \in Procs

NamedSemaphores ==
  [n \in NamesInUse |->
    LET i == CHOOSE j \in Slots : Named(j, n)
    IN  [owner |-> OwnerOf(i), units |-> semaphores[i].counter, waiters |-> blockedQueue[i]]]

Promised == INSTANCE CountingSemaphores WITH
  sems <- NamedSemaphores, Processes <- Tasks, Names <- SemIds, Values <- SemValues

\* As long as the kernel runs, the table of slots with its searches by name,
\* its owners by PID and its queues of PCBs, which other processes reuse, does
\* what the counting semaphores of CountingSemaphores do, step by step.
ImplementsSemaphores ==
  /\ Promised!Init
  /\ [][fault' = "none" /\ NamedSemaphores' # NamedSemaphores => Promised!Next]_vars

\* A fork that runs out of frames takes none away from those that are left:
\* the abandoned copy, recognised by its parent's PID, cost no frame.
NoFrameLost ==
  KernelRuns /\ (\E t \in Tasks : PID[t] = -1 /\ PID'[t] = PID[current]) => phys_mem' = phys_mem

FailedForkKeepsFrames == [][NoFrameLost]_vars

\* Between two handlers the turn has at least one tick left, and no more than
\* some process's quantum: schedule's test for 0 cannot miss the end of a turn.
TurnBounded ==
  KernelRuns => qLeft >= 1 /\ \E q \in Quanta \cup {DEFAULT_QUANTUM} : qLeft <= q

\* A process that is ready gets the CPU, however the others behave, as long as
\* quanta are positive.
ReadyRuns ==
  \A t \in Tasks : (estado[t] = "READY") ~> (current = t \/ ~KernelRuns)

-----------------------------------------------------------------------------
(* What the documents ask for and the code does not do.                    *)

\* A PCB in use is given a new PID only by its own exit.
OnlyFreePCBsAllocated ==
  [][\A t \in Tasks : PID[t] # -1 /\ PID'[t] # PID[t] => PID'[t] = -1 /\ t = current]_vars

\* The idle task is not a candidate for the CPU.
IdleNeverQueued == idle_task \notin Range(readyqueue)

\* A process that is given the CPU by the scheduler starts with its quantum.
FullQuantumAfterSwitch ==
  [][current' # current /\ current' # idle_task => qLeft' = quantum[current']]_vars

\* When the last process of a directory is gone, so are its data frames.
ExitFreesFrames ==
  KernelRuns =>
    \A d \in Dirs \ {0} : (\A t \in Procs \ {idle_task} : n_directorio[t] # d) =>
      \A p \in DataPages : PT[d][p] \notin phys_mem \/ PT[d][p] = NoFrame

\* The semaphore table is never written out of its bounds.
SemaphoreTableBounds == fault # "oob"

\* A reader whose keys have come takes the CPU from whoever has it.
WokenReaderPreempts ==
  [][\A t \in Range(keyboardqueue) : t \notin Range(keyboardqueue') => current' = t]_vars

\* sys_get_stats answers with the first PCB that has the PID: that is t.
StatsOf(pid, t) == PID[t] = pid /\ \A u \in Tasks : u < t => PID[u] # pid

\* A process that asks get_stats for itself gets its own counters.
OwnStatistics == KernelRuns => StatsOf(PID[current], current)

\* Reading keys does not stop the machine.
ReadReturns == [][(\E n \in ReadSizes : Read(n)) => fault' # "pagefault"]_vars

=============================================================================
