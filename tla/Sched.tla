-------------------------------- MODULE Sched --------------------------------
(***************************************************************************)
(* sched.c: the PCBs, the ready queue and the round-robin policy.          *)
(*                                                                         *)
(* Every handler runs with interrupts off until it returns or switches     *)
(* stacks, so one action is one handler.  The operators here are the parts *)
(* of handlers sched.c provides; Interrupts, Semaphores and Kernel use     *)
(* them in their actions.                                                  *)
(***************************************************************************)
EXTENDS FreeList, FiniteSets, Functions

CONSTANTS
  NR_TASKS,         \* entries of task[]                          (sched.h:16)
  DEFAULT_QUANTUM,  \* quantum of idle and init                   (sched.c:71)
  Quanta            \* the values a process may set its quantum to

ASSUME SchedAssumption ==
  /\ NR_TASKS \in Nat /\ NR_TASKS > 2
  /\ DEFAULT_QUANTUM \in Nat \ {0}
  /\ Quanta \subseteq Int

Tasks     == 0 .. NR_TASKS - 1
idle_task == NR_TASKS - 1     \* the first PCB init_sched's list hands out
init_task == NR_TASKS - 2     \* the second one

States == {"RUN", "READY", "BLOCKED"}

(***************************************************************************)
(* How the model ends where the kernel does, or stops making sense:        *)
(*  pagefault  a kernel access to page 0, never mapped: the page fault     *)
(*             handler of libzeos.a prints and loops with interrupts off   *)
(*  reused     a fork or clone overwrote the PCB of a live process         *)
(*  corrupt    sys_exit wrote through the free list into another queue     *)
(*  oob        sys_sem_init wrote in front of semaphores[]                 *)
(* Nothing happens in the model after any of them.                         *)
(***************************************************************************)
Faults == {"none", "pagefault", "reused", "corrupt", "oob"}

VARIABLES
  readyqueue,   \* sequence of PCBs
  PID,          \* task_struct.PID, -1 when free
  estado,       \* task_struct.estado
  quantum,      \* task_struct.quantum
  current,      \* the PCB at the bottom of the kernel stack in use
  qLeft,        \* ticks left of the current turn
  fault

schedVars == <<freequeue, freelinks, readyqueue, PID, estado, quantum, current, qLeft, fault>>

\* A handler runs only while the kernel does; a system call, only on behalf
\* of a user process: cpu_idle makes none.
KernelRuns    == fault = "none"
InUserProcess == KernelRuns /\ current # idle_task

\* init_sched pushes task[0], task[1], ... at the front of freequeue;
\* init_idle and init_task1 take the last two pushed.
BootFreeQueue == [i \in 1 .. NR_TASKS - 2 |-> NR_TASKS - 2 - i]

SchedInit ==
  /\ FreeListInit(BootFreeQueue)
  /\ readyqueue = <<>>
  /\ PID = [t \in Tasks |-> IF t = idle_task THEN 0 ELSE IF t = init_task THEN 1 ELSE -1]
  /\ estado = [t \in Tasks |-> "RUN"]
  /\ quantum = [t \in Tasks |-> IF t \in {idle_task, init_task} THEN DEFAULT_QUANTUM ELSE 0]
  /\ current = init_task
  /\ fault = "none"

\* get_quantum ignores its argument: it answers for the process that is
\* running, also when sched_next_rr asks about the next one.
get_quantum(t) == quantum[current]

\* sched_next_rr, in a handler that has already made the ready queue rq and
\* the process states st.  With nobody ready, idle_task gets the CPU: its
\* state is not written and qLeft is not reloaded.
sched_next_rr(rq, st) ==
  \/ /\ rq # <<>>
     /\ qLeft' = get_quantum(Head(rq))
     /\ readyqueue' = Tail(rq)
     /\ estado' = [st EXCEPT ![Head(rq)] = "RUN"]
     /\ current' = Head(rq)
  \/ /\ rq = <<>>
     /\ readyqueue' = rq
     /\ estado' = st
     /\ current' = idle_task
     /\ UNCHANGED qLeft

\* Whose kernel code runs next, after the same updates.
NextTask(rq) == IF rq # <<>> THEN Head(rq) ELSE idle_task

\* Variant: the PCB is queued with the state it had.
exitRunCurrent_SameState(st) == estado

\* exitRunCurrent(queue): the running PCB's new state; the caller appends it.
exitRunCurrent(st) == [estado EXCEPT ![current] = st]

\* Variants: the tick is compared before it is taken; the turn is renewed
\* without a look at the ready queue.
TurnGoesOn_OldTick    == qLeft # 0
TurnRenewed_NoWaiting == qLeft - 1 = 0

\* schedule() takes one tick off the turn first (update_sched_data_rr); then
\* needs_sched_rr decides between going on, a new turn for the same process
\* when nobody waits, and a switch.
TurnGoesOn  == qLeft - 1 # 0
TurnRenewed == qLeft - 1 = 0 /\ readyqueue = <<>>
TurnOver    == qLeft - 1 = 0 /\ readyqueue # <<>>

\* sys_nice, installed by libauxjp.a: set_quantum for the caller.  It takes
\* effect with the next turn.
Nice(q) ==
  /\ InUserProcess
  /\ quantum' = [quantum EXCEPT ![current] = q]
  /\ UNCHANGED <<freequeue, freelinks, readyqueue, PID, estado, current, qLeft, fault>>

SchedTypeOK ==
  /\ freequeue \in Seq(Tasks) /\ freelinks \in LinkShapes
  /\ Exhausted => freequeue # <<>>
  /\ readyqueue \in Seq(Tasks)
  /\ PID \in [Tasks -> Int]
  /\ estado \in [Tasks -> States]
  /\ quantum \in [Tasks -> Int]
  /\ current \in Tasks
  /\ qLeft \in Int
  /\ fault \in Faults

=============================================================================
