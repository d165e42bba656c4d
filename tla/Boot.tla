-------------------------------- MODULE Boot --------------------------------
(***************************************************************************)
(* main in system.c: how the state the other modules start from comes      *)
(* about.  The image is loaded with zeros where nothing is initialised;    *)
(* main runs on the stack in the page of task[BootTask], which makes that  *)
(* PCB the current one, and init takes the directories and frames the      *)
(* earlier steps leave.  Until then fault is "boot": nothing enters the    *)
(* kernel.  Segments, the IDT and the TSS are set before and do not change *)
(* again but for the stack pointers.                                       *)
(***************************************************************************)
EXTENDS AddressSpace

CONSTANT BootTask      \* the PCB below &task[4]
ASSUME BootAssumption == BootTask \in Tasks \ {idle_task, init_task}

VARIABLE stage   \* the last step of main

bootVars == <<stage, vars, spaceVars>>

Loaded ==
  /\ stage = "setTSS"
  /\ freequeue = <<>> /\ freelinks = "proper" /\ readyqueue = <<>> /\ keyboardqueue = <<>>
  /\ PID = [t \in Tasks |-> 0] /\ estado = [t \in Tasks |-> "RUN"]
  /\ quantum = [t \in Tasks |-> 0] /\ sem_ret = [t \in Tasks |-> 0]
  /\ current = BootTask /\ qLeft = 0 /\ fault = "boot" /\ incrementalPID = 2
  /\ missingKeys = [t \in Tasks |-> -1] /\ keyboardBuff = EmptyCirBuffer
  /\ semaphores = [i \in Slots |-> [state |-> "FREE", n_sem |-> 0, owner |-> 0, counter |-> 0]]
  /\ blockedQueue = [i \in Slots |-> <<>>]
  /\ phys_mem = {} /\ refs_DIR = [d \in Dirs |-> 0] /\ n_directorio = [t \in Tasks |-> 0]
  /\ PT = [d \in Dirs |-> [p \in DataPages |-> NoFrame]]
  /\ tables = [d \in Dirs |-> [p \in OtherPages |-> NoFrame]]
  /\ tlb = {} /\ processBreak = [t \in Tasks |-> 0]

MainGoes(from, to) == stage = from /\ stage' = to

KernelFrames == 0 .. NUM_PAG_KERNEL - 1

\* Kernel pages in every table, the kernel's frames used; task[0] gets a
\* directory, for cr3 to point to.
init_mm ==
  /\ MainGoes("setTSS", "init_mm")
  /\ tables' = [d \in Dirs |-> [p \in OtherPages |-> IF p \in KernelPages THEN p ELSE NoFrame]]
  /\ PT' = [d \in Dirs |-> [p \in DataPages |-> NoFrame]]
  /\ phys_mem' = KernelFrames
  /\ \E d \in Dirs :
       /\ allocate_DIR(d)
       /\ refs_DIR' = [refs_DIR EXCEPT ![d] = @ + 1]
       /\ n_directorio' = [n_directorio EXCEPT ![0] = d]
  /\ tlb' = {}
  /\ UNCHANGED <<schedVars, kbVars, semVars, incrementalPID, processBreak>>

\* Variant: the references are not reset.
NoReferences_Kept == refs_DIR

NoReferences == [d \in Dirs |-> 0]

init_sched ==
  /\ MainGoes("init_mm", "init_sched")
  /\ freequeue' = [i \in 1 .. NR_TASKS |-> NR_TASKS - i] /\ freelinks' = "proper"
  /\ readyqueue' = <<>> /\ keyboardqueue' = <<>>
  /\ PID' = [t \in Tasks |-> -1]
  /\ refs_DIR' = NoReferences
  /\ semaphores' = [i \in Slots |-> [semaphores[i] EXCEPT !.counter = 0, !.state = "FREE"]]
  /\ UNCHANGED <<estado, quantum, current, qLeft, fault, missingKeys, keyboardBuff>>
  /\ UNCHANGED <<blockedQueue, sem_ret, phys_mem, n_directorio, PT, incrementalPID, spaceVars>>

\* What init_idle and init_task1 share, for the next PCB of the list: d gets
\* one reference from allocate_DIR and one from its caller.
Initialised(pid, d) ==
  LET t == FirstFree
  IN  /\ TakeFirst
      /\ PID' = [PID EXCEPT ![t] = pid]
      /\ quantum' = [quantum EXCEPT ![t] = DEFAULT_QUANTUM]
      /\ processBreak' = [processBreak EXCEPT ![t] = HEAP_START]
      /\ allocate_DIR(d)
      /\ refs_DIR' = [refs_DIR EXCEPT ![d] = @ + 2]
      /\ n_directorio' = [n_directorio EXCEPT ![t] = d]
      /\ UNCHANGED <<readyqueue, current, fault, kbVars, semVars, incrementalPID>>

init_idle ==
  /\ MainGoes("init_sched", "init_idle")
  /\ \E d \in Dirs : Initialised(0, d)
  /\ UNCHANGED <<estado, qLeft, phys_mem, PT, tables, tlb>>

\* set_user_pages takes frames for the code, then for the data.
init_task1 ==
  /\ MainGoes("init_idle", "init_task1")
  /\ estado' = [estado EXCEPT ![FirstFree] = "RUN"]
  /\ qLeft' = DEFAULT_QUANTUM
  /\ \E d \in Dirs, fr \in [0 .. NUM_PAG_CODE + NUM_PAG_DATA - 1 -> FreeFrames] :
       /\ Initialised(1, d)
       /\ AllocFrames(NUM_PAG_CODE + NUM_PAG_DATA, fr)
       /\ phys_mem' = phys_mem \cup Range(fr)
       /\ tables' = [tables EXCEPT ![d] = [p \in OtherPages |->
            IF p \in CodePages THEN fr[p - NUM_PAG_KERNEL] ELSE tables[d][p]]]
       /\ PT' = [PT EXCEPT ![d] = [p \in DataPages |-> fr[NUM_PAG_CODE + p]]]
  /\ tlb' = {}

\* From here on interrupts come in, before return_gate leaves the boot stack.
enable_int ==
  /\ MainGoes("init_task1", "enable_int")
  /\ UNCHANGED <<vars, spaceVars>>

\* clock_rutine on the boot stack.  Bound: the few instructions up to
\* return_gate do not last until the end of init's turn.
BootTick ==
  /\ stage = "enable_int"
  /\ TurnGoesOn
  /\ qLeft' = qLeft - 1
  /\ UNCHANGED <<stage, freequeue, freelinks, readyqueue, PID, estado, quantum, current, fault>>
  /\ UNCHANGED <<kbVars, semVars, memVars, incrementalPID, spaceVars>>

\* keyboard_rutine on the boot stack, also for a key that was pending:
\* nobody waits for it.
BootKey ==
  /\ stage = "enable_int"
  /\ keyboardBuff' = cirBuffWrite(keyboardBuff)
  /\ UNCHANGED <<stage, schedVars, keyboardqueue, missingKeys>>
  /\ UNCHANGED <<semVars, memVars, incrementalPID, spaceVars>>

\* From now on the kernel is entered on the stack init_task1 put in the TSS,
\* which is init's.
return_gate ==
  /\ MainGoes("enable_int", "return_gate")
  /\ \E t \in Tasks : PID[t] = 1 /\ current' = t
  /\ fault' = "none"
  /\ UNCHANGED <<freequeue, freelinks, readyqueue, PID, estado, quantum, qLeft>>
  /\ UNCHANGED <<kbVars, semVars, memVars, incrementalPID, spaceVars>>

Running ==
  /\ stage \in {"return_gate", "running"} /\ stage' = "running"
  /\ SpaceNext

Main == init_mm \/ init_sched \/ init_idle \/ init_task1 \/ enable_int \/ return_gate
BootNext == Main \/ BootTick \/ BootKey \/ Running
BootSpec == Loaded /\ [][BootNext]_bootVars

-----------------------------------------------------------------------------
\* What main leaves behind when init enters user mode is the initial state of
\* the other modules, whatever ticks and keys come in between: the directory
\* taken before init_sched forgets all references, the PCBs of the boot stack
\* and of the boot directory in the free list, frames and tables in their order.
BootEstablishesInit == stage = "return_gate" => SpaceInit

=============================================================================
