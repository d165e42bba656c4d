---------------------------- MODULE KernelProofs ----------------------------
(***************************************************************************)
(* Theorems about the kernel for every number of tasks, semaphores, pages  *)
(* and frames.                                                             *)
(***************************************************************************)
EXTENDS KernelProperties, SequenceTheorems, TLAPS

\* The assumptions on the constants, together.
LEMMA Constants ==
  /\ NR_TASKS \in Nat /\ NR_TASKS > 2
  /\ DEFAULT_QUANTUM \in Nat \ {0} /\ Quanta \subseteq Int
  /\ CIRBUFFER_SIZE \in Nat \ {0} /\ ReadSizes \subseteq Nat
  /\ NSEM \in Nat \ {0} /\ SemIds \subseteq Int /\ SemValues \subseteq Int
  /\ NUM_PAG_KERNEL \in Nat \ {0} /\ NUM_PAG_CODE \in Nat \ {0}
  /\ NUM_PAG_DATA \in Nat \ {0} /\ TOTAL_PAGES \in Nat
  /\ NUM_PAG_KERNEL + 2 * (NUM_PAG_CODE + NUM_PAG_DATA) <= TOTAL_PAGES
  BY SchedAssumption, CirBufferAssumption, InterruptsAssumption, SemaphoresAssumption,
     MemoryAssumption

\* task[0] (idle) and task[1] (init) are two different tasks.
LEMMA SpecialTasks ==
  /\ idle_task \in Tasks /\ init_task \in Tasks /\ idle_task # init_task
  /\ BootFreeQueue \in Seq(Tasks)
  BY Constants DEF idle_task, init_task, Tasks, BootFreeQueue

\* What list_del leaves of a queue is a queue of the same kind.
LEMMA UnlinkedType ==
  ASSUME NEW q \in Seq(Tasks), NEW t
  PROVE  Unlinked(q, t) \in Seq(Tasks)
<1>1. CASE t \notin Range(q)
  BY <1>1 DEF Unlinked
<1>2. CASE t \in Range(q)
  <2> DEFINE i == CHOOSE k \in DOMAIN q : q[k] = t
  <2>1. i \in 1 .. Len(q)
    BY <1>2 DEF Range
  <2>2. \A k \in 1 .. Len(q) : q[k] \in Tasks
    BY ElementOfSeq
  <2> HIDE DEF i
  <2>3. SubSeq(q, 1, i - 1) \in Seq(Tasks)
    BY <2>1, <2>2, SubSeqProperties, 1 \in Int, i - 1 \in Int
  <2>4. SubSeq(q, i + 1, Len(q)) \in Seq(Tasks)
    BY <2>1, <2>2, SubSeqProperties, LenProperties, i + 1 \in Int
  <2>5. Unlinked(q, t) = SubSeq(q, 1, i - 1) \o SubSeq(q, i + 1, Len(q))
    BY <1>2 DEF Unlinked, i
  <2> QED
    BY <2>3, <2>4, <2>5
<1> QED
  BY <1>1, <1>2

\* list_first of a queue that is not empty, and the queue without it.
LEMMA HeadTail ==
  ASSUME NEW q \in Seq(Tasks), q # <<>>
  PROVE  Head(q) \in Tasks /\ Tail(q) \in Seq(Tasks)
  OBVIOUS

-----------------------------------------------------------------------------
(* Type correctness.                                                       *)

\* That state has the types.
LEMMA InitTypeOK == Init => TypeOK
<1> SUFFICES ASSUME Init PROVE TypeOK
  OBVIOUS
<1> USE Constants, SpecialTasks
<1>1. SchedTypeOK
  BY DEF Init, SchedInit, FreeListInit, SchedTypeOK, States, Faults, LinkShapes, Exhausted, Tasks
<1>2. KeyboardTypeOK
  BY DEF Init, KeyboardInit, KeyboardTypeOK
<1>3. SemaphoresTypeOK
  BY DEF Init, SemaphoresInit, SemaphoresTypeOK
<1>4. MemoryTypeOK
  <2>1. \A k \in 0 .. NUM_PAG_CODE + NUM_PAG_DATA - 1 : BootFrame(k) \in Frames
    BY DEF BootFrame, Frames
  <2>2. \A p \in DataPages : BootFrame(NUM_PAG_CODE + p) \in Frames
    BY DEF BootFrame, Frames, DataPages
  <2>3. NoFrame \in Frames /\ 0 .. NUM_PAG_KERNEL - 1 \subseteq Frames
    BY DEF NoFrame, Frames
  <2>4. 0 \in Dirs /\ 1 \in Dirs
    BY DEF Dirs, Tasks
  <2>5. phys_mem \subseteq Frames
    BY <2>1, <2>3 DEF Init, MemoryInit
  <2>6. PT \in [Dirs -> [DataPages -> Frames]]
    BY <2>2, <2>3 DEF Init, MemoryInit
  <2> QED
    BY <2>4, <2>5, <2>6 DEF Init, MemoryInit, MemoryTypeOK
<1> QED
  BY <1>1, <1>2, <1>3, <1>4 DEF Init, TypeOK

\* sched_next_rr keeps the types, for a ready queue and states of the right type.
LEMMA sched_next_rrType ==
  ASSUME TypeOK, NEW rq \in Seq(Tasks), NEW st \in [Tasks -> States],
         sched_next_rr(rq, st)
  PROVE  /\ readyqueue' \in Seq(Tasks) /\ estado' \in [Tasks -> States]
         /\ current' \in Tasks /\ qLeft' \in Int
         /\ NextTask(rq) \in Tasks
<1> USE SpecialTasks, HeadTail DEF TypeOK, SchedTypeOK, NextTask
<1>1. CASE rq # <<>>
  <2>1. Head(rq) \in Tasks /\ Tail(rq) \in Seq(Tasks)
    BY <1>1
  <2>2. [st EXCEPT ![Head(rq)] = "RUN"] \in [Tasks -> States]
    BY <2>1 DEF States
  <2> QED
    BY <1>1, <2>1, <2>2 DEF sched_next_rr, get_quantum
<1>2. CASE rq = <<>>
  BY <1>2 DEF sched_next_rr
<1> QED
  BY <1>1, <1>2

\* The positions of the ring buffer stay where the code has room for them.
CirBuffers == [writePos : 0 .. CIRBUFFER_SIZE - 1, readPos : Nat, full : BOOLEAN]

\* What push and pop leave is a circular buffer again.
LEMMA CirBufferType ==
  ASSUME NEW b \in CirBuffers
  PROVE  cirBuffWrite(b) \in CirBuffers /\ cirBuffRead(b) \in CirBuffers
<1> USE Constants
<1>1. /\ b.writePos \in 0 .. CIRBUFFER_SIZE - 1 /\ b.readPos \in Nat /\ b.full \in BOOLEAN
  BY DEF CirBuffers
<1>2. Wrapped(b.writePos + 1) \in 0 .. CIRBUFFER_SIZE - 1
  BY <1>1 DEF Wrapped
<1>3. cirBuffWrite(b) \in CirBuffers
  BY <1>1, <1>2 DEF CirBuffers, cirBuffWrite
<1>4. cirBuffRead(b) \in CirBuffers
  <2>1. b.readPos + 1 \in Nat
    BY <1>1
  <2> QED
    BY <1>1, <2>1 DEF CirBuffers, cirBuffRead
<1> QED
  BY <1>3, <1>4

\* A switch, with what the next process does in the kernel, keeps the types.
LEMMA DispatchType ==
  ASSUME TypeOK, NEW rq \in Seq(Tasks), NEW st \in [Tasks -> States],
         NEW mk \in [Tasks -> Nat \cup {-1}], Dispatch(rq, st, mk)
  PROVE  /\ readyqueue' \in Seq(Tasks) /\ estado' \in [Tasks -> States]
         /\ current' \in Tasks /\ qLeft' \in Int /\ fault' \in Faults
         /\ missingKeys' \in [Tasks -> Nat \cup {-1}] /\ keyboardBuff' \in CirBuffers
<1>1. sched_next_rr(rq, st)
  BY DEF Dispatch
<1>2. /\ readyqueue' \in Seq(Tasks) /\ estado' \in [Tasks -> States]
      /\ current' \in Tasks /\ qLeft' \in Int /\ NextTask(rq) \in Tasks
  BY <1>1, sched_next_rrType
<1>3. fault' \in Faults
  BY DEF Dispatch, Faults
<1>4. missingKeys' \in [Tasks -> Nat \cup {-1}]
  BY DEF Dispatch
<1>5. keyboardBuff' \in CirBuffers
  <2>1. keyboardBuff \in CirBuffers
    BY DEF TypeOK, KeyboardTypeOK, CirBuffers
  <2> QED
    BY <2>1, CirBufferType DEF Dispatch
<1> QED
  BY <1>2, <1>3, <1>4, <1>5

\* What exitRunCurrent makes of the states.
LEMMA StatesType ==
  ASSUME TypeOK, NEW st \in States
  PROVE  exitRunCurrent(st) \in [Tasks -> States]
  BY DEF TypeOK, SchedTypeOK, exitRunCurrent

\* The clock, the keyboard and read keep the types.
LEMMA SchedStepType == TypeOK /\ SchedStep => TypeOK'
<1> SUFFICES ASSUME TypeOK, SchedStep PROVE TypeOK'
  OBVIOUS
<1>1. /\ SemaphoresTypeOK' /\ MemoryTypeOK' /\ (incrementalPID \in Int)'
  BY DEF TypeOK, SchedStep, SemaphoresTypeOK, MemoryTypeOK, semVars, memVars
<1>2. /\ freequeue \in Seq(Tasks) /\ readyqueue \in Seq(Tasks) /\ keyboardqueue \in Seq(Tasks)
      /\ current \in Tasks /\ missingKeys \in [Tasks -> Nat \cup {-1}]
      /\ keyboardBuff \in CirBuffers /\ estado \in [Tasks -> States]
  BY DEF TypeOK, SchedTypeOK, KeyboardTypeOK, CirBuffers
<1>3. exitRunCurrent("READY") \in [Tasks -> States] /\ exitRunCurrent("BLOCKED") \in [Tasks -> States]
  BY StatesType DEF States
<1>4. ASSUME Clock PROVE SchedTypeOK' /\ KeyboardTypeOK'
  <2>1. ASSUME ClockTick PROVE SchedTypeOK' /\ KeyboardTypeOK'
    BY <1>4, <2>1 DEF Clock, ClockTick, TypeOK, SchedTypeOK, KeyboardTypeOK, Exhausted
  <2>2. ASSUME ClockRenew PROVE SchedTypeOK' /\ KeyboardTypeOK'
    BY <1>4, <2>2 DEF Clock, ClockRenew, get_quantum, TypeOK, SchedTypeOK, KeyboardTypeOK, Exhausted
  <2>3. ASSUME ClockSwitch PROVE SchedTypeOK' /\ KeyboardTypeOK'
    <3>1. Append(readyqueue, current) \in Seq(Tasks)
      BY <1>2
    <3> QED
      BY <1>2, <1>3, <1>4, <2>3, <3>1, DispatchType
         DEF Clock, ClockSwitch, TypeOK, SchedTypeOK, KeyboardTypeOK, Exhausted, CirBuffers
  <2> QED
    BY <1>4, <2>1, <2>2, <2>3 DEF Clock
<1>5. ASSUME Key PROVE SchedTypeOK' /\ KeyboardTypeOK'
  <2>1. keyboardBuff' \in CirBuffers
    BY <1>2, <1>5, CirBufferType DEF Key
  <2>2. readyqueue' \in Seq(Tasks) /\ keyboardqueue' \in Seq(Tasks) /\ estado' \in [Tasks -> States]
    <3>1. CASE KeyWakes(keyboardBuff')
      <4>1. FirstReader \in Tasks /\ Tail(keyboardqueue) \in Seq(Tasks)
        BY <1>2, <3>1, HeadTail DEF KeyWakes, FirstReader
      <4>2. readyqueue' = Append(readyqueue, FirstReader) /\ keyboardqueue' = Tail(keyboardqueue)
            /\ estado' = [estado EXCEPT ![FirstReader] = "READY"]
        BY <1>5, <3>1 DEF Key
      <4>3. [estado EXCEPT ![FirstReader] = "READY"] \in [Tasks -> States]
        BY <1>2, <4>1 DEF States
      <4> QED
        BY <1>2, <4>1, <4>2, <4>3
    <3>2. CASE ~KeyWakes(keyboardBuff')
      BY <1>2, <1>5, <3>2 DEF Key
    <3> QED
      BY <3>1, <3>2
  <2> QED
    BY <1>5, <2>1, <2>2 DEF Key, TypeOK, SchedTypeOK, KeyboardTypeOK, Exhausted, CirBuffers
<1>6. ASSUME NEW n \in ReadSizes, Read(n) PROVE SchedTypeOK' /\ KeyboardTypeOK'
  <2>0. n \in Nat /\ [missingKeys EXCEPT ![current] = n] \in [Tasks -> Nat \cup {-1}]
    BY <1>2, Constants
  <2>1. ASSUME ReadBehindOthers(n) PROVE SchedTypeOK' /\ KeyboardTypeOK'
    <3>1. keyboardqueue' \in Seq(Tasks)
      BY <1>2, <2>1 DEF ReadBehindOthers
    <3> QED
      BY <1>2, <1>3, <1>6, <2>0, <2>1, <3>1, DispatchType
         DEF Read, ReadBehindOthers, TypeOK, SchedTypeOK, KeyboardTypeOK, Exhausted, CirBuffers
  <2>2. ASSUME ReadAtOnce(n) PROVE SchedTypeOK' /\ KeyboardTypeOK'
    <3>1. keyboardBuff' \in CirBuffers
      BY <1>2, <2>2, CirBufferType DEF ReadAtOnce
    <3> QED
      BY <1>2, <1>6, <2>2, <3>1
         DEF Read, ReadAtOnce, TypeOK, SchedTypeOK, KeyboardTypeOK, Exhausted, CirBuffers, Faults
  <2>3. ASSUME ReadBlocks(n) PROVE SchedTypeOK' /\ KeyboardTypeOK'
    <3>1. keyboardqueue' \in Seq(Tasks)
      BY <1>2, <2>3 DEF ReadBlocks
    <3> QED
      BY <1>2, <1>3, <1>6, <2>0, <2>3, <3>1, DispatchType
         DEF Read, ReadBlocks, TypeOK, SchedTypeOK, KeyboardTypeOK, Exhausted, CirBuffers
  <2> QED
    BY <1>6, <2>1, <2>2, <2>3 DEF Read
<1> QED
  BY <1>1, <1>4, <1>5, <1>6 DEF SchedStep, TypeOK

\* The entries of semaphores[], and the updates the calls make to one.
SemEntries == [state : {"FREE", "USED"}, n_sem : Int, owner : Int, counter : Int]

\* The entries a semaphore call writes are entries of the table.
LEMMA SemEntriesType ==
  ASSUME NEW s \in SemEntries
  PROVE  Destroyed(s) \in SemEntries /\ OneMore(s) \in SemEntries /\ OneLess(s) \in SemEntries
<1>1. /\ s.state \in {"FREE", "USED"} /\ s.n_sem \in Int /\ s.owner \in Int /\ s.counter \in Int
      /\ s = [state |-> s.state, n_sem |-> s.n_sem, owner |-> s.owner, counter |-> s.counter]
  BY DEF SemEntries
<1>2. ASSUME NEW c \in Int PROVE [s EXCEPT !.counter = c] \in SemEntries
  <2>1. [s EXCEPT !.counter = c]
          = [state |-> s.state, n_sem |-> s.n_sem, owner |-> s.owner, counter |-> c]
    BY <1>1
  <2> QED
    BY <1>1, <2>1 DEF SemEntries
<1>3. Destroyed(s) \in SemEntries
  <2> DEFINE t == [s EXCEPT !.state = "FREE"]
             u == [t EXCEPT !.n_sem = -1]
  <2>1. t = [state |-> "FREE", n_sem |-> s.n_sem, owner |-> s.owner, counter |-> s.counter]
    BY <1>1
  <2> HIDE DEF t
  <2>2. u = [state |-> "FREE", n_sem |-> -1, owner |-> s.owner, counter |-> s.counter]
    BY <2>1
  <2> HIDE DEF u
  <2>3. [u EXCEPT !.owner = 0]
          = [state |-> "FREE", n_sem |-> -1, owner |-> 0, counter |-> s.counter]
    BY <2>2
  <2>4. Destroyed(s) = [u EXCEPT !.owner = 0]
    BY Zenon DEF Destroyed, t, u
  <2> QED
    BY <1>1, <2>3, <2>4, -1 \in Int, 0 \in Int DEF SemEntries
<1>4. OneMore(s) \in SemEntries
  <2>1. s.counter + 1 \in Int
    BY <1>1
  <2> QED
    BY <1>2, <2>1, Zenon DEF OneMore
<1>5. OneLess(s) \in SemEntries
  <2>1. s.counter - 1 \in Int
    BY <1>1
  <2> QED
    BY <1>2, <2>1, Zenon DEF OneLess
<1> QED
  BY <1>3, <1>4, <1>5

\* A write to one entry of the table.
LEMMA SlotUpdateType ==
  ASSUME semaphores \in [Slots -> SemEntries], NEW i \in Slots, NEW s \in SemEntries
  PROVE  [semaphores EXCEPT ![i] = s] \in [Slots -> SemEntries]
  OBVIOUS

\* The semaphore calls keep the types.
LEMMA SemaphoreStepType == TypeOK /\ SemaphoreStep => TypeOK'
<1> SUFFICES ASSUME TypeOK, SemaphoreStep PROVE TypeOK'
  OBVIOUS
<1>1. /\ MemoryTypeOK' /\ (incrementalPID \in Int)'
  BY DEF TypeOK, SemaphoreStep, MemoryTypeOK, memVars
<1>2. /\ readyqueue \in Seq(Tasks) /\ keyboardqueue \in Seq(Tasks)
      /\ current \in Tasks /\ missingKeys \in [Tasks -> Nat \cup {-1}]
      /\ keyboardBuff \in CirBuffers /\ estado \in [Tasks -> States]
      /\ blockedQueue \in [Slots -> Seq(Tasks)] /\ sem_ret \in [Tasks -> {0, -1}]
      /\ PID \in [Tasks -> Int]
      /\ semaphores \in [Slots -> SemEntries]
  BY DEF TypeOK, SchedTypeOK, KeyboardTypeOK, SemaphoresTypeOK, CirBuffers, SemEntries
<1>3. exitRunCurrent("BLOCKED") \in [Tasks -> States]
  BY StatesType DEF States
<1> DEFINE Types == SchedTypeOK' /\ KeyboardTypeOK' /\ SemaphoresTypeOK'
<1>4. ASSUME NEW n \in SemIds, NEW value \in SemValues, sys_sem_init(n, value) PROVE Types
  <2>1. n \in Int /\ value \in Int /\ PID[current] \in Int
    BY <1>2, Constants
  <2>2. fault' \in Faults
    BY <1>4 DEF sys_sem_init, Faults, TypeOK, SchedTypeOK
  <2>3. semaphores' \in [Slots -> SemEntries]
    <3>1. [state |-> "USED", n_sem |-> n, owner |-> PID[current], counter |-> value] \in SemEntries
      BY <2>1 DEF SemEntries
    <3> QED
      BY <1>2, <1>4, <3>1 DEF sys_sem_init
  <2>4. blockedQueue' \in [Slots -> Seq(Tasks)]
    <3>1. <<>> \in Seq(Tasks)
      OBVIOUS
    <3> QED
      BY <1>2, <1>4, <3>1 DEF sys_sem_init
  <2>5. sem_ret' \in [Tasks -> {0, -1}]
    BY <1>2, <1>4 DEF sys_sem_init
  <2> QED
    BY <1>2, <1>4, <2>2, <2>3, <2>4, <2>5
       DEF sys_sem_init, SemaphoresTypeOK, SemEntries, TypeOK, SchedTypeOK, KeyboardTypeOK, kbVars, Exhausted
<1>5. ASSUME NEW n \in SemIds, sys_sem_destroy(n) PROVE Types
  <2> PICK i \in Slots :
       /\ readyqueue' = readyqueue \o blockedQueue[i]
       /\ estado' = Released(estado, Range(blockedQueue[i]))
       /\ sem_ret' = FailedWait(Range(blockedQueue[i]))
       /\ blockedQueue' = [blockedQueue EXCEPT ![i] = <<>>]
       /\ semaphores' = [semaphores EXCEPT ![i] = Destroyed(@)]
    BY <1>5 DEF sys_sem_destroy
  <2>1. readyqueue' \in Seq(Tasks)
    BY <1>2
  <2>2. estado' \in [Tasks -> States]
    BY <1>2 DEF Released, States
  <2>3. semaphores' \in [Slots -> SemEntries]
    BY <1>2, SemEntriesType, SlotUpdateType
  <2>4. blockedQueue' \in [Slots -> Seq(Tasks)] /\ sem_ret' \in [Tasks -> {0, -1}]
    BY <1>2 DEF FailedWait
  <2> QED
    BY <1>5, <2>1, <2>2, <2>3, <2>4
       DEF sys_sem_destroy, SemaphoresTypeOK, SemEntries, TypeOK, SchedTypeOK, KeyboardTypeOK, kbVars, Exhausted
<1>6. ASSUME NEW n \in SemIds, sys_sem_signal(n) PROVE Types
  <2> PICK i \in Slots : SignalCounts(i) \/ SignalWakes(i)
    BY <1>6 DEF sys_sem_signal
  <2>1. CASE SignalCounts(i)
    <3>1. semaphores' \in [Slots -> SemEntries]
      BY <1>2, <2>1, SemEntriesType, SlotUpdateType DEF SignalCounts
    <3> QED
      BY <1>2, <1>6, <2>1, <3>1
         DEF sys_sem_signal, SignalCounts, SemaphoresTypeOK, SemEntries, TypeOK, SchedTypeOK, KeyboardTypeOK, kbVars, Exhausted
  <2>2. CASE SignalWakes(i)
    <3>1. Head(blockedQueue[i]) \in Tasks /\ Tail(blockedQueue[i]) \in Seq(Tasks)
      BY <1>2, <2>2, HeadTail DEF SignalWakes
    <3>2. readyqueue' \in Seq(Tasks) /\ estado' \in [Tasks -> States]
      BY <1>2, <2>2, <3>1 DEF SignalWakes, WithWoken, States
    <3>3. SemaphoresTypeOK'
      <4>1. blockedQueue' \in [Slots -> Seq(Tasks)]
        BY <1>2, <2>2, <3>1 DEF SignalWakes
      <4> QED
        BY <1>2, <1>6, <2>2, <4>1 DEF sys_sem_signal, SignalWakes, SemaphoresTypeOK, SemEntries
    <3> QED
      BY <1>6, <3>2, <3>3
         DEF sys_sem_signal, TypeOK, SchedTypeOK, KeyboardTypeOK, kbVars, Exhausted
  <2> QED
    BY <2>1, <2>2
<1>7. ASSUME NEW n \in SemIds, sys_sem_wait(n) PROVE Types
  <2>1. sem_ret' \in [Tasks -> {0, -1}]
    BY <1>2, <1>7 DEF sys_sem_wait
  <2> PICK i \in Slots :
       \/ /\ blockedQueue' = [blockedQueue EXCEPT ![i] = Append(@, current)]
          /\ Dispatch(readyqueue, exitRunCurrent("BLOCKED"), missingKeys)
          /\ UNCHANGED semaphores
       \/ /\ semaphores' = [semaphores EXCEPT ![i] = OneLess(@)]
          /\ UNCHANGED <<blockedQueue, readyqueue, estado, current, qLeft, fault, missingKeys, keyboardBuff>>
    BY <1>7 DEF sys_sem_wait
  <2>2. CASE /\ blockedQueue' = [blockedQueue EXCEPT ![i] = Append(@, current)]
             /\ Dispatch(readyqueue, exitRunCurrent("BLOCKED"), missingKeys)
             /\ UNCHANGED semaphores
    <3>1. SemaphoresTypeOK'
      BY <1>2, <2>1, <2>2 DEF SemaphoresTypeOK, SemEntries
    <3> QED
      BY <1>2, <1>3, <1>7, <2>2, <3>1, DispatchType
         DEF sys_sem_wait, TypeOK, SchedTypeOK, KeyboardTypeOK, CirBuffers, Exhausted
  <2>3. CASE /\ semaphores' = [semaphores EXCEPT ![i] = OneLess(@)]
             /\ UNCHANGED <<blockedQueue, readyqueue, estado, current, qLeft, fault, missingKeys, keyboardBuff>>
    <3>1. semaphores' \in [Slots -> SemEntries]
      BY <1>2, <2>3, SemEntriesType, SlotUpdateType
    <3> QED
      BY <1>2, <1>7, <2>1, <2>3, <3>1
         DEF sys_sem_wait, SemaphoresTypeOK, SemEntries, TypeOK, SchedTypeOK, KeyboardTypeOK, Exhausted
  <2> QED
    BY <2>2, <2>3
<1> QED
  BY <1>1, <1>4, <1>5, <1>6, <1>7 DEF SemaphoreStep, TypeOK

\* Taking the first PCB of the free list, and putting one back twice.
LEMMA FreeListType ==
  ASSUME TypeOK, TakeFirst \/ \E t \in Tasks : AddTwice(t)
  PROVE  /\ freequeue' \in Seq(Tasks) /\ freelinks' \in LinkShapes
         /\ Exhausted' => freequeue' # <<>>
<1>1. freequeue \in Seq(Tasks) /\ freelinks \in LinkShapes /\ (Exhausted => freequeue # <<>>)
  BY DEF TypeOK, SchedTypeOK
<1>2. CASE TakeFirst
  <2>1. FirstFree \in Tasks /\ Tail(freequeue) \in Seq(Tasks) /\ <<FirstFree>> \in Seq(Tasks)
    BY <1>1, <1>2, HeadTail DEF TakeFirst, FirstFree
  <2>2. <<FirstFree>> # <<>>
    OBVIOUS
  <2> QED
    BY <1>1, <1>2, <2>1, <2>2 DEF TakeFirst, LinkShapes, Exhausted
<1>3. ASSUME NEW t \in Tasks, AddTwice(t)
      PROVE  /\ freequeue' \in Seq(Tasks) /\ freelinks' \in LinkShapes
             /\ Exhausted' => freequeue' # <<>>
  <2>1. Append(freequeue, t) \in Seq(Tasks) /\ Append(freequeue, t) # <<>>
    BY <1>1
  <2> QED
    BY <1>1, <1>3, <2>1 DEF AddTwice, LinkShapes, Exhausted
<1> QED
  BY <1>2, <1>3

\* fork's copy of the address space keeps the types of the memory tables.
LEMMA ForkMemoryType ==
  ASSUME TypeOK, NEW new \in Tasks,
         ForkMemory(new) \/ ForkWithoutDIR(new) \/ ForkWithoutFrames(new) \/ CloneMemory(new)
  PROVE  MemoryTypeOK'
<1>1. /\ phys_mem \subseteq Frames /\ refs_DIR \in [Dirs -> Int]
      /\ n_directorio \in [Tasks -> Dirs] /\ PT \in [Dirs -> [DataPages -> Frames]]
      /\ current \in Tasks
  BY DEF TypeOK, SchedTypeOK, MemoryTypeOK
<1>2. FreeFrames \subseteq Frames
  BY Constants DEF FreeFrames, Allocatable, Frames
<1>3. CASE ForkMemory(new)
  <2> PICK d \in Dirs, fr \in [DataPages -> FreeFrames] :
        /\ refs_DIR' = [refs_DIR EXCEPT ![d] = @ + 1]
        /\ n_directorio' = [n_directorio EXCEPT ![new] = d]
        /\ phys_mem' = phys_mem \cup {fr[p] : p \in DataPages}
        /\ PT' = [PT EXCEPT ![d] = fr]
    BY <1>3 DEF ForkMemory
  <2>1. fr \in [DataPages -> Frames]
    BY <1>2
  <2>2. phys_mem' \subseteq Frames
    BY <1>1, <2>1
  <2> QED
    BY <1>1, <2>1, <2>2 DEF MemoryTypeOK
<1>4. CASE ForkWithoutDIR(new)
  BY <1>1, <1>4 DEF ForkWithoutDIR, MemoryTypeOK
<1>5. CASE ForkWithoutFrames(new)
  <2> PICK d \in Dirs, n \in 0 .. NUM_PAG_DATA - 1 :
        /\ refs_DIR' = [refs_DIR EXCEPT ![d] = @ + 1]
        /\ n_directorio' = [n_directorio EXCEPT ![new] = d]
        /\ phys_mem' = RevertedFrames(FreeFrames)
        /\ \E fr \in [0 .. n - 1 -> FreeFrames] :
             PT' = [PT EXCEPT ![d] = [p \in DataPages |-> IF p < n THEN fr[p] ELSE PT[d][p]]]
    BY <1>5 DEF ForkWithoutFrames
  <2> PICK fr \in [0 .. n - 1 -> FreeFrames] :
        PT' = [PT EXCEPT ![d] = [p \in DataPages |-> IF p < n THEN fr[p] ELSE PT[d][p]]]
    OBVIOUS
  <2>1. phys_mem' \subseteq Frames
    BY <1>1, <1>2 DEF RevertedFrames, free_frames
  <2>2. ASSUME NEW p \in DataPages PROVE (IF p < n THEN fr[p] ELSE PT[d][p]) \in Frames
    <3>1. p < n => p \in 0 .. n - 1
      BY Constants DEF DataPages
    <3> QED
      BY <1>1, <1>2, <3>1
  <2>3. PT' \in [Dirs -> [DataPages -> Frames]]
    BY <1>1, <2>2
  <2> QED
    BY <1>1, <2>1, <2>3 DEF MemoryTypeOK
<1>6. CASE CloneMemory(new)
  BY <1>1, <1>6 DEF CloneMemory, MemoryTypeOK
<1> QED
  BY <1>3, <1>4, <1>5, <1>6

\* exit's release of the address space keeps the types of the memory tables.
LEMMA ExitMemoryType ==
  ASSUME TypeOK, ExitMemory
  PROVE  MemoryTypeOK'
<1>1. /\ phys_mem \subseteq Frames /\ refs_DIR \in [Dirs -> Int]
      /\ n_directorio \in [Tasks -> Dirs] /\ PT \in [Dirs -> [DataPages -> Frames]]
      /\ current \in Tasks
  BY DEF TypeOK, SchedTypeOK, MemoryTypeOK
<1>2. NoFrame \in Frames
  BY Constants DEF NoFrame, Frames
<1>3. refs_DIR' \in [Dirs -> Int] /\ n_directorio' \in [Tasks -> Dirs]
  BY <1>1 DEF ExitMemory
<1>4. phys_mem' \subseteq Frames /\ PT' \in [Dirs -> [DataPages -> Frames]]
  BY <1>1, <1>2 DEF ExitMemory, free_frames
<1> QED
  BY <1>3, <1>4 DEF MemoryTypeOK

\* fork and clone keep the types.
LEMMA CreateType == TypeOK /\ (sys_fork \/ sys_clone) => TypeOK'
<1> SUFFICES ASSUME TypeOK, sys_fork \/ sys_clone PROVE TypeOK'
  OBVIOUS
<1>1. CASE CreateFaults
  BY <1>1 DEF CreateFaults, Faults, kbVars, semVars, memVars, TypeOK, SchedTypeOK, KeyboardTypeOK,
              SemaphoresTypeOK, MemoryTypeOK, Exhausted
<1>2. CASE ~CreateFaults
  <2> DEFINE new == FirstFree
  <2>1. /\ CanCreate /\ TakePCB(new)
        /\ ForkMemory(new) \/ ForkWithoutDIR(new) \/ ForkWithoutFrames(new) \/ CloneMemory(new)
        /\ Created(new) \/ Abandoned(new)
    BY <1>2 DEF sys_fork, sys_clone
  <2>2. new \in Tasks
    BY <2>1, HeadTail DEF CanCreate, FirstFree, TypeOK, SchedTypeOK
  <2> HIDE DEF new
  <2>3. MemoryTypeOK'
    BY <2>1, <2>2, ForkMemoryType
  <2>4. /\ freequeue' \in Seq(Tasks) /\ freelinks' \in LinkShapes
        /\ Exhausted' => freequeue' # <<>>
    BY <2>1, FreeListType DEF TakePCB
  <2>5. /\ keyboardqueue' \in Seq(Tasks) /\ blockedQueue' \in [Slots -> Seq(Tasks)]
        /\ fault' \in Faults
    BY <2>1, UnlinkedType DEF TakePCB, TypeOK, KeyboardTypeOK, SemaphoresTypeOK, Faults
  <2>6. readyqueue' \in Seq(Tasks) /\ (incrementalPID \in Int)'
    <3>1. Unlinked(readyqueue, new) \in Seq(Tasks)
      BY UnlinkedType DEF TypeOK, SchedTypeOK
    <3>2. Append(Unlinked(readyqueue, new), new) \in Seq(Tasks)
      BY <2>2, <3>1
    <3> QED
      BY <2>1, <3>1, <3>2 DEF Created, Abandoned, TypeOK
  <2>7. \E pid \in Int, st \in States : CopyPCB(new, pid, st)
    BY <2>1 DEF Created, Abandoned, TypeOK, SchedTypeOK, States
  <2>8. /\ PID' \in [Tasks -> Int] /\ estado' \in [Tasks -> States] /\ quantum' \in [Tasks -> Int]
        /\ sem_ret' \in [Tasks -> {0, -1}] /\ missingKeys' \in [Tasks -> Nat \cup {-1}]
        /\ UNCHANGED <<current, qLeft, keyboardBuff, semaphores>>
    BY <2>2, <2>7 DEF CopyPCB, TypeOK, SchedTypeOK, KeyboardTypeOK, SemaphoresTypeOK
  <2> QED
    BY <2>3, <2>4, <2>5, <2>6, <2>8
       DEF TypeOK, SchedTypeOK, KeyboardTypeOK, SemaphoresTypeOK
<1> QED
  BY <1>1, <1>2

\* exit keeps the types.
LEMMA ExitType == TypeOK /\ sys_exit => TypeOK'
<1> SUFFICES ASSUME TypeOK, sys_exit PROVE TypeOK'
  OBVIOUS
<1>1. CASE ExitCorrupts
  BY <1>1 DEF ExitCorrupts, Faults, kbVars, semVars, memVars, TypeOK, SchedTypeOK, KeyboardTypeOK,
              SemaphoresTypeOK, MemoryTypeOK, Exhausted
<1>2. CASE ExitSwitches
  <2>1. /\ current \in Tasks /\ readyqueue \in Seq(Tasks) /\ missingKeys \in [Tasks -> Nat \cup {-1}]
        /\ PID \in [Tasks -> Int] /\ blockedQueue \in [Slots -> Seq(Tasks)]
        /\ semaphores \in [Slots -> SemEntries] /\ sem_ret \in [Tasks -> {0, -1}]
    BY DEF TypeOK, SchedTypeOK, KeyboardTypeOK, SemaphoresTypeOK, SemEntries
  <2>2. MemoryTypeOK'
    BY <1>2, ExitMemoryType DEF ExitSwitches
  <2>3. /\ freequeue' \in Seq(Tasks) /\ freelinks' \in LinkShapes
        /\ Exhausted' => freequeue' # <<>>
    BY <1>2, <2>1, FreeListType DEF ExitSwitches
  <2>4. semaphores' \in [Slots -> SemEntries]
    BY <1>2, <2>1, SemEntriesType DEF ExitSwitches
  <2>5. blockedQueue' \in [Slots -> Seq(Tasks)]
    <3>1. <<>> \in Seq(Tasks)
      OBVIOUS
    <3> QED
      BY <1>2, <2>1, <3>1 DEF ExitSwitches
  <2>6. sem_ret' \in [Tasks -> {0, -1}] /\ PID' \in [Tasks -> Int]
    BY <1>2, <2>1 DEF ExitSwitches, FailedWait
  <2>7. PICK n \in 0 .. NR_TASKS : \E w \in [1 .. n -> Woken] :
          Dispatch(readyqueue \o w, Released(exitRunCurrent("BLOCKED"), Woken), missingKeys)
    BY <1>2 DEF ExitSwitches
  <2>8. PICK w \in [1 .. n -> Woken] :
          Dispatch(readyqueue \o w, Released(exitRunCurrent("BLOCKED"), Woken), missingKeys)
    BY <2>7
  <2>9. readyqueue \o w \in Seq(Tasks)
    <3>1. w \in Seq(Tasks)
      <4>1. w \in [1 .. n -> Tasks] /\ n \in Nat
        BY DEF Woken
      <4> QED
        BY <4>1, SeqDef
    <3> QED
      BY <2>1, <3>1
  <2>10. Released(exitRunCurrent("BLOCKED"), Woken) \in [Tasks -> States]
    BY StatesType DEF Released, States
  <2>11. /\ readyqueue' \in Seq(Tasks) /\ estado' \in [Tasks -> States]
         /\ current' \in Tasks /\ qLeft' \in Int /\ fault' \in Faults
         /\ missingKeys' \in [Tasks -> Nat \cup {-1}] /\ keyboardBuff' \in CirBuffers
    BY <2>1, <2>8, <2>9, <2>10, DispatchType
  <2> QED
    BY <1>2, <2>2, <2>3, <2>4, <2>5, <2>6, <2>11
       DEF ExitSwitches, TypeOK, SchedTypeOK, KeyboardTypeOK, SemaphoresTypeOK, SemEntries, CirBuffers
<1> QED
  BY <1>1, <1>2 DEF sys_exit

\* Every handler, and a stuttering step, keeps the types.
LEMMA NextTypeOK == TypeOK /\ [Next]_vars => TypeOK'
<1> SUFFICES ASSUME TypeOK, [Next]_vars PROVE TypeOK'
  OBVIOUS
<1>1. CASE NiceStep
  <2> PICK q \in Quanta : Nice(q)
    BY <1>1 DEF NiceStep
  <2>1. quantum' \in [Tasks -> Int]
    BY Constants DEF Nice, TypeOK, SchedTypeOK
  <2> QED
    BY <1>1, <2>1 DEF NiceStep, Nice, kbVars, semVars, memVars, TypeOK, SchedTypeOK, KeyboardTypeOK,
                      SemaphoresTypeOK, MemoryTypeOK, Exhausted
<1>2. CASE UNCHANGED vars
  BY <1>2 DEF vars, schedVars, kbVars, semVars, memVars, TypeOK, SchedTypeOK, KeyboardTypeOK,
              SemaphoresTypeOK, MemoryTypeOK, Exhausted
<1> QED
  BY <1>1, <1>2, SchedStepType, SemaphoreStepType, CreateType, ExitType DEF Next

\* Every handler leaves every table, queue and counter of the kernel within
\* its type, also the ones that end in a fault.
THEOREM TypeCorrect == Spec => []TypeOK
<1>1. Init => TypeOK
  BY InitTypeOK
<1>2. TypeOK /\ [Next]_vars => TypeOK'
  BY NextTypeOK
<1> QED
  BY <1>1, <1>2, PTL DEF Spec

-----------------------------------------------------------------------------
(* The queues are consistent: QueueInv.  A handler is a chain of small     *)
(* updates (wake somebody, queue somebody, hand over the CPU).  The proof  *)
(* has one lemma per update: each takes queues, states and PIDs that fit   *)
(* together (Fits) to ones that do.  The actions follow by composition.    *)

-----------------------------------------------------------------------------
(* Sequences as sets.                                                      *)

\* An empty queue holds no PCB.
LEMMA EmptyQueue == Range(<<>>) = {} /\ IsInjective(<<>>) /\ <<>> \in Seq(Tasks)
  BY DEF Range, IsInjective

\* A PCB added at the end.
LEMMA AppendQueue ==
  ASSUME NEW q \in Seq(Tasks), NEW t \in Tasks
  PROVE  /\ Append(q, t) \in Seq(Tasks)
         /\ Range(Append(q, t)) = Range(q) \cup {t}
         /\ IsInjective(q) /\ t \notin Range(q) => IsInjective(Append(q, t))
<1>1. /\ Append(q, t) \in Seq(Tasks) /\ DOMAIN q = 1 .. Len(q) /\ Len(q) \in Nat
      /\ DOMAIN Append(q, t) = 1 .. Len(q) + 1
      /\ \A i \in 1 .. Len(q) : Append(q, t)[i] = q[i]
      /\ Append(q, t)[Len(q) + 1] = t
  OBVIOUS
<1>2. Range(Append(q, t)) = Range(q) \cup {t}
  <2>1. \A x \in Range(q) \cup {t} : x \in Range(Append(q, t))
    BY <1>1 DEF Range
  <2>2. \A x \in Range(Append(q, t)) : x \in Range(q) \cup {t}
    BY <1>1 DEF Range
  <2> QED
    BY <2>1, <2>2
<1>3. ASSUME IsInjective(q), t \notin Range(q) PROVE IsInjective(Append(q, t))
  BY <1>1, <1>3 DEF IsInjective, Range
<1> QED
  BY <1>1, <1>2, <1>3

\* The first PCB taken off.
LEMMA TailQueue ==
  ASSUME NEW q \in Seq(Tasks), q # <<>>, IsInjective(q)
  PROVE  /\ Head(q) \in Tasks /\ Tail(q) \in Seq(Tasks) /\ Head(q) \in Range(q)
         /\ Range(Tail(q)) = Range(q) \ {Head(q)}
         /\ IsInjective(Tail(q))
<1>1. /\ Tail(q) \in Seq(Tasks) /\ DOMAIN q = 1 .. Len(q) /\ Len(q) \in Nat \ {0}
      /\ DOMAIN Tail(q) = 1 .. Len(q) - 1 /\ Head(q) = q[1] /\ Head(q) \in Tasks
      /\ \A i \in 1 .. Len(q) - 1 : Tail(q)[i] = q[i + 1]
  OBVIOUS
<1>2. IsInjective(Tail(q))
  BY <1>1 DEF IsInjective
<1>3. \A x \in Range(Tail(q)) : x \in Range(q) \ {Head(q)}
  BY <1>1 DEF IsInjective, Range
<1>4. ASSUME NEW x \in Range(q) \ {Head(q)} PROVE x \in Range(Tail(q))
  <2> PICK i \in 1 .. Len(q) : q[i] = x
    BY <1>1 DEF Range
  <2>1. i - 1 \in 1 .. Len(q) - 1 /\ Tail(q)[i - 1] = q[i]
    BY <1>1, <1>4
  <2> QED
    BY <1>1, <2>1 DEF Range
<1>5. Head(q) \in Range(q)
  BY <1>1 DEF Range
<1> QED
  BY <1>1, <1>2, <1>3, <1>4, <1>5

\* One queue put behind another.
LEMMA ConcatQueue ==
  ASSUME NEW p \in Seq(Tasks), NEW q \in Seq(Tasks)
  PROVE  /\ p \o q \in Seq(Tasks)
         /\ Range(p \o q) = Range(p) \cup Range(q)
         /\ IsInjective(p) /\ IsInjective(q) /\ Range(p) \cap Range(q) = {} => IsInjective(p \o q)
<1>1. /\ p \o q \in Seq(Tasks) /\ DOMAIN p = 1 .. Len(p) /\ DOMAIN q = 1 .. Len(q)
      /\ Len(p) \in Nat /\ Len(q) \in Nat
      /\ DOMAIN (p \o q) = 1 .. Len(p) + Len(q)
      /\ \A i \in 1 .. Len(p) + Len(q) :
           (p \o q)[i] = IF i <= Len(p) THEN p[i] ELSE q[i - Len(p)]
  OBVIOUS
<1>2. Range(p \o q) = Range(p) \cup Range(q)
  BY RangeConcatenation
<1>3. ASSUME IsInjective(p), IsInjective(q), Range(p) \cap Range(q) = {}
      PROVE  IsInjective(p \o q)
  <2> SUFFICES ASSUME NEW i \in 1 .. Len(p) + Len(q), NEW j \in 1 .. Len(p) + Len(q),
                      (p \o q)[i] = (p \o q)[j]
               PROVE  i = j
    BY <1>1 DEF IsInjective
  <2>1. \A k \in 1 .. Len(p) : p[k] \in Range(p)
    BY <1>1 DEF Range
  <2>2. \A k \in 1 .. Len(q) : q[k] \in Range(q)
    BY <1>1 DEF Range
  <2>3. CASE i <= Len(p) /\ j <= Len(p)
    <3>1. p[i] = p[j] /\ i \in DOMAIN p /\ j \in DOMAIN p
      BY <1>1, <2>3
    <3> QED
      BY <1>3, <3>1 DEF IsInjective
  <2>4. CASE i > Len(p) /\ j > Len(p)
    <3>1. q[i - Len(p)] = q[j - Len(p)] /\ i - Len(p) \in DOMAIN q /\ j - Len(p) \in DOMAIN q
      BY <1>1, <2>4
    <3>2. i - Len(p) = j - Len(p)
      BY <1>3, <3>1 DEF IsInjective
    <3> QED
      BY <1>1, <3>2
  <2>5. CASE i <= Len(p) /\ j > Len(p)
    <3>1. p[i] = q[j - Len(p)] /\ i \in 1 .. Len(p) /\ j - Len(p) \in 1 .. Len(q)
      BY <1>1, <2>5
    <3> QED
      BY <1>3, <2>1, <2>2, <3>1
  <2>6. CASE i > Len(p) /\ j <= Len(p)
    <3>1. p[j] = q[i - Len(p)] /\ j \in 1 .. Len(p) /\ i - Len(p) \in 1 .. Len(q)
      BY <1>1, <2>6
    <3> QED
      BY <1>3, <2>1, <2>2, <3>1
  <2> QED
    BY <1>1, <2>3, <2>4, <2>5, <2>6
<1> QED
  BY <1>1, <1>2, <1>3

-----------------------------------------------------------------------------
(* Queues, states and PIDs that fit together.                              *)

\* t hangs in the keyboard queue or in a semaphore's.
Waits(t, kq, bq) == t \in Range(kq) \/ \E i \in Slots : t \in Range(bq[i])

Typed(rq, kq, bq, st, pid) ==
  /\ rq \in Seq(Tasks) /\ kq \in Seq(Tasks) /\ bq \in [Slots -> Seq(Tasks)]
  /\ st \in [Tasks -> States] /\ pid \in [Tasks -> Int]

NoDuplicates(rq, kq, bq) ==
  /\ IsInjective(rq) /\ IsInjective(kq) /\ \A i \in Slots : IsInjective(bq[i])

\* No PCB waits in two queues.
OneWait(kq, bq) ==
  \A i \in Slots : \A t \in Range(bq[i]) :
    t \notin Range(kq) /\ \A j \in Slots : t \in Range(bq[j]) => i = j

\* A process is in the queue of its state, a PCB of none is in no queue.
InPlace(rq, kq, bq, st, pid) ==
  /\ \A t \in Tasks : t \in Range(rq) <=> pid[t] # -1 /\ st[t] = "READY"
  /\ \A t \in Tasks : Waits(t, kq, bq) <=> pid[t] # -1 /\ st[t] = "BLOCKED"
  /\ pid[idle_task] = 0 /\ st[idle_task] # "BLOCKED"

Fits(rq, kq, bq, st, pid) ==
  /\ Typed(rq, kq, bq, st, pid)
  /\ NoDuplicates(rq, kq, bq)
  /\ OneWait(kq, bq)
  /\ InPlace(rq, kq, bq, st, pid)

\* A process is running in those queues.
OnCPU(t, st, pid) == t \in Tasks /\ pid[t] # -1 /\ st[t] = "RUN"

\* What Fits says of one PCB, with the membership facts spelt out.
LEMMA FitsFacts ==
  ASSUME NEW rq, NEW kq, NEW bq, NEW st, NEW pid, Fits(rq, kq, bq, st, pid)
  PROVE  /\ rq \in Seq(Tasks) /\ kq \in Seq(Tasks) /\ bq \in [Slots -> Seq(Tasks)]
         /\ st \in [Tasks -> States] /\ pid \in [Tasks -> Int]
         /\ Range(rq) \subseteq Tasks /\ Range(kq) \subseteq Tasks
         /\ \A i \in Slots : Range(bq[i]) \subseteq Tasks
<1>1. Typed(rq, kq, bq, st, pid)
  BY DEF Fits
<1>2. \A q \in Seq(Tasks) : Range(q) \subseteq Tasks
  BY DEF Range
<1> QED
  BY <1>1, <1>2 DEF Typed

\* The running process goes to the end of the ready queue.
LEMMA QueueReady ==
  ASSUME NEW rq, NEW kq, NEW bq, NEW st, NEW pid, Fits(rq, kq, bq, st, pid),
         NEW t, OnCPU(t, st, pid)
  PROVE  Fits(Append(rq, t), kq, bq, [st EXCEPT ![t] = "READY"], pid)
<1> DEFINE rq2 == Append(rq, t)
           st2 == [st EXCEPT ![t] = "READY"]
<1>0. t \in Tasks /\ pid[t] # -1 /\ st[t] = "RUN"
  BY DEF OnCPU
<1>1. t \notin Range(rq) /\ ~Waits(t, kq, bq)
  BY <1>0 DEF Fits, InPlace
<1>2. rq2 \in Seq(Tasks) /\ Range(rq2) = Range(rq) \cup {t} /\ IsInjective(rq2)
  BY <1>0, <1>1, FitsFacts, AppendQueue DEF Fits, NoDuplicates
<1>3. st2 \in [Tasks -> States]
  BY <1>0, FitsFacts DEF States
<1>4. Typed(rq2, kq, bq, st2, pid)
  BY <1>2, <1>3 DEF Fits, Typed
<1>5. NoDuplicates(rq2, kq, bq)
  BY <1>2 DEF Fits, NoDuplicates
<1>6. InPlace(rq2, kq, bq, st2, pid)
  <2>1. \A u \in Tasks : st2[u] = IF u = t THEN "READY" ELSE st[u]
    BY FitsFacts
  <2> HIDE DEF rq2, st2
  <2> QED
    BY <1>0, <1>1, <1>2, <2>1, SpecialTasks DEF Fits, InPlace
<1> QED
  BY <1>4, <1>5, <1>6 DEF Fits

\* The running process, not idle, goes to the end of the keyboard queue.
LEMMA QueueKeyboard ==
  ASSUME NEW rq, NEW kq, NEW bq, NEW st, NEW pid, Fits(rq, kq, bq, st, pid),
         NEW t, OnCPU(t, st, pid), t # idle_task
  PROVE  Fits(rq, Append(kq, t), bq, [st EXCEPT ![t] = "BLOCKED"], pid)
<1> DEFINE kq2 == Append(kq, t)
           st2 == [st EXCEPT ![t] = "BLOCKED"]
<1>0. t \in Tasks /\ pid[t] # -1 /\ st[t] = "RUN"
  BY DEF OnCPU
<1>1. t \notin Range(rq) /\ ~Waits(t, kq, bq)
  BY <1>0 DEF Fits, InPlace
<1>2. kq2 \in Seq(Tasks) /\ Range(kq2) = Range(kq) \cup {t} /\ IsInjective(kq2)
  BY <1>0, <1>1, FitsFacts, AppendQueue DEF Fits, NoDuplicates, Waits
<1>3. st2 \in [Tasks -> States]
  BY <1>0, FitsFacts DEF States
<1>4. Typed(rq, kq2, bq, st2, pid)
  BY <1>2, <1>3 DEF Fits, Typed
<1>5. NoDuplicates(rq, kq2, bq)
  BY <1>2 DEF Fits, NoDuplicates
<1> HIDE DEF kq2
<1>6. OneWait(kq2, bq)
  BY <1>1, <1>2 DEF Fits, OneWait, Waits
<1>7. InPlace(rq, kq2, bq, st2, pid)
  <2>1. \A u \in Tasks : st2[u] = IF u = t THEN "BLOCKED" ELSE st[u]
    BY FitsFacts
  <2>2. \A u \in Tasks : Waits(u, kq2, bq) <=> u = t \/ Waits(u, kq, bq)
    BY <1>2 DEF Waits
  <2> HIDE DEF st2
  <2> QED
    BY <1>0, <1>1, <2>1, <2>2, SpecialTasks DEF Fits, InPlace
<1> QED
  BY <1>4, <1>5, <1>6, <1>7 DEF Fits, kq2

\* The running process, not idle, goes to the end of a semaphore's queue.
LEMMA QueueSemaphore ==
  ASSUME NEW rq, NEW kq, NEW bq, NEW st, NEW pid, Fits(rq, kq, bq, st, pid),
         NEW t, OnCPU(t, st, pid), t # idle_task, NEW i \in Slots
  PROVE  Fits(rq, kq, [bq EXCEPT ![i] = Append(@, t)], [st EXCEPT ![t] = "BLOCKED"], pid)
<1> DEFINE bq2 == [bq EXCEPT ![i] = Append(@, t)]
           st2 == [st EXCEPT ![t] = "BLOCKED"]
<1>0. t \in Tasks /\ pid[t] # -1 /\ st[t] = "RUN"
  BY DEF OnCPU
<1>1. t \notin Range(rq) /\ ~Waits(t, kq, bq)
  BY <1>0 DEF Fits, InPlace
<1>2. /\ Append(bq[i], t) \in Seq(Tasks) /\ Range(Append(bq[i], t)) = Range(bq[i]) \cup {t}
      /\ IsInjective(Append(bq[i], t))
  BY <1>0, <1>1, FitsFacts, AppendQueue DEF Fits, NoDuplicates, Waits
<1>3. st2 \in [Tasks -> States]
  BY <1>0, FitsFacts DEF States
<1>4. /\ bq2 \in [Slots -> Seq(Tasks)]
      /\ bq2[i] = Append(bq[i], t) /\ \A j \in Slots \ {i} : bq2[j] = bq[j]
  BY <1>2, FitsFacts
<1> HIDE DEF bq2
<1>5. Typed(rq, kq, bq2, st2, pid)
  BY <1>3, <1>4 DEF Fits, Typed
<1>6. NoDuplicates(rq, kq, bq2)
  BY <1>2, <1>4 DEF Fits, NoDuplicates
<1>7. \A j \in Slots : Range(bq2[j]) = Range(bq[j]) \cup (IF j = i THEN {t} ELSE {})
  BY <1>2, <1>4
<1>8. OneWait(kq, bq2)
  BY <1>1, <1>7 DEF Fits, OneWait, Waits
<1>9. InPlace(rq, kq, bq2, st2, pid)
  <2>1. \A u \in Tasks : st2[u] = IF u = t THEN "BLOCKED" ELSE st[u]
    BY FitsFacts
  <2>2. \A u \in Tasks : Waits(u, kq, bq2) <=> u = t \/ Waits(u, kq, bq)
    BY <1>7 DEF Waits
  <2> HIDE DEF st2
  <2> QED
    BY <1>0, <1>1, <2>1, <2>2, SpecialTasks DEF Fits, InPlace
<1> QED
  BY <1>5, <1>6, <1>8, <1>9 DEF Fits, bq2

\* The first reader is woken.
LEMMA WakeReader ==
  ASSUME NEW rq, NEW kq, NEW bq, NEW st, NEW pid, Fits(rq, kq, bq, st, pid), kq # <<>>
  PROVE  Fits(Append(rq, Head(kq)), Tail(kq), bq, [st EXCEPT ![Head(kq)] = "READY"], pid)
<1> DEFINE t   == Head(kq)
           rq2 == Append(rq, t)
           kq2 == Tail(kq)
           st2 == [st EXCEPT ![t] = "READY"]
<1>1. /\ t \in Tasks /\ t \in Range(kq) /\ kq2 \in Seq(Tasks)
      /\ Range(kq2) = Range(kq) \ {t} /\ IsInjective(kq2)
  BY FitsFacts, TailQueue DEF Fits, NoDuplicates
<1> HIDE DEF t, kq2
<1>2. Waits(t, kq, bq) /\ pid[t] # -1 /\ st[t] = "BLOCKED" /\ t \notin Range(rq) /\ t # idle_task
  BY <1>1, SpecialTasks DEF Fits, InPlace, Waits
<1>3. \A i \in Slots : t \notin Range(bq[i])
  BY <1>1 DEF Fits, OneWait
<1>4. rq2 \in Seq(Tasks) /\ Range(rq2) = Range(rq) \cup {t} /\ IsInjective(rq2)
  BY <1>1, <1>2, FitsFacts, AppendQueue DEF Fits, NoDuplicates
<1> HIDE DEF rq2
<1>5. st2 \in [Tasks -> States] /\ \A u \in Tasks : st2[u] = IF u = t THEN "READY" ELSE st[u]
  BY <1>1, FitsFacts DEF States
<1> HIDE DEF st2
<1>6. Typed(rq2, kq2, bq, st2, pid)
  BY <1>1, <1>4, <1>5 DEF Fits, Typed
<1>7. NoDuplicates(rq2, kq2, bq)
  BY <1>1, <1>4 DEF Fits, NoDuplicates
<1>8. OneWait(kq2, bq)
  BY <1>1 DEF Fits, OneWait
<1>9. InPlace(rq2, kq2, bq, st2, pid)
  <2>1. \A u \in Tasks : Waits(u, kq2, bq) <=> u # t /\ Waits(u, kq, bq)
    BY <1>1, <1>3 DEF Waits
  <2> QED
    BY <1>1, <1>2, <1>4, <1>5, <2>1, SpecialTasks DEF Fits, InPlace
<1> QED
  BY <1>6, <1>7, <1>8, <1>9 DEF Fits, t, rq2, kq2, st2

\* The first waiter of a semaphore is woken.
LEMMA WakeWaiter ==
  ASSUME NEW rq, NEW kq, NEW bq, NEW st, NEW pid, Fits(rq, kq, bq, st, pid),
         NEW i \in Slots, bq[i] # <<>>
  PROVE  Fits(Append(rq, Head(bq[i])), kq, [bq EXCEPT ![i] = Tail(@)],
              [st EXCEPT ![Head(bq[i])] = "READY"], pid)
<1> DEFINE t   == Head(bq[i])
           rq2 == Append(rq, t)
           bq2 == [bq EXCEPT ![i] = Tail(@)]
           st2 == [st EXCEPT ![t] = "READY"]
<1>1. /\ t \in Tasks /\ t \in Range(bq[i]) /\ Tail(bq[i]) \in Seq(Tasks)
      /\ Range(Tail(bq[i])) = Range(bq[i]) \ {t} /\ IsInjective(Tail(bq[i]))
  BY FitsFacts, TailQueue DEF Fits, NoDuplicates
<1> HIDE DEF t
<1>2. Waits(t, kq, bq) /\ pid[t] # -1 /\ st[t] = "BLOCKED" /\ t \notin Range(rq) /\ t # idle_task
  BY <1>1, SpecialTasks DEF Fits, InPlace, Waits
<1>3. t \notin Range(kq) /\ \A j \in Slots \ {i} : t \notin Range(bq[j])
  BY <1>1 DEF Fits, OneWait
<1>4. rq2 \in Seq(Tasks) /\ Range(rq2) = Range(rq) \cup {t} /\ IsInjective(rq2)
  BY <1>1, <1>2, FitsFacts, AppendQueue DEF Fits, NoDuplicates
<1> HIDE DEF rq2
<1>5. st2 \in [Tasks -> States] /\ \A u \in Tasks : st2[u] = IF u = t THEN "READY" ELSE st[u]
  BY <1>1, FitsFacts DEF States
<1> HIDE DEF st2
<1>6. /\ bq2 \in [Slots -> Seq(Tasks)]
      /\ bq2[i] = Tail(bq[i]) /\ \A j \in Slots \ {i} : bq2[j] = bq[j]
  BY <1>1, FitsFacts
<1> HIDE DEF bq2
<1>7. \A j \in Slots : Range(bq2[j]) = Range(bq[j]) \ {t}
  BY <1>1, <1>3, <1>6
<1>8. Typed(rq2, kq, bq2, st2, pid)
  BY <1>4, <1>5, <1>6 DEF Fits, Typed
<1>9. NoDuplicates(rq2, kq, bq2)
  BY <1>1, <1>4, <1>6 DEF Fits, NoDuplicates
<1>10. OneWait(kq, bq2)
  BY <1>7 DEF Fits, OneWait
<1>11. InPlace(rq2, kq, bq2, st2, pid)
  <2>1. \A u \in Tasks : Waits(u, kq, bq2) <=> u # t /\ Waits(u, kq, bq)
    BY <1>3, <1>7 DEF Waits
  <2> QED
    BY <1>1, <1>2, <1>4, <1>5, <2>1, SpecialTasks DEF Fits, InPlace
<1> QED
  BY <1>8, <1>9, <1>10, <1>11 DEF Fits, t, rq2, bq2, st2

\* All waiters of the semaphores in some slots are let go, in any order.
WaitersOf(bq, slots) == {t \in Tasks : \E i \in slots : t \in Range(bq[i])}

\* exit destroys its semaphores: every waiter of one of these slots is appended
\* to the ready queue and the slots' queues are emptied.
LEMMA ReleaseWaiters ==
  ASSUME NEW rq, NEW kq, NEW bq, NEW st, NEW pid, Fits(rq, kq, bq, st, pid),
         NEW slots \in SUBSET Slots, NEW w \in Seq(Tasks),
         IsInjective(w), Range(w) = WaitersOf(bq, slots),
         NEW bq2, bq2 = [i \in Slots |-> IF i \in slots THEN <<>> ELSE bq[i]]
  PROVE  Fits(rq \o w, kq, bq2, Released(st, Range(w)), pid)
<1> DEFINE rq2 == rq \o w
           st2 == Released(st, Range(w))
<1>1. \A t \in Range(w) :
        t \in Tasks /\ Waits(t, kq, bq) /\ pid[t] # -1 /\ st[t] = "BLOCKED" /\ t \notin Range(rq)
  BY DEF WaitersOf, Fits, InPlace, Waits
<1>2. rq2 \in Seq(Tasks) /\ Range(rq2) = Range(rq) \cup Range(w) /\ IsInjective(rq2)
  BY <1>1, FitsFacts, ConcatQueue DEF Fits, NoDuplicates
<1> HIDE DEF rq2
<1>3. /\ st2 \in [Tasks -> States]
      /\ \A u \in Tasks : st2[u] = IF u \in Range(w) THEN "READY" ELSE st[u]
  BY FitsFacts DEF States, Released
<1> HIDE DEF st2
<1>4. /\ bq2 \in [Slots -> Seq(Tasks)]
      /\ \A j \in Slots : IsInjective(bq2[j])
      /\ \A j \in Slots : Range(bq2[j]) = IF j \in slots THEN {} ELSE Range(bq[j])
  <2>1. \A j \in Slots : bq2[j] = IF j \in slots THEN <<>> ELSE bq[j]
    OBVIOUS
  <2>2. bq2 \in [Slots -> Seq(Tasks)]
    BY FitsFacts, EmptyQueue
  <2>3. \A j \in Slots : IsInjective(bq2[j])
    BY <2>1, EmptyQueue DEF Fits, NoDuplicates
  <2>4. \A j \in Slots : Range(bq2[j]) = IF j \in slots THEN {} ELSE Range(bq[j])
    BY <2>1, EmptyQueue
  <2> QED
    BY <2>2, <2>3, <2>4
<1>5. Typed(rq2, kq, bq2, st2, pid)
  BY <1>2, <1>3, <1>4 DEF Fits, Typed
<1>6. NoDuplicates(rq2, kq, bq2)
  BY <1>2, <1>4 DEF Fits, NoDuplicates
<1>7. OneWait(kq, bq2)
  BY <1>4 DEF Fits, OneWait
<1>8. InPlace(rq2, kq, bq2, st2, pid)
  <2>1. \A u \in Tasks : Waits(u, kq, bq2) <=> u \notin Range(w) /\ Waits(u, kq, bq)
    BY <1>4 DEF Waits, WaitersOf, Fits, OneWait
  <2> QED
    BY <1>1, <1>2, <1>3, <2>1, SpecialTasks DEF Fits, InPlace
<1> QED
  BY <1>5, <1>6, <1>7, <1>8 DEF Fits, rq2, st2

\* The running process, not idle, is dead: it is in no queue, whatever its state.
LEMMA Dies ==
  ASSUME NEW rq, NEW kq, NEW bq, NEW st, NEW pid, Fits(rq, kq, bq, st, pid),
         NEW t, OnCPU(t, st, pid), t # idle_task, NEW s \in States
  PROVE  Fits(rq, kq, bq, [st EXCEPT ![t] = s], [pid EXCEPT ![t] = -1])
<1> DEFINE st2  == [st EXCEPT ![t] = s]
           pid2 == [pid EXCEPT ![t] = -1]
<1>1. t \in Tasks /\ t \notin Range(rq) /\ ~Waits(t, kq, bq)
  BY DEF OnCPU, Fits, InPlace
<1>2. /\ st2 \in [Tasks -> States] /\ pid2 \in [Tasks -> Int]
      /\ \A u \in Tasks : st2[u] = IF u = t THEN s ELSE st[u]
      /\ \A u \in Tasks : pid2[u] = IF u = t THEN -1 ELSE pid[u]
  BY <1>1, FitsFacts
<1> HIDE DEF st2, pid2
<1>3. Typed(rq, kq, bq, st2, pid2)
  BY <1>2 DEF Fits, Typed
<1>4. InPlace(rq, kq, bq, st2, pid2)
  BY <1>1, <1>2, SpecialTasks DEF Fits, InPlace
<1> QED
  BY <1>3, <1>4 DEF Fits, st2, pid2

\* A free PCB gets a PID while it is in no queue (RUN), as fork's copy does.
LEMMA Copied ==
  ASSUME NEW rq, NEW kq, NEW bq, NEW st, NEW pid, Fits(rq, kq, bq, st, pid),
         NEW t \in Tasks, pid[t] = -1, NEW p \in Int, p # -1
  PROVE  /\ Fits(rq, kq, bq, [st EXCEPT ![t] = "RUN"], [pid EXCEPT ![t] = p])
         /\ OnCPU(t, [st EXCEPT ![t] = "RUN"], [pid EXCEPT ![t] = p])
<1> DEFINE st2  == [st EXCEPT ![t] = "RUN"]
           pid2 == [pid EXCEPT ![t] = p]
<1>1. t \notin Range(rq) /\ ~Waits(t, kq, bq) /\ t # idle_task
  BY DEF Fits, InPlace
<1>2. /\ st2 \in [Tasks -> States] /\ pid2 \in [Tasks -> Int]
      /\ \A u \in Tasks : st2[u] = IF u = t THEN "RUN" ELSE st[u]
      /\ \A u \in Tasks : pid2[u] = IF u = t THEN p ELSE pid[u]
  BY FitsFacts DEF States
<1> HIDE DEF st2, pid2
<1>3. Typed(rq, kq, bq, st2, pid2)
  BY <1>2 DEF Fits, Typed
<1>4. InPlace(rq, kq, bq, st2, pid2)
  BY <1>1, <1>2, SpecialTasks DEF Fits, InPlace
<1>5. Fits(rq, kq, bq, st2, pid2)
  BY <1>3, <1>4 DEF Fits
<1>6. OnCPU(t, st2, pid2)
  BY <1>2 DEF OnCPU
<1> QED
  BY <1>5, <1>6 DEF st2, pid2

\* sched_next_rr hands the CPU to a process that is in no queue any more.
LEMMA Switched ==
  ASSUME NEW rq, NEW kq, NEW bq, NEW st, NEW pid, Fits(rq, kq, bq, st, pid),
         sched_next_rr(rq, st)
  PROVE  Fits(readyqueue', kq, bq, estado', pid) /\ OnCPU(current', estado', pid)
<1>1. CASE rq = <<>>
  <2>1. readyqueue' = rq /\ estado' = st /\ current' = idle_task
    BY <1>1 DEF sched_next_rr
  <2>2. st[idle_task] = "RUN" /\ pid[idle_task] = 0
    BY <1>1, EmptyQueue, FitsFacts, SpecialTasks DEF Fits, InPlace, States
  <2> QED
    BY <2>1, <2>2, SpecialTasks DEF OnCPU
<1>2. CASE rq # <<>>
  <2> DEFINE t   == Head(rq)
             rq2 == Tail(rq)
             st2 == [st EXCEPT ![t] = "RUN"]
  <2>1. /\ t \in Tasks /\ t \in Range(rq) /\ rq2 \in Seq(Tasks)
        /\ Range(rq2) = Range(rq) \ {t} /\ IsInjective(rq2)
    BY <1>2, FitsFacts, TailQueue DEF Fits, NoDuplicates
  <2>2. readyqueue' = rq2 /\ estado' = st2 /\ current' = t
    BY <1>2 DEF sched_next_rr
  <2> HIDE DEF t, rq2
  <2>3. st2 \in [Tasks -> States] /\ \A u \in Tasks : st2[u] = IF u = t THEN "RUN" ELSE st[u]
    BY <2>1, FitsFacts DEF States
  <2> HIDE DEF st2
  <2>4. pid[t] # -1 /\ st[t] = "READY" /\ ~Waits(t, kq, bq)
    BY <2>1 DEF Fits, InPlace
  <2>5. Typed(rq2, kq, bq, st2, pid) /\ NoDuplicates(rq2, kq, bq)
    BY <2>1, <2>3 DEF Fits, Typed, NoDuplicates
  <2>6. InPlace(rq2, kq, bq, st2, pid)
    BY <2>1, <2>3, <2>4, SpecialTasks DEF Fits, InPlace
  <2> QED
    BY <2>1, <2>2, <2>3, <2>4, <2>5, <2>6 DEF Fits, OnCPU
<1> QED
  BY <1>1, <1>2

-----------------------------------------------------------------------------
(* The free list.                                                          *)

\* fork and clone take a PCB that is free and give it a PID.
LEMMA FreeListTaken ==
  ASSUME TypeOK, FreeListInv, ~Exhausted, TakeFirst, PID[idle_task] = 0,
         NEW p \in Int, p # -1, PID' = [PID EXCEPT ![FirstFree] = p]
  PROVE  FreeListInv'
<1>1. /\ freequeue \in Seq(Tasks) /\ freequeue # <<>> /\ PID \in [Tasks -> Int]
      /\ IsInjective(freequeue) /\ freelinks \in LinkShapes /\ Len(freequeue) \in Nat \ {0}
  BY DEF TypeOK, SchedTypeOK, TakeFirst, FreeListInv
<1>2. \A t \in Range(freequeue) : t \in Tasks /\ PID[t] = -1
  BY <1>1 DEF FreeListInv, Range
<1>3. /\ FirstFree \in Tasks /\ FirstFree \in Range(freequeue) /\ Tail(freequeue) \in Seq(Tasks)
      /\ Range(Tail(freequeue)) = Range(freequeue) \ {FirstFree} /\ IsInjective(Tail(freequeue))
  BY <1>1, TailQueue DEF FirstFree
<1>4. PID'[FirstFree] # -1 /\ FirstFree # idle_task
  BY <1>1, <1>2, <1>3
<1>5. \A t \in Range(Tail(freequeue)) : PID'[t] = -1
  BY <1>1, <1>2, <1>3
<1>6. CASE freelinks = "proper" \/ (freelinks = "loop" /\ ~OnlyOneFree)
  <2>1. freequeue' = Tail(freequeue) /\ freelinks' = freelinks
    BY <1>1, <1>6 DEF TakeFirst, Exhausted
  <2>2. freelinks = "loop" => Tail(freequeue) # <<>>
    <3> SUFFICES ASSUME ~OnlyOneFree, Tail(freequeue) = <<>> PROVE FALSE
      BY <1>6
    <3>1. Len(Tail(freequeue)) = Len(freequeue) - 1
      BY <1>1
    <3>2. Len(Tail(freequeue)) = 0
      OBVIOUS
    <3>3. \A n \in Nat : n - 1 = 0 => n = 1
      OBVIOUS
    <3> QED
      BY <1>1, <3>1, <3>2, <3>3, Zenon DEF OnlyOneFree
  <2>3. \A i \in DOMAIN Tail(freequeue) : PID'[Tail(freequeue)[i]] = -1
    BY <1>5 DEF Range
  <2> QED
    BY <1>3, <1>6, <2>1, <2>2, <2>3 DEF FreeListInv, Exhausted
<1>7. CASE freelinks \in {"loop", "loopfront"} /\ OnlyOneFree
  <2>1. freequeue' = freequeue /\ freelinks' = "stuck"
    BY <1>7 DEF TakeFirst, Exhausted
  <2>2. FirstFree' = FirstFree
    BY <2>1 DEF FirstFree
  <2> QED
    BY <1>1, <1>4, <1>7, <2>1, <2>2 DEF FreeListInv, Exhausted, OnlyOneFree
<1>8. CASE freelinks = "loopfront" /\ ~OnlyOneFree
  <2>1. freequeue' = <<FirstFree>> /\ freelinks' = "stranded"
    BY <1>1, <1>8 DEF TakeFirst, Exhausted
  <2>2. FirstFree' = FirstFree /\ Len(freequeue') = 1 /\ IsInjective(freequeue')
    BY <2>1 DEF FirstFree, IsInjective
  <2> QED
    BY <1>4, <2>1, <2>2 DEF FreeListInv, Exhausted
<1> QED
  BY <1>1, <1>6, <1>7, <1>8 DEF LinkShapes, Exhausted

\* exit puts its PCB, which is in use, into the list.
LEMMA FreeListAdded ==
  ASSUME TypeOK, FreeListInv, NEW t \in Tasks, AddTwice(t), t # idle_task, PID[t] # -1,
         PID' = [PID EXCEPT ![t] = -1]
  PROVE  FreeListInv'
<1>1. /\ freequeue \in Seq(Tasks) /\ PID \in [Tasks -> Int]
      /\ IsInjective(freequeue) /\ freelinks \in LinkShapes
      /\ (Exhausted => freequeue # <<>>)
  BY DEF TypeOK, SchedTypeOK, FreeListInv
<1>2. CASE freelinks \in {"proper", "loop", "loopfront"}
  <2>1. \A u \in Range(freequeue) : u \in Tasks /\ PID[u] = -1
    BY <1>1, <1>2 DEF FreeListInv, Range, Exhausted
  <2>2. /\ Append(freequeue, t) # <<>>
        /\ Range(Append(freequeue, t)) = Range(freequeue) \cup {t}
        /\ IsInjective(Append(freequeue, t))
    BY <1>1, <2>1, AppendQueue
  <2>3. \A u \in Range(Append(freequeue, t)) : PID'[u] = -1
    BY <1>1, <2>1, <2>2
  <2>4. \A i \in DOMAIN Append(freequeue, t) : PID'[Append(freequeue, t)[i]] = -1
    BY <2>3 DEF Range
  <2>5. freequeue' = Append(freequeue, t) /\ freelinks' \in {"loop", "loopfront"}
    BY <1>2 DEF AddTwice, Exhausted
  <2> QED
    BY <2>2, <2>4, <2>5 DEF FreeListInv, Exhausted
<1>3. CASE Exhausted
  <2>1. Len(freequeue) = 1 /\ PID[FirstFree] # -1 /\ FirstFree # idle_task
    BY <1>3 DEF FreeListInv
  <2>2. freequeue' = freequeue /\ FirstFree' = FirstFree
    BY <1>3 DEF AddTwice, Exhausted, FirstFree
  <2>3. CASE t = FirstFree
    <3>1. freelinks' = "loopfront"
      BY <1>3, <2>3 DEF AddTwice, Exhausted
    <3>2. \A i \in DOMAIN freequeue : freequeue[i] = FirstFree
      BY <1>1, <2>1 DEF FirstFree
    <3> QED
      BY <1>1, <2>1, <2>2, <2>3, <3>1, <3>2 DEF FreeListInv, Exhausted
  <2>4. CASE t # FirstFree
    <3>1. freelinks' = freelinks /\ freelinks = "stranded"
      BY <1>3, <2>4 DEF AddTwice, Exhausted
    <3>2. FirstFree \in Tasks
      BY <1>1, <1>3, HeadTail DEF FirstFree
    <3> QED
      BY <1>1, <2>1, <2>2, <2>4, <3>1, <3>2 DEF FreeListInv, Exhausted
  <2> QED
    BY <2>3, <2>4
<1> QED
  BY <1>1, <1>2, <1>3 DEF LinkShapes, Exhausted

-----------------------------------------------------------------------------
(* The inductive invariant.                                                *)

Core == Fits(readyqueue, keyboardqueue, blockedQueue, estado, PID) /\ OnCPU(current, estado, PID)

\* sem_init empties the queue of a free slot: nobody must be in it.
NobodyInFreeSlots == \A i \in Slots : semaphores[i].state = "FREE" => blockedQueue[i] = <<>>

\* -1 is no PID that fork gives.
Rest == FreeListInv /\ incrementalPID > 0 /\ NobodyInFreeSlots

QueueInd == TypeOK /\ (KernelRuns => Core /\ Rest)

\* The state the boot leaves satisfies the invariant.
LEMMA InitQueueInd == Init => QueueInd
<1> SUFFICES ASSUME Init PROVE QueueInd
  OBVIOUS
<1>1. TypeOK
  BY InitTypeOK
<1>2. /\ readyqueue = <<>> /\ keyboardqueue = <<>> /\ blockedQueue = [i \in Slots |-> <<>>]
      /\ estado = [t \in Tasks |-> "RUN"] /\ current = init_task
      /\ PID = [t \in Tasks |-> IF t = idle_task THEN 0 ELSE IF t = init_task THEN 1 ELSE -1]
      /\ freequeue = BootFreeQueue /\ freelinks = "proper" /\ incrementalPID = 2
  BY DEF Init, SchedInit, KeyboardInit, SemaphoresInit, FreeListInit
<1>3. Fits(readyqueue, keyboardqueue, blockedQueue, estado, PID)
  <2>1. Typed(readyqueue, keyboardqueue, blockedQueue, estado, PID)
    BY <1>1 DEF TypeOK, SchedTypeOK, KeyboardTypeOK, SemaphoresTypeOK, Typed
  <2>2. NoDuplicates(readyqueue, keyboardqueue, blockedQueue) /\ OneWait(keyboardqueue, blockedQueue)
    BY <1>2, EmptyQueue DEF NoDuplicates, OneWait
  <2>3. InPlace(readyqueue, keyboardqueue, blockedQueue, estado, PID)
    BY <1>2, EmptyQueue, SpecialTasks DEF InPlace, Waits
  <2> QED
    BY <2>1, <2>2, <2>3 DEF Fits
<1>4. OnCPU(current, estado, PID)
  BY <1>2, SpecialTasks DEF OnCPU
<1>5. FreeListInv
  <2>1. DOMAIN freequeue = 1 .. NR_TASKS - 2
    BY <1>2 DEF BootFreeQueue
  <2>2. \A i \in 1 .. NR_TASKS - 2 : freequeue[i] = NR_TASKS - 2 - i
    BY <1>2 DEF BootFreeQueue
  <2>3. IsInjective(freequeue)
    BY <2>1, <2>2, Constants DEF IsInjective
  <2>4. \A i \in 1 .. NR_TASKS - 2 : PID[freequeue[i]] = -1
    BY <1>2, <2>2, Constants DEF Tasks, idle_task, init_task
  <2> QED
    BY <1>2, <2>1, <2>3, <2>4 DEF FreeListInv, Exhausted
<1>6. Rest
  BY <1>2, <1>5 DEF Rest, NobodyInFreeSlots
<1> QED
  BY <1>1, <1>3, <1>4, <1>6 DEF QueueInd, Core

\* A step that touches neither the free list, the PIDs nor the semaphores keeps
\* that part of the invariant.
LEMMA RestKept ==
  ASSUME Rest, UNCHANGED <<freequeue, freelinks, PID, incrementalPID, semaphores, blockedQueue>>
  PROVE  Rest'
  BY DEF Rest, FreeListInv, Exhausted, FirstFree, NobodyInFreeSlots

\* What exitRunCurrent does to the states, in the form of the lemmas above.
LEMMA CoreFacts ==
  ASSUME Core
  PROVE  /\ Fits(readyqueue, keyboardqueue, blockedQueue, estado, PID)
         /\ OnCPU(current, estado, PID)
         /\ current \in Tasks /\ PID[current] # -1 /\ estado[current] = "RUN"
         /\ ~Waits(current, keyboardqueue, blockedQueue) /\ current \notin Range(readyqueue)
  BY DEF Core, OnCPU, Fits, InPlace

\* The clock, the keyboard and read keep the invariant.
LEMMA SchedStepQueues ==
  ASSUME TypeOK, Core, Rest, SchedStep
  PROVE  Core' /\ Rest'
<1>1. Rest'
  <2>1. UNCHANGED <<freequeue, freelinks, PID>>
    BY DEF SchedStep, Clock, Key, Read
  <2> QED
    BY <2>1, RestKept DEF SchedStep, semVars
<1>2. UNCHANGED <<PID, blockedQueue>>
  BY DEF SchedStep, Clock, Key, Read, semVars
<1>3. ASSUME Clock PROVE Core'
  <2>1. CASE ClockTick \/ ClockRenew
    BY <1>2, <1>3, <2>1 DEF Clock, ClockTick, ClockRenew, Core
  <2>2. CASE ClockSwitch
    <3>1. Fits(Append(readyqueue, current), keyboardqueue, blockedQueue,
               exitRunCurrent("READY"), PID)
      BY CoreFacts, QueueReady DEF exitRunCurrent
    <3>2. sched_next_rr(Append(readyqueue, current), exitRunCurrent("READY"))
      BY <2>2 DEF ClockSwitch, Dispatch
    <3> QED
      BY <1>2, <1>3, <3>1, <3>2, Switched DEF Core, Clock
  <2> QED
    BY <1>3, <2>1, <2>2 DEF Clock
<1>4. ASSUME Key PROVE Core'
  <2>1. CASE KeyWakes(keyboardBuff')
    <3>1. /\ keyboardqueue # <<>> /\ keyboardqueue' = Tail(keyboardqueue)
          /\ readyqueue' = Append(readyqueue, Head(keyboardqueue))
          /\ estado' = [estado EXCEPT ![Head(keyboardqueue)] = "READY"] /\ current' = current
      BY <1>4, <2>1 DEF Key, KeyWakes, FirstReader
    <3>2. Fits(readyqueue', keyboardqueue', blockedQueue, estado', PID)
      BY <3>1, CoreFacts, WakeReader
    <3>3. Head(keyboardqueue) # current
      BY <3>1, CoreFacts, FitsFacts, TailQueue DEF Fits, NoDuplicates, Waits
    <3>4. estado'[current] = "RUN"
      BY <3>1, <3>3, CoreFacts, FitsFacts
    <3> QED
      BY <1>2, <3>1, <3>2, <3>4, CoreFacts DEF Core, OnCPU
  <2>2. CASE ~KeyWakes(keyboardBuff')
    BY <1>2, <1>4, <2>2 DEF Key, Core
  <2> QED
    BY <2>1, <2>2
<1>5. ASSUME NEW n \in ReadSizes, Read(n) PROVE Core'
  <2>0. current # idle_task
    BY <1>5 DEF Read, InUserProcess
  <2>1. Fits(readyqueue, Append(keyboardqueue, current), blockedQueue, exitRunCurrent("BLOCKED"), PID)
    BY <2>0, CoreFacts, QueueKeyboard DEF exitRunCurrent
  <2>2. CASE ReadBehindOthers(n)
    <3>1. /\ sched_next_rr(readyqueue, exitRunCurrent("BLOCKED"))
          /\ keyboardqueue' = Append(keyboardqueue, current)
      BY <2>2 DEF ReadBehindOthers, Dispatch
    <3> QED
      BY <1>2, <2>1, <3>1, Switched DEF Core
  <2>3. CASE ReadAtOnce(n)
    BY <1>2, <1>5, <2>3 DEF ReadAtOnce, Core
  <2>4. CASE ReadBlocks(n)
    <3>1. sched_next_rr(readyqueue, exitRunCurrent("BLOCKED")) /\ keyboardqueue = <<>>
      BY <2>4 DEF ReadBlocks, Dispatch
    <3>2. keyboardqueue' = Append(keyboardqueue, current)
      <4>1. keyboardqueue' = <<current>> \o <<>> /\ Append(<<>>, current) = <<current>>
        BY <2>4, <3>1 DEF ReadBlocks
      <4> QED
        BY <3>1, <4>1
    <3> QED
      BY <1>2, <2>1, <3>1, <3>2, Switched DEF Core
  <2> QED
    BY <1>5, <2>2, <2>3, <2>4 DEF Read
<1> QED
  BY <1>1, <1>3, <1>4, <1>5 DEF SchedStep

\* OneMore, OneLess and Destroyed, as far as the slot's state goes.
LEMMA SlotStates ==
  ASSUME NEW s \in SemEntries
  PROVE  OneMore(s).state = s.state /\ OneLess(s).state = s.state
  BY DEF SemEntries, OneMore, OneLess

\* What the semaphore lemmas need to know of the table.
LEMMA SemTable ==
  ASSUME TypeOK
  PROVE  semaphores \in [Slots -> SemEntries] /\ blockedQueue \in [Slots -> Seq(Tasks)]
  BY DEF TypeOK, SemaphoresTypeOK, SemEntries

\* What the invariant says of the free list depends on the list and the PIDs alone.
LEMMA FreeListKept ==
  ASSUME FreeListInv, UNCHANGED <<freequeue, freelinks, PID>>
  PROVE  FreeListInv'
  BY DEF FreeListInv, Exhausted, FirstFree

\* The semaphore calls keep the invariant.
LEMMA SemaphoreStepQueues ==
  ASSUME TypeOK, Core, Rest, SemaphoreStep, KernelRuns'
  PROVE  Core' /\ Rest'
<1>1. FreeListInv' /\ (incrementalPID > 0)' /\ UNCHANGED PID
  BY FreeListKept DEF SemaphoreStep, Rest, sys_sem_init, sys_sem_destroy, sys_sem_signal, sys_sem_wait
<1> USE SemTable
<1>2. ASSUME NEW n \in SemIds, NEW value \in SemValues, sys_sem_init(n, value)
      PROVE  Core' /\ NobodyInFreeSlots'
  <2> PICK i \in Slots :
        /\ cerca_sem_lliure(i)
        /\ semaphores' = [semaphores EXCEPT
             ![i] = [state |-> "USED", n_sem |-> n, owner |-> PID[current], counter |-> value]]
        /\ blockedQueue' = [blockedQueue EXCEPT ![i] = <<>>]
    BY <1>2 DEF sys_sem_init, KernelRuns
  <2>1. blockedQueue[i] = <<>>
    BY DEF cerca_sem_lliure, Rest, NobodyInFreeSlots
  <2>2. blockedQueue' = blockedQueue
    BY <2>1
  <2>3. \A j \in Slots : semaphores'[j].state = "FREE" => semaphores[j].state = "FREE"
    OBVIOUS
  <2> QED
    BY <1>2, <2>2, <2>3 DEF sys_sem_init, kbVars, Core, Rest, NobodyInFreeSlots
<1>3. ASSUME NEW n \in SemIds, sys_sem_destroy(n) PROVE Core' /\ NobodyInFreeSlots'
  <2>1. PICK i \in Slots :
          /\ readyqueue' = readyqueue \o blockedQueue[i]
          /\ estado' = Released(estado, Range(blockedQueue[i]))
          /\ blockedQueue' = [blockedQueue EXCEPT ![i] = <<>>]
          /\ semaphores' = [semaphores EXCEPT ![i] = Destroyed(@)]
    BY <1>3 DEF sys_sem_destroy
  <2> DEFINE w     == blockedQueue[i]
             slots == {i}
  <2>2. IsInjective(w) /\ Range(w) = WaitersOf(blockedQueue, slots) /\ w \in Seq(Tasks)
    BY CoreFacts, FitsFacts DEF Fits, NoDuplicates, WaitersOf
  <2>3. blockedQueue' = [j \in Slots |-> IF j \in slots THEN <<>> ELSE blockedQueue[j]]
    BY <2>1
  <2>4. readyqueue' = readyqueue \o w /\ estado' = Released(estado, Range(w))
    BY <2>1
  <2>5. slots \in SUBSET Slots
    OBVIOUS
  <2>6. Fits(readyqueue', keyboardqueue, blockedQueue', estado', PID)
    <3> HIDE DEF w, slots
    <3>1. Fits(readyqueue, keyboardqueue, blockedQueue, estado, PID)
      BY CoreFacts
    <3> QED
      BY <2>2, <2>3, <2>4, <2>5, <3>1, ReleaseWaiters
  <2>7. estado'[current] = "RUN"
    BY <2>4, CoreFacts DEF Released, Waits
  <2>8. UNCHANGED <<current, keyboardqueue>>
    BY <1>3 DEF sys_sem_destroy, kbVars
  <2>9. NobodyInFreeSlots'
    BY <2>1 DEF Rest, NobodyInFreeSlots
  <2> QED
    BY <1>1, <2>6, <2>7, <2>8, <2>9, CoreFacts DEF Core, OnCPU
<1>4. ASSUME NEW n \in SemIds, sys_sem_signal(n) PROVE Core' /\ NobodyInFreeSlots'
  <2> PICK i \in Slots : cerca_sem(n, i) /\ (SignalCounts(i) \/ SignalWakes(i))
    BY <1>4 DEF sys_sem_signal
  <2>1. UNCHANGED <<current, keyboardqueue>>
    BY <1>4 DEF sys_sem_signal, kbVars
  <2>2. CASE SignalCounts(i)
    <3>1. UNCHANGED <<readyqueue, estado, blockedQueue>>
      BY <2>2 DEF SignalCounts
    <3>2. \A j \in Slots : semaphores'[j].state = semaphores[j].state
      BY <2>2, SlotStates DEF SignalCounts
    <3> QED
      BY <1>1, <2>1, <3>1, <3>2 DEF Core, Rest, NobodyInFreeSlots
  <2>3. CASE SignalWakes(i)
    <3>1. /\ blockedQueue[i] # <<>> /\ blockedQueue' = [blockedQueue EXCEPT ![i] = Tail(@)]
          /\ readyqueue' = Append(readyqueue, Head(blockedQueue[i]))
          /\ estado' = [estado EXCEPT ![Head(blockedQueue[i])] = "READY"] /\ UNCHANGED semaphores
      BY <2>3 DEF SignalWakes, WithWoken
    <3>2. Fits(readyqueue', keyboardqueue, blockedQueue', estado', PID)
      BY <3>1, CoreFacts, WakeWaiter
    <3>3. Head(blockedQueue[i]) # current
      BY <3>1, CoreFacts, FitsFacts, TailQueue DEF Fits, NoDuplicates, Waits
    <3>4. estado'[current] = "RUN"
      BY <3>1, <3>3, CoreFacts, FitsFacts
    <3>5. semaphores[i].state # "FREE"
      BY DEF cerca_sem, Named
    <3>6. NobodyInFreeSlots'
      BY <3>1, <3>5 DEF Rest, NobodyInFreeSlots
    <3> QED
      BY <1>1, <2>1, <3>2, <3>4, <3>6, CoreFacts DEF Core, OnCPU
  <2> QED
    BY <2>2, <2>3
<1>5. ASSUME NEW n \in SemIds, sys_sem_wait(n) PROVE Core' /\ NobodyInFreeSlots'
  <2> PICK i \in Slots :
       /\ cerca_sem(n, i)
       /\ \/ /\ blockedQueue' = [blockedQueue EXCEPT ![i] = Append(@, current)]
             /\ Dispatch(readyqueue, exitRunCurrent("BLOCKED"), missingKeys)
             /\ UNCHANGED semaphores
          \/ /\ semaphores' = [semaphores EXCEPT ![i] = OneLess(@)]
             /\ UNCHANGED <<blockedQueue, readyqueue, estado, current, qLeft, fault, missingKeys, keyboardBuff>>
    BY <1>5 DEF sys_sem_wait
  <2>1. keyboardqueue' = keyboardqueue /\ current # idle_task
    BY <1>5 DEF sys_sem_wait, InUserProcess
  <2>2. CASE /\ blockedQueue' = [blockedQueue EXCEPT ![i] = Append(@, current)]
             /\ Dispatch(readyqueue, exitRunCurrent("BLOCKED"), missingKeys)
             /\ UNCHANGED semaphores
    <3>1. Fits(readyqueue, keyboardqueue, blockedQueue', exitRunCurrent("BLOCKED"), PID)
      BY <2>1, <2>2, CoreFacts, QueueSemaphore DEF exitRunCurrent
    <3>2. sched_next_rr(readyqueue, exitRunCurrent("BLOCKED"))
      BY <2>2 DEF Dispatch
    <3>3. Core'
      BY <1>1, <2>1, <3>1, <3>2, Switched DEF Core
    <3>4. semaphores[i].state # "FREE"
      BY DEF cerca_sem, Named
    <3> QED
      BY <2>2, <3>3, <3>4 DEF Rest, NobodyInFreeSlots
  <2>3. CASE /\ semaphores' = [semaphores EXCEPT ![i] = OneLess(@)]
             /\ UNCHANGED <<blockedQueue, readyqueue, estado, current, qLeft, fault, missingKeys, keyboardBuff>>
    <3>1. \A j \in Slots : semaphores'[j].state = semaphores[j].state
      BY <2>3, SlotStates
    <3> QED
      BY <1>1, <2>1, <2>3, <3>1 DEF Core, Rest, NobodyInFreeSlots
  <2> QED
    BY <2>2, <2>3
<1> QED
  BY <1>1, <1>2, <1>3, <1>4, <1>5 DEF SemaphoreStep, Rest

\* fork and clone, unless they run into a fault.
LEMMA CreateQueues ==
  ASSUME TypeOK, Core, Rest, sys_fork \/ sys_clone, KernelRuns'
  PROVE  Core' /\ Rest'
<1> DEFINE new == FirstFree
<1>1. /\ CanCreate /\ TakePCB(new)
      /\ Created(new) \/ Abandoned(new)
  BY DEF sys_fork, sys_clone, CreateFaults, KernelRuns
<1>2. /\ ~Exhausted /\ TakeFirst
  BY <1>1 DEF TakePCB, KernelRuns
<1>3. new \in Tasks /\ PID[new] = -1
  <2>1. freequeue \in Seq(Tasks) /\ freequeue # <<>> /\ IsInjective(freequeue)
    BY <1>2 DEF TypeOK, SchedTypeOK, TakeFirst, Rest, FreeListInv
  <2>2. new \in Tasks /\ new \in Range(freequeue)
    BY <2>1, TailQueue DEF FirstFree
  <2> QED
    BY <1>2, <2>2 DEF Rest, FreeListInv, Range
<1>4. PID[idle_task] = 0
  BY DEF Core, Fits, InPlace
<1> HIDE DEF new
<1>5. PICK p \in Int, st \in {"READY", "RUN"} :
        /\ CopyPCB(new, p, st) /\ p # -1 /\ incrementalPID' > 0
        /\ readyqueue' = IF st = "READY" THEN Append(Unlinked(readyqueue, new), new)
                         ELSE Unlinked(readyqueue, new)
  <2>1. CASE Created(new)
    <3>1. incrementalPID \in Int /\ incrementalPID # -1 /\ incrementalPID + 1 > 0
      BY DEF TypeOK, Rest
    <3> QED
      BY <2>1, <3>1 DEF Created
  <2>2. CASE Abandoned(new)
    <3>1. estado[current] = "RUN" /\ PID[current] # -1 /\ PID[current] \in Int
      BY CoreFacts, FitsFacts
    <3> QED
      BY <2>2, <3>1 DEF Abandoned, Rest
  <2> QED
    BY <1>1, <2>1, <2>2
<1>6. new \notin Range(readyqueue) /\ ~Waits(new, keyboardqueue, blockedQueue)
  BY <1>3 DEF Core, Fits, InPlace
<1>7. /\ Unlinked(readyqueue, new) = readyqueue
      /\ keyboardqueue' = keyboardqueue /\ blockedQueue' = blockedQueue
  <2>1. \A q : new \notin Range(q) => Unlinked(q, new) = q
    BY DEF Unlinked
  <2>2. \A i \in Slots : Unlinked(blockedQueue[i], new) = blockedQueue[i]
    BY <1>6, <2>1 DEF Waits
  <2>3. blockedQueue' = [i \in Slots |-> Unlinked(blockedQueue[i], new)]
    BY <1>1 DEF TakePCB
  <2>4. keyboardqueue' = Unlinked(keyboardqueue, new)
    BY <1>1 DEF TakePCB
  <2> QED
    BY <1>6, <2>1, <2>2, <2>3, <2>4, SemTable DEF Waits
<1>8. /\ PID' = [PID EXCEPT ![new] = p] /\ estado' = [estado EXCEPT ![new] = st]
      /\ UNCHANGED <<current, semaphores>>
  BY <1>5 DEF CopyPCB
<1> DEFINE run == [estado EXCEPT ![new] = "RUN"]
<1>9. Fits(readyqueue, keyboardqueue, blockedQueue, run, PID') /\ OnCPU(new, run, PID')
  BY <1>3, <1>5, <1>8, CoreFacts, Copied
<1>10. Fits(readyqueue', keyboardqueue', blockedQueue', estado', PID')
  <2>1. CASE st = "RUN"
    BY <1>5, <1>7, <1>8, <1>9, <2>1
  <2>2. CASE st = "READY"
    <3>1. Fits(Append(readyqueue, new), keyboardqueue, blockedQueue, [run EXCEPT ![new] = "READY"], PID')
      BY <1>9, QueueReady
    <3>2. [run EXCEPT ![new] = "READY"] = estado'
      BY <1>3, <1>8, <2>2, CoreFacts, FitsFacts
    <3> QED
      BY <1>5, <1>7, <2>2, <3>1, <3>2
  <2> QED
    BY <2>1, <2>2
<1>11. OnCPU(current', estado', PID')
  <2>1. current # new /\ current \in Tasks
    BY <1>3, CoreFacts
  <2> QED
    BY <1>3, <1>8, <2>1, CoreFacts, FitsFacts DEF OnCPU
<1>12. FreeListInv'
  BY <1>2, <1>4, <1>5, <1>8, FreeListTaken DEF Rest, new
<1>13. NobodyInFreeSlots'
  BY <1>7, <1>8 DEF Rest, NobodyInFreeSlots
<1> QED
  BY <1>5, <1>10, <1>11, <1>12, <1>13 DEF Core, Rest

\* exit wakes nobody twice.
LEMMA WakeOrderInjective ==
  ASSUME TypeOK, Core, NEW n \in Nat, NEW w \in [1 .. n -> Woken], InWakeOrder(w)
  PROVE  IsInjective(w)
<1>1. ASSUME NEW t, WokenBefore(t, t) PROVE FALSE
  <2> PICK i \in Owned, j \in Owned : \E k \in DOMAIN blockedQueue[i], l \in DOMAIN blockedQueue[j] :
             /\ blockedQueue[i][k] = t /\ blockedQueue[j][l] = t
             /\ i < j \/ (i = j /\ k < l)
    BY <1>1 DEF WokenBefore
  <2> PICK k \in DOMAIN blockedQueue[i], l \in DOMAIN blockedQueue[j] :
             /\ blockedQueue[i][k] = t /\ blockedQueue[j][l] = t
             /\ i < j \/ (i = j /\ k < l)
    OBVIOUS
  <2>1. i \in Slots /\ j \in Slots /\ t \in Range(blockedQueue[i]) /\ t \in Range(blockedQueue[j])
    BY DEF Owned, Range
  <2>2. i = j
    BY <2>1, CoreFacts DEF Fits, OneWait
  <2>3. k = l
    BY <2>1, <2>2, CoreFacts DEF Fits, NoDuplicates, IsInjective
  <2>4. i \in Int /\ k \in Int
    BY <2>1, SemTable DEF Slots
  <2> QED
    BY <2>2, <2>3, <2>4
<1>2. DOMAIN w = 1 .. n /\ n \in Int
  OBVIOUS
<1>3. \A a, b \in DOMAIN w : a < b => WokenBefore(w[a], w[b])
  BY DEF InWakeOrder
<1>4. \A a, b \in DOMAIN w : a < b \/ b < a \/ a = b
  BY <1>2
<1>5. \A a, b \in DOMAIN w : w[a] = w[b] => ~(a < b) /\ ~(b < a)
  BY <1>1, <1>3
<1> QED
  BY <1>4, <1>5 DEF IsInjective

\* exit, unless it runs into a fault.
LEMMA ExitQueues ==
  ASSUME TypeOK, Core, Rest, sys_exit, KernelRuns'
  PROVE  Core' /\ Rest'
<1>1. ExitSwitches /\ current # idle_task
  BY DEF sys_exit, ExitCorrupts, KernelRuns, InUserProcess
<1>2. /\ PID' = [PID EXCEPT ![current] = -1] /\ keyboardqueue' = keyboardqueue
      /\ blockedQueue' = [i \in Slots |-> IF i \in Owned THEN <<>> ELSE blockedQueue[i]]
      /\ semaphores' = [i \in Slots |-> IF i \in Owned THEN Destroyed(semaphores[i]) ELSE semaphores[i]]
      /\ incrementalPID' = incrementalPID
  BY <1>1 DEF ExitSwitches
<1>3. Fits(readyqueue, keyboardqueue, blockedQueue, exitRunCurrent("BLOCKED"), PID')
  BY <1>1, <1>2, CoreFacts, Dies DEF exitRunCurrent, States
<1>4. PICK n \in 0 .. NR_TASKS : \E w \in [1 .. n -> Woken] :
        /\ InWakeOrder(w)
        /\ Dispatch(readyqueue \o w, Released(exitRunCurrent("BLOCKED"), Woken), missingKeys)
  BY <1>1 DEF ExitSwitches
<1>5. PICK w \in [1 .. n -> Woken] :
        /\ InWakeOrder(w)
        /\ Dispatch(readyqueue \o w, Released(exitRunCurrent("BLOCKED"), Woken), missingKeys)
  BY <1>4
<1>6. w \in Seq(Tasks) /\ Range(w) = Woken /\ Woken = WaitersOf(blockedQueue, Owned)
  <2>1. w \in [1 .. n -> Tasks] /\ n \in Nat
    BY DEF Woken
  <2> QED
    BY <1>5, <2>1, SeqDef DEF InWakeOrder, Woken, WaitersOf
<1>7. IsInjective(w)
  BY <1>5, WakeOrderInjective
<1>8. Fits(readyqueue \o w, keyboardqueue, blockedQueue', Released(exitRunCurrent("BLOCKED"), Woken), PID')
  <2>1. Owned \in SUBSET Slots
    BY DEF Owned
  <2> QED
    BY <1>2, <1>3, <1>6, <1>7, <2>1, ReleaseWaiters
<1>9. Fits(readyqueue', keyboardqueue, blockedQueue', estado', PID') /\ OnCPU(current', estado', PID')
  BY <1>5, <1>8, Switched DEF Dispatch
<1>10. FreeListInv'
  BY <1>1, <1>2, CoreFacts, FreeListAdded DEF ExitSwitches, Rest
<1>11. NobodyInFreeSlots'
  BY <1>2 DEF Rest, NobodyInFreeSlots
<1> QED
  BY <1>2, <1>9, <1>10, <1>11 DEF Core, Rest

\* Every handler, and a stuttering step, keeps the invariant.
LEMMA NextQueueInd == QueueInd /\ [Next]_vars => QueueInd'
<1> SUFFICES ASSUME QueueInd, [Next]_vars, KernelRuns' PROVE Core' /\ Rest'
  BY NextTypeOK DEF QueueInd
<1>1. CASE UNCHANGED vars
  BY <1>1, RestKept DEF vars, schedVars, kbVars, semVars, QueueInd, KernelRuns, Core
<1>2. CASE Next
  <2>1. TypeOK /\ Core /\ Rest
    BY <1>2 DEF QueueInd, Next, SchedStep, Clock, Key, Read, InUserProcess, NiceStep, Nice, KernelRuns,
                SemaphoreStep, sys_sem_init, sys_sem_destroy, sys_sem_signal, sys_sem_wait,
                sys_fork, sys_clone, CreateFaults, CanCreate, sys_exit
  <2>2. CASE NiceStep
    <3>1. UNCHANGED <<freequeue, freelinks, PID, incrementalPID, semaphores, blockedQueue,
                      readyqueue, keyboardqueue, estado, current>>
      BY <2>2 DEF NiceStep, Nice, kbVars, semVars
    <3> QED
      BY <2>1, <3>1, RestKept DEF Core
  <2> QED
    BY <1>2, <2>1, <2>2, SchedStepQueues, SemaphoreStepQueues, CreateQueues, ExitQueues DEF Next
<1> QED
  BY <1>1, <1>2

\* The queues as QueueInv describes them.
LEMMA QueueIndImplies == QueueInd => QueueInv
<1> SUFFICES ASSUME Core, Rest PROVE OneQueuePerPCB /\ StateIsQueue /\ DeadAreOut /\ FreeListInv
  BY DEF QueueInd, QueueInv
<1> USE CoreFacts, FitsFacts DEF Fits, InPlace, Waits
<1>1. OneQueuePerPCB
  <2>1. \A p, q \in Seq(Tasks) : (\A t \in Tasks : ~(t \in Range(p) /\ t \in Range(q))) => Disjoint(p, q)
    BY DEF Disjoint, Range
  <2>2. Disjoint(readyqueue, keyboardqueue)
    BY <2>1
  <2>3. \A i \in Slots : Disjoint(blockedQueue[i], readyqueue)
    BY <2>1
  <2>4. \A i \in Slots : Disjoint(blockedQueue[i], keyboardqueue)
    BY <2>1 DEF OneWait
  <2>5. \A i \in Slots : \A j \in Slots \ {i} : Disjoint(blockedQueue[i], blockedQueue[j])
    <3> SUFFICES ASSUME NEW i \in Slots, NEW j \in Slots \ {i}
                 PROVE  Disjoint(blockedQueue[i], blockedQueue[j])
      OBVIOUS
    <3>1. \A t \in Tasks : ~(t \in Range(blockedQueue[i]) /\ t \in Range(blockedQueue[j]))
      BY DEF OneWait
    <3>2. blockedQueue[i] \in Seq(Tasks) /\ blockedQueue[j] \in Seq(Tasks)
      OBVIOUS
    <3> QED
      BY <2>1, <3>1, <3>2
  <2> QED
    BY <2>2, <2>3, <2>4, <2>5 DEF OneQueuePerPCB, NoDuplicates
<1>2. StateIsQueue
  BY DEF StateIsQueue
<1>3. DeadAreOut
  BY DEF DeadAreOut, InSomeQueue
<1> QED
  BY <1>1, <1>2, <1>3 DEF Rest

\* Whatever is called and whenever the clock and the keyboard interrupt, as
\* long as the kernel runs every live process is in exactly the queue its
\* state names, no dead one is in any, and the free list is as described.
THEOREM QueuesCorrect == Spec => []QueueInv
<1>1. Init => QueueInd
  BY InitQueueInd
<1>2. QueueInd /\ [Next]_vars => QueueInd'
  BY NextQueueInd
<1>3. QueueInd => QueueInv
  BY QueueIndImplies
<1> QED
  BY <1>1, <1>2, <1>3, PTL DEF Spec
=============================================================================
