--------------------------- MODULE ProcessProofs ---------------------------
(***************************************************************************)
(* What the kernel's steps do to its processes, and what follows for PIDs, *)
(* semaphores, readers, turns, the order of the queues, directories and    *)
(* frames, for every number of tasks, semaphores, pages and frames.        *)
(*                                                                         *)
(* StepShape sorts the steps by their effect on the set of processes: most *)
(* move PCBs between the queues and the CPU only; fork and clone add a     *)
(* process or abandon a copy; exit takes one away.  The invariants about   *)
(* processes need no more of the step than that.                           *)
(***************************************************************************)
EXTENDS KernelProofs, FiniteSetTheorems

-----------------------------------------------------------------------------
(* Who the processes are.                                                  *)

\* The PCBs in queues, the one on the CPU, and idle.
Members(rq, kq, bq, cur) ==
  Range(rq) \cup {t \in Tasks : Waits(t, kq, bq)} \cup {cur, idle_task}

\* Procs, as a function of the queues.
LEMMA ProcsAre ==
  ASSUME TypeOK
  PROVE  Procs = Members(readyqueue, keyboardqueue, blockedQueue, current)
<1>1. readyqueue \in Seq(Tasks) /\ current \in Tasks
  BY DEF TypeOK, SchedTypeOK
<1>2. Range(readyqueue) \subseteq Tasks
  BY <1>1 DEF Range
<1> QED
  BY <1>1, <1>2, SpecialTasks DEF Procs, Members, InSomeQueue, Waits

\* The same of the state after a step.
LEMMA ProcsNext ==
  ASSUME TypeOK'
  PROVE  Procs' = Members(readyqueue', keyboardqueue', blockedQueue', current')
<1>1. readyqueue' \in Seq(Tasks) /\ current' \in Tasks
  BY DEF TypeOK, SchedTypeOK
<1>2. Range(readyqueue') \subseteq Tasks
  BY <1>1 DEF Range
<1> QED
  BY <1>1, <1>2, SpecialTasks DEF Procs, Members, InSomeQueue, Waits

\* A process is alive.
LEMMA ProcsLive ==
  ASSUME TypeOK, Core, NEW t \in Procs
  PROVE  t \in Tasks /\ PID[t] # -1
  BY ProcsAre, CoreFacts, FitsFacts, SpecialTasks DEF Members, Fits, InPlace

\* sched_next_rr moves the CPU along the queue: nobody is lost.
LEMMA NobodyLost ==
  ASSUME NEW rq \in Seq(Tasks), NEW st, IsInjective(rq), sched_next_rr(rq, st)
  PROVE  Range(readyqueue') \cup {current', idle_task} = Range(rq) \cup {idle_task}
<1>1. CASE rq = <<>>
  BY <1>1 DEF sched_next_rr
<1>2. CASE rq # <<>>
  BY <1>2, TailQueue DEF sched_next_rr
<1> QED
  BY <1>1, <1>2

-----------------------------------------------------------------------------
(* The steps by their effect on the processes.                             *)

\* PCBs change their places, nothing else.
Stays == UNCHANGED <<PID, incrementalPID, memVars>> /\ Procs' = Procs

\* new was a free PCB.
WasFree(new) == new \in Tasks \ Procs /\ PID[new] = -1 /\ current' = current

Creates(new) ==
  /\ WasFree(new) /\ current # idle_task
  /\ Procs' = Procs \cup {new} /\ Created(new)
  /\ ForkMemory(new) \/ CloneMemory(new)

Abandons(new) ==
  /\ WasFree(new)
  /\ Procs' = Procs /\ Abandoned(new)
  /\ ForkWithoutDIR(new) \/ ForkWithoutFrames(new)

Exits ==
  /\ current # idle_task
  /\ Procs' = Procs \ {current} /\ ExitSwitches

\* The kernel was running before a step after which it is.
LEMMA RunsBefore ==
  ASSUME [Next]_vars, KernelRuns'
  PROVE  KernelRuns
<1>1. CASE Next
  BY <1>1 DEF Next, SchedStep, Clock, Key, Read, InUserProcess, NiceStep, Nice, KernelRuns,
              SemaphoreStep, sys_sem_init, sys_sem_destroy, sys_sem_signal, sys_sem_wait,
              sys_fork, sys_clone, CreateFaults, CanCreate, sys_exit
<1>2. CASE UNCHANGED vars
  BY <1>2 DEF vars, schedVars, KernelRuns
<1> QED
  BY <1>1, <1>2

\* No place changes, no process does.
LEMMA SamePlaces ==
  ASSUME UNCHANGED <<readyqueue, keyboardqueue, blockedQueue, current>>
  PROVE  Procs' = Procs
  BY DEF Procs, InSomeQueue

\* The running process is queued in the keyboard queue or a semaphore's and
\* the next one gets the CPU.
LEMMA MovesOn ==
  ASSUME TypeOK, TypeOK', Core, NEW st, sched_next_rr(readyqueue, st),
         \A t \in Tasks : Waits(t, keyboardqueue', blockedQueue')
                            <=> t = current \/ Waits(t, keyboardqueue, blockedQueue)
  PROVE  Procs' = Procs
<1>1. IsInjective(readyqueue) /\ readyqueue \in Seq(Tasks) /\ current \in Tasks
  BY CoreFacts, FitsFacts DEF Fits, NoDuplicates
<1>2. Range(readyqueue') \cup {current', idle_task} = Range(readyqueue) \cup {idle_task}
  BY <1>1, NobodyLost
<1>3. Procs' = Members(readyqueue', keyboardqueue', blockedQueue', current')
  BY ProcsNext
<1> QED
  BY <1>1, <1>2, <1>3, ProcsAre DEF Members

\* The interrupts and read move PCBs between the queues and the CPU only.
LEMMA SchedStepStays ==
  ASSUME TypeOK, TypeOK', Core, SchedStep
  PROVE  Stays
<1>1. UNCHANGED <<PID, incrementalPID, memVars, blockedQueue>>
  BY DEF SchedStep, Clock, Key, Read, semVars
<1>2. ASSUME Clock PROVE Procs' = Procs
  <2>1. CASE ClockTick \/ ClockRenew
    BY <1>1, <1>2, <2>1, SamePlaces DEF Clock, ClockTick, ClockRenew
  <2>2. CASE ClockSwitch
    <3> DEFINE rq == Append(readyqueue, current)
    <3>1. rq \in Seq(Tasks) /\ Range(rq) = Range(readyqueue) \cup {current} /\ IsInjective(rq)
      BY CoreFacts, FitsFacts, AppendQueue DEF Fits, NoDuplicates
    <3>2. sched_next_rr(rq, exitRunCurrent("READY")) /\ keyboardqueue' = keyboardqueue
      BY <1>2, <2>2 DEF Clock, ClockSwitch, Dispatch
    <3> HIDE DEF rq
    <3>3. Range(readyqueue') \cup {current', idle_task} = Range(readyqueue) \cup {current, idle_task}
      BY <3>1, <3>2, NobodyLost
    <3>4. Procs' = Members(readyqueue', keyboardqueue', blockedQueue', current')
      BY ProcsNext
    <3> QED
      BY <1>1, <3>2, <3>3, <3>4, ProcsAre DEF Members
  <2> QED
    BY <1>2, <2>1, <2>2 DEF Clock
<1>3. ASSUME Key PROVE Procs' = Procs
  <2>1. CASE KeyWakes(keyboardBuff')
    <3>1. /\ keyboardqueue # <<>> /\ keyboardqueue' = Tail(keyboardqueue)
          /\ readyqueue' = Append(readyqueue, Head(keyboardqueue)) /\ current' = current
      BY <1>3, <2>1 DEF Key, KeyWakes, FirstReader
    <3>2. /\ Range(keyboardqueue) = Range(Tail(keyboardqueue)) \cup {Head(keyboardqueue)}
          /\ Head(keyboardqueue) \in Tasks
      BY <3>1, CoreFacts, FitsFacts, TailQueue DEF Fits, NoDuplicates
    <3>3. Range(readyqueue') = Range(readyqueue) \cup {Head(keyboardqueue)}
      BY <3>1, <3>2, CoreFacts, FitsFacts, AppendQueue
    <3>4. Procs' = Members(readyqueue', keyboardqueue', blockedQueue', current')
      BY ProcsNext
    <3> QED
      BY <1>1, <3>1, <3>2, <3>3, <3>4, ProcsAre DEF Members, Waits
  <2>2. CASE ~KeyWakes(keyboardBuff')
    BY <1>1, <1>3, <2>2, SamePlaces DEF Key
  <2> QED
    BY <2>1, <2>2
<1>4. ASSUME NEW n \in ReadSizes, Read(n) PROVE Procs' = Procs
  <2>1. CASE ReadBehindOthers(n) \/ ReadBlocks(n)
    <3>1. keyboardqueue' = Append(keyboardqueue, current)
      <4>1. CASE ReadBehindOthers(n)
        BY <4>1 DEF ReadBehindOthers
      <4>2. CASE ReadBlocks(n)
        <5>1. keyboardqueue = <<>> /\ keyboardqueue' = <<current>> \o <<>>
          BY <4>2 DEF ReadBlocks
        <5>2. Append(<<>>, current) = <<current>> \o <<>>
          OBVIOUS
        <5> QED
          BY <5>1, <5>2
      <4> QED
        BY <2>1, <4>1, <4>2
    <3>2. Range(keyboardqueue') = Range(keyboardqueue) \cup {current}
      BY <3>1, CoreFacts, FitsFacts, AppendQueue
    <3>3. \E st : sched_next_rr(readyqueue, st)
      BY <2>1 DEF ReadBehindOthers, ReadBlocks, Dispatch
    <3> QED
      BY <1>1, <3>2, <3>3, MovesOn DEF Waits
  <2>2. CASE ReadAtOnce(n)
    BY <1>1, <2>2, SamePlaces DEF ReadAtOnce
  <2> QED
    BY <1>4, <2>1, <2>2 DEF Read
<1> QED
  BY <1>1, <1>2, <1>3, <1>4 DEF SchedStep, Stays

\* So do the semaphore calls.
LEMMA SemaphoreStepStays ==
  ASSUME TypeOK, TypeOK', Core, NobodyInFreeSlots, SemaphoreStep, KernelRuns'
  PROVE  Stays
<1>1. UNCHANGED <<PID, incrementalPID, memVars, keyboardqueue>>
  BY DEF SemaphoreStep, sys_sem_init, sys_sem_destroy, sys_sem_signal, sys_sem_wait, kbVars
<1>2. Procs' = Members(readyqueue', keyboardqueue', blockedQueue', current')
  BY ProcsNext
<1> USE SemTable
<1>3. ASSUME NEW n \in SemIds, NEW value \in SemValues, sys_sem_init(n, value)
      PROVE  Procs' = Procs
  <2> PICK i \in Slots : cerca_sem_lliure(i) /\ blockedQueue' = [blockedQueue EXCEPT ![i] = <<>>]
    BY <1>3 DEF sys_sem_init, KernelRuns
  <2>1. blockedQueue' = blockedQueue
    BY DEF cerca_sem_lliure, NobodyInFreeSlots
  <2> QED
    BY <1>1, <1>3, <2>1, SamePlaces DEF sys_sem_init
<1>4. ASSUME NEW n \in SemIds, sys_sem_destroy(n) PROVE Procs' = Procs
  <2> PICK i \in Slots :
          /\ readyqueue' = readyqueue \o blockedQueue[i]
          /\ blockedQueue' = [blockedQueue EXCEPT ![i] = <<>>]
    BY <1>4 DEF sys_sem_destroy
  <2>1. Range(readyqueue') = Range(readyqueue) \cup Range(blockedQueue[i])
    BY CoreFacts, FitsFacts, ConcatQueue
  <2>2. Range(blockedQueue[i]) \subseteq Tasks
    BY CoreFacts, FitsFacts
  <2>3. \A j \in Slots : Range(blockedQueue'[j]) = IF j = i THEN {} ELSE Range(blockedQueue[j])
    BY EmptyQueue
  <2>4. current' = current
    BY <1>4 DEF sys_sem_destroy
  <2> QED
    BY <1>1, <1>2, <2>1, <2>2, <2>3, <2>4, ProcsAre DEF Members, Waits
<1>5. ASSUME NEW n \in SemIds, sys_sem_signal(n) PROVE Procs' = Procs
  <2> PICK i \in Slots : SignalCounts(i) \/ SignalWakes(i)
    BY <1>5 DEF sys_sem_signal
  <2>1. current' = current
    BY <1>5 DEF sys_sem_signal
  <2>2. CASE SignalCounts(i)
    BY <1>1, <2>1, <2>2, SamePlaces DEF SignalCounts
  <2>3. CASE SignalWakes(i)
    <3> DEFINE t == Head(blockedQueue[i])
    <3>1. /\ blockedQueue[i] # <<>> /\ blockedQueue' = [blockedQueue EXCEPT ![i] = Tail(@)]
          /\ readyqueue' = Append(readyqueue, t)
      BY <2>3 DEF SignalWakes, WithWoken
    <3>2. t \in Tasks /\ Range(blockedQueue[i]) = Range(Tail(blockedQueue[i])) \cup {t}
      BY <3>1, CoreFacts, FitsFacts, TailQueue DEF Fits, NoDuplicates
    <3>3. Range(readyqueue') = Range(readyqueue) \cup {t}
      BY <3>1, <3>2, CoreFacts, FitsFacts, AppendQueue
    <3>4. \A j \in Slots : Range(blockedQueue'[j])
                            = IF j = i THEN Range(Tail(blockedQueue[i])) ELSE Range(blockedQueue[j])
      BY <3>1
    <3> HIDE DEF t
    <3>5. \A u \in Tasks : u = t \/ Waits(u, keyboardqueue, blockedQueue')
                            <=> u = t \/ Waits(u, keyboardqueue, blockedQueue)
      BY <3>2, <3>4 DEF Waits
    <3>6. {u \in Tasks : Waits(u, keyboardqueue, blockedQueue')} \cup {t}
            = {u \in Tasks : Waits(u, keyboardqueue, blockedQueue)} \cup {t}
      BY <3>2, <3>5
    <3>7. {u \in Tasks : Waits(u, keyboardqueue, blockedQueue)} \cup {t}
            = {u \in Tasks : Waits(u, keyboardqueue, blockedQueue)}
      <4>1. t \in Range(blockedQueue[i])
        BY <3>2
      <4> QED
        BY <3>2, <4>1 DEF Waits
    <3> QED
      BY <1>1, <1>2, <2>1, <3>3, <3>6, <3>7, ProcsAre DEF Members
  <2> QED
    BY <2>2, <2>3
<1>6. ASSUME NEW n \in SemIds, sys_sem_wait(n) PROVE Procs' = Procs
  <2> PICK i \in Slots :
       \/ /\ blockedQueue' = [blockedQueue EXCEPT ![i] = Append(@, current)]
          /\ Dispatch(readyqueue, exitRunCurrent("BLOCKED"), missingKeys)
       \/ UNCHANGED <<blockedQueue, readyqueue, current>>
    BY <1>6 DEF sys_sem_wait
  <2>1. CASE UNCHANGED <<blockedQueue, readyqueue, current>>
    BY <1>1, <2>1, SamePlaces
  <2>2. CASE /\ blockedQueue' = [blockedQueue EXCEPT ![i] = Append(@, current)]
             /\ Dispatch(readyqueue, exitRunCurrent("BLOCKED"), missingKeys)
    <3>1. Range(Append(blockedQueue[i], current)) = Range(blockedQueue[i]) \cup {current}
      BY CoreFacts, FitsFacts, AppendQueue
    <3>2. \A j \in Slots : Range(blockedQueue'[j])
                            = Range(blockedQueue[j]) \cup (IF j = i THEN {current} ELSE {})
      BY <2>2, <3>1
    <3>3. \A u \in Tasks : Waits(u, keyboardqueue', blockedQueue')
                            <=> u = current \/ Waits(u, keyboardqueue, blockedQueue)
      BY <1>1, <3>2 DEF Waits
    <3> QED
      BY <2>2, <3>3, MovesOn DEF Dispatch
  <2> QED
    BY <2>1, <2>2
<1> QED
  BY <1>1, <1>3, <1>4, <1>5, <1>6 DEF SemaphoreStep, Stays

\* fork and clone take a PCB that is free, and out of no queue.
LEMMA TakenPCB ==
  ASSUME TypeOK, Core, FreeListInv, NEW new, new = FirstFree, TakePCB(new), KernelRuns'
  PROVE  /\ new \in Tasks \ Procs /\ PID[new] = -1
         /\ Unlinked(readyqueue, new) = readyqueue
         /\ keyboardqueue' = keyboardqueue /\ blockedQueue' = blockedQueue
<1>1. ~Exhausted /\ TakeFirst
  BY DEF TakePCB, KernelRuns
<1>2. freequeue \in Seq(Tasks) /\ freequeue # <<>> /\ IsInjective(freequeue)
  BY <1>1 DEF TypeOK, SchedTypeOK, TakeFirst, FreeListInv
<1>3. new \in Tasks /\ new \in Range(freequeue)
  BY <1>2, TailQueue DEF FirstFree
<1>4. PID[new] = -1
  BY <1>1, <1>3 DEF FreeListInv, Range
<1>5. new \in Tasks \ Procs
  BY <1>3, <1>4, ProcsLive
<1>6. new \notin Range(readyqueue) /\ ~Waits(new, keyboardqueue, blockedQueue)
  BY <1>3, <1>4 DEF Core, Fits, InPlace
<1>7. \A q : new \notin Range(q) => Unlinked(q, new) = q
  BY DEF Unlinked
<1>8. \A i \in Slots : Unlinked(blockedQueue[i], new) = blockedQueue[i]
  BY <1>6, <1>7 DEF Waits
<1>9. blockedQueue' = [i \in Slots |-> Unlinked(blockedQueue[i], new)]
      /\ keyboardqueue' = Unlinked(keyboardqueue, new)
  BY DEF TakePCB
<1> QED
  BY <1>4, <1>5, <1>6, <1>7, <1>8, <1>9, SemTable DEF Waits

\* fork and clone add the PCB they take to the processes, or leave it a copy
\* nobody reaches.
LEMMA CreateShape ==
  ASSUME TypeOK, TypeOK', Core, FreeListInv, sys_fork \/ sys_clone, KernelRuns'
  PROVE  Creates(FirstFree) \/ Abandons(FirstFree)
<1> DEFINE new == FirstFree
<1>1. /\ TakePCB(new) /\ current # idle_task
      /\ \/ Created(new) /\ (ForkMemory(new) \/ CloneMemory(new))
         \/ Abandoned(new) /\ (ForkWithoutDIR(new) \/ ForkWithoutFrames(new))
  BY DEF sys_fork, sys_clone, CreateFaults, CanCreate, InUserProcess, KernelRuns
<1>2. /\ new \in Tasks \ Procs /\ PID[new] = -1
      /\ Unlinked(readyqueue, new) = readyqueue
      /\ keyboardqueue' = keyboardqueue /\ blockedQueue' = blockedQueue
  BY <1>1, TakenPCB
<1>3. current' = current
  BY <1>1 DEF Created, Abandoned, CopyPCB
<1>4. Procs' = Members(readyqueue', keyboardqueue', blockedQueue', current')
  BY ProcsNext
<1> HIDE DEF new
<1>5. CASE Created(new)
  <2>1. readyqueue' = Append(readyqueue, new)
    BY <1>2, <1>5 DEF Created
  <2>2. Range(readyqueue') = Range(readyqueue) \cup {new}
    BY <1>2, <2>1, CoreFacts, FitsFacts, AppendQueue
  <2>3. Procs' = Procs \cup {new}
    BY <1>2, <1>3, <1>4, <2>2, ProcsAre DEF Members, Waits
  <2>5. ~Abandoned(new)
    <3>1. incrementalPID \in Int
      BY DEF TypeOK
    <3> QED
      BY <1>5, <3>1 DEF Created, Abandoned
  <2> QED
    BY <1>1, <1>2, <1>3, <1>5, <2>3, <2>5 DEF Creates, WasFree, new
<1>6. CASE Abandoned(new) /\ (ForkWithoutDIR(new) \/ ForkWithoutFrames(new))
  <2>1. readyqueue' = readyqueue
    BY <1>2, <1>6 DEF Abandoned
  <2>2. Procs' = Procs
    BY <1>2, <1>3, <2>1, SamePlaces
  <2> QED
    BY <1>2, <1>3, <1>6, <2>2 DEF Abandons, WasFree, new
<1> QED
  BY <1>1, <1>5, <1>6

\* exit switches with the waiters it lets go behind the ready queue.
LEMMA ExitDispatch ==
  ASSUME TypeOK, Core, ExitSwitches
  PROVE  \E rq \in Seq(Tasks) :
           /\ IsInjective(rq) /\ Range(rq) = Range(readyqueue) \cup Woken
           /\ \E st : Dispatch(rq, st, missingKeys)
<1>1. PICK n \in 0 .. NR_TASKS : \E w \in [1 .. n -> Woken] :
        InWakeOrder(w) /\ \E st : Dispatch(readyqueue \o w, st, missingKeys)
  BY DEF ExitSwitches
<1>2. PICK w \in [1 .. n -> Woken] : InWakeOrder(w) /\ \E st : Dispatch(readyqueue \o w, st, missingKeys)
  BY <1>1
<1>3. w \in Seq(Tasks) /\ Range(w) = Woken
  <2>1. w \in [1 .. n -> Tasks] /\ n \in Nat
    BY DEF Woken
  <2> QED
    BY <1>2, <2>1, SeqDef DEF InWakeOrder
<1>4. readyqueue \o w \in Seq(Tasks) /\ Range(readyqueue \o w) = Range(readyqueue) \cup Woken
  BY <1>3, CoreFacts, FitsFacts, ConcatQueue
<1>5. IsInjective(readyqueue \o w)
  <2>1. IsInjective(w)
    BY <1>2, WakeOrderInjective
  <2>2. \A t \in Woken : t \in Tasks /\ Waits(t, keyboardqueue, blockedQueue)
    BY DEF Woken, Waits, Owned
  <2>3. Range(readyqueue) \cap Range(w) = {}
    BY <1>3, <2>2, CoreFacts, FitsFacts DEF Fits, InPlace
  <2> QED
    BY <1>3, <2>1, <2>3, CoreFacts, FitsFacts, ConcatQueue DEF Fits, NoDuplicates
<1> QED
  BY <1>2, <1>4, <1>5

\* exit takes the running process away, and nobody else.
LEMMA ExitShape ==
  ASSUME TypeOK, TypeOK', Core, sys_exit, KernelRuns'
  PROVE  Exits
<1>1. ExitSwitches /\ current # idle_task
  BY DEF sys_exit, ExitCorrupts, KernelRuns, InUserProcess
<1>2. /\ keyboardqueue' = keyboardqueue
      /\ blockedQueue' = [i \in Slots |-> IF i \in Owned THEN <<>> ELSE blockedQueue[i]]
  BY <1>1 DEF ExitSwitches
<1>3. PICK rq \in Seq(Tasks) : \E st :
        /\ IsInjective(rq) /\ Range(rq) = Range(readyqueue) \cup Woken
        /\ sched_next_rr(rq, st)
  BY <1>1, ExitDispatch DEF Dispatch
<1>4. Range(readyqueue') \cup {current', idle_task} = Range(readyqueue) \cup Woken \cup {idle_task}
  BY <1>3, NobodyLost
<1>5. \A t \in Tasks : t \in Woken \/ Waits(t, keyboardqueue, blockedQueue')
                        <=> Waits(t, keyboardqueue, blockedQueue)
  <2>1. \A i \in Slots : Range(blockedQueue'[i]) = IF i \in Owned THEN {} ELSE Range(blockedQueue[i])
    BY <1>2, EmptyQueue
  <2> QED
    BY <2>1 DEF Waits, Woken, Owned
<1>6. current \notin Range(readyqueue) /\ ~Waits(current, keyboardqueue, blockedQueue)
  BY CoreFacts
<1>7. Procs' = Procs \ {current}
  <2>1. Procs' = Members(readyqueue', keyboardqueue', blockedQueue', current')
    BY ProcsNext
  <2>2. Woken \subseteq Tasks
    BY DEF Woken
  <2> QED
    BY <1>1, <1>2, <1>4, <1>5, <1>6, <2>1, <2>2, ProcsAre, CoreFacts DEF Members
<1> QED
  BY <1>1, <1>7 DEF Exits

\* Every step of the running kernel has one of the four shapes.
LEMMA StepShape ==
  ASSUME QueueInd, [Next]_vars, KernelRuns'
  PROVE  Stays \/ (\E new \in Tasks : Creates(new) \/ Abandons(new)) \/ Exits
<1>1. TypeOK /\ TypeOK' /\ Core /\ Rest
  BY RunsBefore, NextTypeOK DEF QueueInd
<1>2. CASE UNCHANGED vars
  BY <1>2, SamePlaces DEF vars, schedVars, kbVars, semVars, Stays
<1>3. CASE NiceStep
  BY <1>3, SamePlaces DEF NiceStep, Nice, kbVars, semVars, Stays
<1>4. CASE sys_fork \/ sys_clone
  BY <1>1, <1>4, CreateShape DEF Creates, Abandons, WasFree, Rest
<1> QED
  BY <1>1, <1>2, <1>3, <1>4, SchedStepStays, SemaphoreStepStays, ExitShape DEF Next, Rest

-----------------------------------------------------------------------------
(* PIDs.                                                                   *)

\* fork's counter runs ahead of every PID that is in use.
LEMMA PIDsStep ==
  ASSUME QueueInd, UniquePIDs, [Next]_vars
  PROVE  UniquePIDs'
<1> SUFFICES ASSUME KernelRuns'
             PROVE  (\A t \in Procs : PID[t] < incrementalPID
                                      /\ \A u \in Procs : PID[t] = PID[u] => t = u)'
  BY DEF UniquePIDs
<1>1. TypeOK /\ Core
  BY RunsBefore DEF QueueInd
<1>2. \A t \in Procs : t \in Tasks /\ PID[t] < incrementalPID /\ \A u \in Procs : PID[t] = PID[u] => t = u
  BY <1>1, RunsBefore, ProcsLive DEF UniquePIDs
<1>3. PID \in [Tasks -> Int] /\ incrementalPID \in Int
  BY <1>1 DEF TypeOK, SchedTypeOK
<1>4. CASE Stays
  BY <1>2, <1>4 DEF Stays
<1>5. ASSUME NEW new \in Tasks, Creates(new)
      PROVE  \A t \in Procs' : PID'[t] < incrementalPID'
                               /\ \A u \in Procs' : PID'[t] = PID'[u] => t = u
  <2>1. /\ Procs' = Procs \cup {new} /\ incrementalPID' = incrementalPID + 1
        /\ PID' = [PID EXCEPT ![new] = incrementalPID]
    BY <1>5 DEF Creates, Created, CopyPCB
  <2> QED
    BY <1>2, <1>3, <2>1
<1>6. ASSUME NEW new \in Tasks, Abandons(new)
      PROVE  \A t \in Procs' : PID'[t] < incrementalPID'
                               /\ \A u \in Procs' : PID'[t] = PID'[u] => t = u
  <2>1. /\ Procs' = Procs /\ incrementalPID' = incrementalPID /\ new \notin Procs
        /\ PID' = [PID EXCEPT ![new] = PID[current]]
    BY <1>6 DEF Abandons, Abandoned, CopyPCB, WasFree
  <2> QED
    BY <1>2, <1>3, <2>1
<1>7. CASE Exits
  <2>1. /\ Procs' = Procs \ {current} /\ incrementalPID' = incrementalPID
        /\ PID' = [PID EXCEPT ![current] = -1]
    BY <1>7 DEF Exits, ExitSwitches
  <2> QED
    BY <1>2, <1>3, <2>1
<1> QED
  BY <1>4, <1>5, <1>6, <1>7, StepShape

\* Right after the boot idle and init are the only processes.
LEMMA StartProcs ==
  ASSUME Init
  PROVE  Procs = {idle_task, init_task}
<1>1. /\ readyqueue = <<>> /\ keyboardqueue = <<>> /\ blockedQueue = [i \in Slots |-> <<>>]
      /\ current = init_task
  BY DEF Init, SchedInit, KeyboardInit, SemaphoresInit
<1> QED
  BY <1>1, EmptyQueue, SpecialTasks, InitTypeOK, ProcsAre DEF Members, Waits

\* idle has PID 0 and init PID 1; the counter starts at 2.
LEMMA PIDsInit == Init => UniquePIDs
<1> SUFFICES ASSUME Init, KernelRuns, NEW t \in Procs
             PROVE  PID[t] < incrementalPID /\ \A u \in Procs : PID[t] = PID[u] => t = u
  BY DEF UniquePIDs
<1>1. Procs = {idle_task, init_task}
  BY StartProcs
<1> QED
  BY <1>1, SpecialTasks DEF Init, SchedInit

\* Whatever forks, clones and exits happen in whatever order, no two processes
\* have the same PID, and fork's counter is ahead of all of them.
THEOREM PIDsAreUnique == Spec => []UniquePIDs
<1>1. Init => QueueInd /\ UniquePIDs
  BY InitQueueInd, PIDsInit
<1>2. QueueInd /\ UniquePIDs /\ [Next]_vars => (QueueInd /\ UniquePIDs)'
  BY NextQueueInd, PIDsStep
<1> QED
  BY <1>1, <1>2, PTL DEF Spec

-----------------------------------------------------------------------------
(* The order of the ready queue.                                           *)

\* PCBs are added behind the queue.
LEMMA Lengthened ==
  ASSUME readyqueue \in Seq(Tasks), NEW w \in Seq(Tasks), readyqueue' = readyqueue \o w
  PROVE  ServedInOrder
<1>1. /\ Len(readyqueue) \in Nat /\ Len(w) \in Nat
      /\ Len(readyqueue') = Len(readyqueue) + Len(w)
      /\ \A i \in 1 .. Len(readyqueue) : readyqueue'[i] = readyqueue[i]
  OBVIOUS
<1> QED
  BY <1>1 DEF ServedInOrder

\* PCBs are added, and the first of the queue gets the CPU.
LEMMA Advanced ==
  ASSUME readyqueue \in Seq(Tasks), NEW w \in Seq(Tasks), NEW st,
         sched_next_rr(readyqueue \o w, st)
  PROVE  ServedInOrder
<1> DEFINE rq == readyqueue \o w
<1>1. /\ Len(readyqueue) \in Nat /\ Len(w) \in Nat /\ rq \in Seq(Tasks)
      /\ Len(rq) = Len(readyqueue) + Len(w)
      /\ \A i \in 1 .. Len(readyqueue) : rq[i] = readyqueue[i]
  OBVIOUS
<1>2. CASE readyqueue = <<>>
  <2>1. Len(readyqueue) = 0
    BY <1>2
  <2>2. readyqueue' \in Seq(Tasks)
    <3>1. rq # <<>> => Tail(rq) \in Seq(Tasks)
      BY <1>1
    <3> HIDE DEF rq
    <3> QED
      BY <1>1, <3>1 DEF sched_next_rr, rq
  <2>3. Len(readyqueue') \in Nat
    BY <2>2
  <2> QED
    BY <2>1, <2>3 DEF ServedInOrder
<1>3. CASE readyqueue # <<>>
  <2>1. Len(readyqueue) > 0 /\ Head(readyqueue) = readyqueue[1]
    BY <1>3
  <2> HIDE DEF rq
  <2>2. rq # <<>> /\ Head(rq) = rq[1] /\ Len(Tail(rq)) = Len(rq) - 1
        /\ \A i \in 1 .. Len(rq) - 1 : Tail(rq)[i] = rq[i + 1]
    BY <1>1, <2>1
  <2>3. readyqueue' = Tail(rq) /\ current' = Head(rq)
    BY <2>2 DEF sched_next_rr, rq
  <2>4. Len(readyqueue) - 1 <= Len(readyqueue')
    BY <1>1, <2>2, <2>3
  <2>5. current' = Head(readyqueue)
    BY <1>1, <2>1, <2>2, <2>3
  <2>6. \A i \in 1 .. Len(readyqueue) - 1 : readyqueue'[i] = readyqueue[i + 1]
    BY <1>1, <2>2, <2>3
  <2> QED
    BY <1>1, <2>1, <2>4, <2>5, <2>6 DEF ServedInOrder
<1> QED
  BY <1>2, <1>3

\* What Append does, as a concatenation.
LEMMA AppendConcat ==
  ASSUME NEW q \in Seq(Tasks), NEW t \in Tasks
  PROVE  Append(q, t) = q \o <<t>> /\ <<t>> \in Seq(Tasks) /\ q \o <<>> = q /\ <<>> \in Seq(Tasks)
  OBVIOUS

\* No step lets anybody overtake in the ready queue.
LEMMA StepInOrder ==
  ASSUME QueueInd, [Next]_vars
  PROVE  ServedInOrder
<1> SUFFICES ASSUME KernelRuns' PROVE ServedInOrder
  BY DEF ServedInOrder, KernelRuns
<1>1. TypeOK /\ Core /\ Rest
  BY RunsBefore DEF QueueInd
<1>2. readyqueue \in Seq(Tasks) /\ current \in Tasks /\ keyboardqueue \in Seq(Tasks)
  BY <1>1 DEF TypeOK, SchedTypeOK, KeyboardTypeOK
<1>3. ASSUME UNCHANGED readyqueue PROVE ServedInOrder
  BY <1>2, <1>3, AppendConcat, Lengthened
<1>4. ASSUME NEW t \in Tasks, readyqueue' = Append(readyqueue, t) PROVE ServedInOrder
  BY <1>2, <1>4, AppendConcat, Lengthened
<1>5. ASSUME NEW st, sched_next_rr(readyqueue, st) PROVE ServedInOrder
  BY <1>2, <1>5, AppendConcat, Advanced
<1>6. CASE SchedStep
  <2>1. ASSUME Clock PROVE ServedInOrder
    <3>1. CASE ClockTick \/ ClockRenew
      BY <1>3, <3>1 DEF ClockTick, ClockRenew
    <3>2. CASE ClockSwitch
      <4>1. sched_next_rr(readyqueue \o <<current>>, exitRunCurrent("READY"))
        BY <1>2, <3>2, AppendConcat DEF ClockSwitch, Dispatch
      <4> QED
        BY <1>2, <4>1, AppendConcat, Advanced
    <3> QED
      BY <2>1, <3>1, <3>2 DEF Clock
  <2>2. ASSUME Key PROVE ServedInOrder
    <3>1. keyboardqueue # <<>> => FirstReader \in Tasks
      BY <1>2, HeadTail DEF FirstReader
    <3> QED
      BY <1>3, <1>4, <2>2, <3>1 DEF Key, KeyWakes
  <2>3. ASSUME NEW n \in ReadSizes, Read(n) PROVE ServedInOrder
    BY <1>3, <1>5, <2>3 DEF Read, ReadBehindOthers, ReadAtOnce, ReadBlocks, Dispatch
  <2> QED
    BY <1>6, <2>1, <2>2, <2>3 DEF SchedStep
<1>7. CASE SemaphoreStep
  <2> USE SemTable
  <2>1. ASSUME NEW n \in SemIds, sys_sem_destroy(n) PROVE ServedInOrder
    <3> PICK i \in Slots : readyqueue' = readyqueue \o blockedQueue[i]
      BY <2>1 DEF sys_sem_destroy
    <3> QED
      BY <1>1, <1>2, Lengthened
  <2>2. ASSUME NEW n \in SemIds, sys_sem_signal(n) PROVE ServedInOrder
    <3> PICK i \in Slots : SignalCounts(i) \/ SignalWakes(i)
      BY <2>2 DEF sys_sem_signal
    <3>1. blockedQueue[i] # <<>> => Head(blockedQueue[i]) \in Tasks
      BY <1>1, HeadTail
    <3> QED
      BY <1>3, <1>4, <3>1 DEF SignalCounts, SignalWakes, WithWoken
  <2>3. ASSUME NEW n \in SemIds, NEW value \in SemValues, sys_sem_init(n, value) PROVE ServedInOrder
    BY <1>3, <2>3 DEF sys_sem_init
  <2>4. ASSUME NEW n \in SemIds, sys_sem_wait(n) PROVE ServedInOrder
    BY <1>3, <1>5, <2>4 DEF sys_sem_wait, Dispatch
  <2> QED
    BY <1>7, <2>1, <2>2, <2>3, <2>4 DEF SemaphoreStep
<1>8. CASE sys_fork \/ sys_clone
  <2>1. TakePCB(FirstFree) /\ (Created(FirstFree) \/ Abandoned(FirstFree))
    BY <1>8 DEF sys_fork, sys_clone, CreateFaults, KernelRuns
  <2>2. FirstFree \in Tasks /\ Unlinked(readyqueue, FirstFree) = readyqueue
    BY <1>1, <2>1, TakenPCB DEF Rest
  <2> QED
    BY <1>3, <1>4, <2>1, <2>2 DEF Created, Abandoned
<1>9. CASE sys_exit
  <2>1. PICK n \in 0 .. NR_TASKS : \E w \in [1 .. n -> Woken] :
          \E st : sched_next_rr(readyqueue \o w, st)
    BY <1>9 DEF sys_exit, ExitCorrupts, KernelRuns, ExitSwitches, Dispatch
  <2>2. PICK w \in [1 .. n -> Woken] : \E st : sched_next_rr(readyqueue \o w, st)
    BY <2>1
  <2>3. w \in [1 .. n -> Tasks] /\ n \in Nat
    BY DEF Woken
  <2>4. w \in Seq(Tasks)
    BY <2>3, SeqDef
  <2> QED
    BY <1>2, <2>2, <2>4, Advanced
<1>10. CASE NiceStep \/ UNCHANGED vars
  BY <1>3, <1>10 DEF NiceStep, Nice, vars, schedVars
<1> QED
  BY <1>6, <1>7, <1>8, <1>9, <1>10 DEF Next

\* Nobody overtakes in the ready queue: every step takes at most its first
\* process, to run it, and adds others only behind it.
THEOREM ReadyServedInOrder == Spec => ReadyIsFIFO
<1>1. Init => QueueInd
  BY InitQueueInd
<1>2. QueueInd /\ [Next]_vars => QueueInd'
  BY NextQueueInd
<1>3. QueueInd /\ [Next]_vars => [ServedInOrder]_vars
  BY StepInOrder
<1> QED
  BY <1>1, <1>2, <1>3, PTL DEF Spec, ReadyIsFIFO

-----------------------------------------------------------------------------
(* Semaphores.                                                             *)

Owners == \A i \in Slots :
  semaphores[i].state = "USED" => \E t \in Procs \ {idle_task} : PID[t] = semaphores[i].owner

WaitersInUse == \A i \in Slots :
  blockedQueue[i] # <<>> => semaphores[i].state = "USED" /\ semaphores[i].counter <= 0

OneSlotPerName == \A i, j \in Slots :
  semaphores[i].state = "USED" /\ Named(j, semaphores[i].n_sem) => i = j

\* The three parts are all of SemaphoreInv.
LEMMA SemaphoreParts ==
  SemaphoreInv <=> (KernelRuns => Owners /\ WaitersInUse /\ OneSlotPerName)
  BY DEF SemaphoreInv, Owners, WaitersInUse, OneSlotPerName

\* A destroyed entry is free.
LEMMA DestroyedIsFree ==
  ASSUME NEW s \in SemEntries
  PROVE  Destroyed(s).state = "FREE"
  BY DEF SemEntries, Destroyed

\* Counting up and down changes nothing but the counter.
LEMMA CountedEntry ==
  ASSUME NEW s \in SemEntries
  PROVE  /\ OneMore(s).state = s.state /\ OneMore(s).n_sem = s.n_sem /\ OneMore(s).owner = s.owner
         /\ OneLess(s).state = s.state /\ OneLess(s).n_sem = s.n_sem /\ OneLess(s).owner = s.owner
         /\ OneLess(s).counter = s.counter - 1 /\ s.counter \in Int
  BY DEF SemEntries, OneMore, OneLess

\* The semaphore table is touched by the semaphore calls and by exit only.
LEMMA TableSteps ==
  ASSUME QueueInd, [Next]_vars, KernelRuns'
  PROVE  UNCHANGED <<semaphores, blockedQueue>> \/ SemaphoreStep \/ sys_exit
<1>1. TypeOK /\ Core /\ Rest
  BY RunsBefore DEF QueueInd
<1>2. CASE sys_fork \/ sys_clone
  <2>1. TakePCB(FirstFree) /\ (Created(FirstFree) \/ Abandoned(FirstFree))
    BY <1>2 DEF sys_fork, sys_clone, CreateFaults, KernelRuns
  <2>2. blockedQueue' = blockedQueue
    BY <1>1, <2>1, TakenPCB DEF Rest
  <2> QED
    BY <2>1, <2>2 DEF Created, Abandoned, CopyPCB
<1> QED
  BY <1>2 DEF Next, SchedStep, NiceStep, semVars, vars

\* A process stays one with its PID, unless it is the one that exits.
LEMMA ProcessStays ==
  ASSUME QueueInd, [Next]_vars, KernelRuns', NEW t \in Procs, sys_exit => t # current
  PROVE  t \in Procs' /\ PID'[t] = PID[t]
<1>1. TypeOK /\ TypeOK' /\ Core /\ t \in Tasks /\ PID \in [Tasks -> Int]
  BY RunsBefore, NextTypeOK, ProcsLive DEF QueueInd, TypeOK, SchedTypeOK
<1>2. CASE Stays
  BY <1>2 DEF Stays
<1>3. ASSUME NEW new \in Tasks, Creates(new) \/ Abandons(new) PROVE t \in Procs' /\ PID'[t] = PID[t]
  BY <1>1, <1>3 DEF Creates, Abandons, WasFree, Created, Abandoned, CopyPCB
<1>4. CASE sys_exit
  BY <1>1, <1>4, ExitShape DEF Exits, ExitSwitches
<1>5. CASE ~sys_exit
  <2>1. CASE Exits
    \* A step that takes the running process away is an exit.
    <3>1. t # current => t \in Procs' /\ PID'[t] = PID[t]
      BY <1>1, <2>1 DEF Exits, ExitSwitches
    <3>2. sys_exit
      BY <2>1, RunsBefore DEF Exits, sys_exit, InUserProcess
    <3> QED
      BY <1>5, <3>2
  <2> QED
    BY <1>2, <1>3, <2>1, StepShape
<1> QED
  BY <1>4, <1>5

\* sem_init, sem_destroy, sem_signal and sem_wait keep the invariant.
LEMMA SemaphoreStepTable ==
  ASSUME QueueInd, SemaphoreInv, SemaphoreStep, KernelRuns'
  PROVE  WaitersInUse' /\ OneSlotPerName'
         /\ \A i \in Slots : semaphores'[i].state = "USED" =>
              \/ semaphores[i].state = "USED" /\ semaphores'[i].owner = semaphores[i].owner
              \/ semaphores'[i].owner = PID[current] /\ current # idle_task
<1>1. TypeOK /\ Core /\ Owners /\ WaitersInUse /\ OneSlotPerName
  BY RunsBefore, SemaphoreParts DEF QueueInd, Next
<1>2. semaphores \in [Slots -> SemEntries] /\ blockedQueue \in [Slots -> Seq(Tasks)]
  BY <1>1, SemTable
<1> DEFINE OwnersFollow ==
      \A i \in Slots : semaphores'[i].state = "USED" =>
        \/ semaphores[i].state = "USED" /\ semaphores'[i].owner = semaphores[i].owner
        \/ semaphores'[i].owner = PID[current] /\ current # idle_task
<1>3. ASSUME NEW n \in SemIds, NEW value \in SemValues, sys_sem_init(n, value)
      PROVE  WaitersInUse' /\ OneSlotPerName' /\ OwnersFollow
  <2> PICK i \in Slots :
        /\ semaphores' = [semaphores EXCEPT
             ![i] = [state |-> "USED", n_sem |-> n, owner |-> PID[current], counter |-> value]]
        /\ blockedQueue' = [blockedQueue EXCEPT ![i] = <<>>]
    BY <1>3 DEF sys_sem_init, KernelRuns
  <2>1. \A j \in Slots : ~Named(j, n)
    BY <1>3 DEF sys_sem_init
  <2>2. current # idle_task
    BY <1>3 DEF sys_sem_init, InUserProcess
  <2>3. WaitersInUse'
    BY <1>1, <1>2 DEF WaitersInUse
  <2>4. OneSlotPerName'
    BY <1>1, <1>2, <2>1 DEF OneSlotPerName, Named
  <2> QED
    BY <1>2, <2>2, <2>3, <2>4
<1>4. ASSUME NEW n \in SemIds, sys_sem_destroy(n)
      PROVE  WaitersInUse' /\ OneSlotPerName' /\ OwnersFollow
  <2> PICK i \in Slots :
        /\ semaphores' = [semaphores EXCEPT ![i] = Destroyed(@)]
        /\ blockedQueue' = [blockedQueue EXCEPT ![i] = <<>>]
    BY <1>4 DEF sys_sem_destroy
  <2>1. /\ semaphores'[i].state = "FREE" /\ blockedQueue'[i] = <<>>
        /\ \A j \in Slots \ {i} : semaphores'[j] = semaphores[j] /\ blockedQueue'[j] = blockedQueue[j]
    BY <1>2, DestroyedIsFree
  <2> QED
    BY <1>1, <2>1 DEF WaitersInUse, OneSlotPerName, Named
<1>5. ASSUME NEW n \in SemIds, sys_sem_signal(n)
      PROVE  WaitersInUse' /\ OneSlotPerName' /\ OwnersFollow
  <2> PICK i \in Slots : SignalCounts(i) \/ SignalWakes(i)
    BY <1>5 DEF sys_sem_signal
  <2>1. CASE SignalCounts(i)
    <3>1. /\ blockedQueue' = blockedQueue /\ blockedQueue[i] = <<>>
          /\ semaphores' = [semaphores EXCEPT ![i] = OneMore(@)]
      BY <2>1 DEF SignalCounts
    <3>2. \A j \in Slots : /\ semaphores'[j].state = semaphores[j].state
                           /\ semaphores'[j].n_sem = semaphores[j].n_sem
                           /\ semaphores'[j].owner = semaphores[j].owner
                           /\ j # i => semaphores'[j] = semaphores[j]
      BY <1>2, <3>1, CountedEntry
    <3> QED
      BY <1>1, <3>1, <3>2 DEF WaitersInUse, OneSlotPerName, Named
  <2>2. CASE SignalWakes(i)
    <3>1. /\ semaphores' = semaphores /\ blockedQueue[i] # <<>>
          /\ \A j \in Slots \ {i} : blockedQueue'[j] = blockedQueue[j]
      BY <1>2, <2>2 DEF SignalWakes
    <3> QED
      BY <1>1, <3>1 DEF WaitersInUse, OneSlotPerName, Named
  <2> QED
    BY <2>1, <2>2
<1>6. ASSUME NEW n \in SemIds, sys_sem_wait(n)
      PROVE  WaitersInUse' /\ OneSlotPerName' /\ OwnersFollow
  <2> PICK i \in Slots :
       /\ cerca_sem(n, i)
       /\ \/ /\ semaphores[i].counter <= 0 /\ semaphores' = semaphores
             /\ blockedQueue' = [blockedQueue EXCEPT ![i] = Append(@, current)]
          \/ /\ semaphores[i].counter > 0 /\ blockedQueue' = blockedQueue
             /\ semaphores' = [semaphores EXCEPT ![i] = OneLess(@)]
    BY <1>6 DEF sys_sem_wait
  <2>1. semaphores[i].state = "USED"
    BY DEF cerca_sem, Named
  <2>2. CASE /\ semaphores[i].counter <= 0 /\ semaphores' = semaphores
             /\ blockedQueue' = [blockedQueue EXCEPT ![i] = Append(@, current)]
    <3>1. \A j \in Slots \ {i} : blockedQueue'[j] = blockedQueue[j]
      BY <1>2, <2>2
    <3> QED
      BY <1>1, <2>1, <2>2, <3>1 DEF WaitersInUse, OneSlotPerName, Named
  <2>3. CASE /\ semaphores[i].counter > 0 /\ blockedQueue' = blockedQueue
             /\ semaphores' = [semaphores EXCEPT ![i] = OneLess(@)]
    <3>1. \A j \in Slots : /\ semaphores'[j].state = semaphores[j].state
                           /\ semaphores'[j].n_sem = semaphores[j].n_sem
                           /\ semaphores'[j].owner = semaphores[j].owner
                           /\ j # i => semaphores'[j] = semaphores[j]
      BY <1>2, <2>3, CountedEntry
    <3>2. blockedQueue[i] = <<>>
      <4>1. semaphores[i].counter \in Int
        BY <1>2 DEF SemEntries
      <4> QED
        BY <1>1, <2>3, <4>1 DEF WaitersInUse
    <3> QED
      BY <1>1, <2>3, <3>1, <3>2 DEF WaitersInUse, OneSlotPerName, Named
  <2> QED
    BY <2>2, <2>3
<1> QED
  BY <1>3, <1>4, <1>5, <1>6 DEF SemaphoreStep

\* Every step keeps the invariant: exit destroys what it owns, so what is left
\* in use has an owner that is left too.
LEMMA SemaphoresStep ==
  ASSUME QueueInd, SemaphoreInv, [Next]_vars
  PROVE  SemaphoreInv'
<1> SUFFICES ASSUME KernelRuns'
             PROVE  Owners' /\ WaitersInUse' /\ OneSlotPerName'
  BY SemaphoreParts DEF SemaphoreInv, Owners, WaitersInUse, OneSlotPerName
<1>1. TypeOK /\ Core /\ Owners /\ WaitersInUse /\ OneSlotPerName
  BY RunsBefore, SemaphoreParts DEF QueueInd
<1>2. semaphores \in [Slots -> SemEntries] /\ blockedQueue \in [Slots -> Seq(Tasks)]
  BY <1>1, SemTable
<1>3. ASSUME NEW p, \E t \in Procs \ {idle_task} : PID[t] = p, sys_exit => p # PID[current]
      PROVE  \E t \in Procs' \ {idle_task} : PID'[t] = p
  <2> PICK t \in Procs \ {idle_task} : PID[t] = p
    BY <1>3
  <2>1. t \in Procs' /\ PID'[t] = PID[t]
    BY <1>3, ProcessStays
  <2> QED
    BY <2>1
<1>4. CASE UNCHANGED <<semaphores, blockedQueue>> /\ ~sys_exit
  BY <1>1, <1>3, <1>4 DEF Owners, WaitersInUse, OneSlotPerName, Named
<1>5. CASE SemaphoreStep /\ ~sys_exit
  <2>1. /\ WaitersInUse' /\ OneSlotPerName'
        /\ \A i \in Slots : semaphores'[i].state = "USED" =>
              \/ semaphores[i].state = "USED" /\ semaphores'[i].owner = semaphores[i].owner
              \/ semaphores'[i].owner = PID[current] /\ current # idle_task
    BY <1>5, SemaphoreStepTable
  <2>2. current \in Procs
    BY <1>1, CoreFacts DEF Procs
  <2> QED
    BY <1>1, <1>3, <1>5, <2>1, <2>2 DEF Owners
<1>6. CASE sys_exit
  <2>1. /\ semaphores' = [i \in Slots |-> IF i \in Owned THEN Destroyed(semaphores[i]) ELSE semaphores[i]]
        /\ blockedQueue' = [i \in Slots |-> IF i \in Owned THEN <<>> ELSE blockedQueue[i]]
    BY <1>6 DEF sys_exit, ExitCorrupts, KernelRuns, ExitSwitches
  <2>2. \A i \in Slots : IF i \in Owned THEN semaphores'[i].state = "FREE" /\ blockedQueue'[i] = <<>>
                         ELSE semaphores'[i] = semaphores[i] /\ blockedQueue'[i] = blockedQueue[i]
    BY <1>2, <2>1, DestroyedIsFree
  <2>3. \A i \in Slots \ Owned : semaphores[i].owner # PID[current]
    BY DEF Owned
  <2>4. Owners'
    BY <1>1, <1>3, <2>2, <2>3 DEF Owners
  <2> QED
    BY <1>1, <2>2, <2>4 DEF WaitersInUse, OneSlotPerName, Named
<1> QED
  BY <1>4, <1>5, <1>6, TableSteps

\* In every reachable state of the running kernel the waiters of a semaphore
\* have an owner whose exit lets them go, units and waiters exclude each other
\* and a name is in one slot.
THEOREM SemaphoresConsistent == Spec => []SemaphoreInv
<1>1. Init => QueueInd /\ SemaphoreInv
  <2>1. Init => \A i \in Slots : semaphores[i].state = "FREE" /\ blockedQueue[i] = <<>>
    BY DEF Init, SemaphoresInit
  <2>2. Init => SemaphoreInv
    BY <2>1 DEF SemaphoreInv
  <2> QED
    BY <2>2, InitQueueInd
<1>2. QueueInd /\ SemaphoreInv /\ [Next]_vars => (QueueInd /\ SemaphoreInv)'
  BY NextQueueInd, SemaphoresStep
<1> QED
  BY <1>1, <1>2, PTL DEF Spec

-----------------------------------------------------------------------------
(* What a blocked sem_wait returns.                                        *)

\* Whoever waits at a semaphore would return 0 from sem_wait.
AnswersPending ==
  KernelRuns => \A i \in Slots : \A t \in Range(blockedQueue[i]) : sem_ret[t] = 0

\* A waiter leaves its queue in one of the two ways, and answers are written
\* only for those that leave and for the one that calls sem_wait.
LEMMA SemaphoreStepAnswers ==
  ASSUME QueueInd, AnswersPending, SemaphoreStep, KernelRuns'
  PROVE  WaitEnds /\ AnswersPending'
<1>1. TypeOK /\ Core /\ Rest
  BY RunsBefore DEF QueueInd, Next
<1>2. /\ semaphores \in [Slots -> SemEntries] /\ blockedQueue \in [Slots -> Seq(Tasks)]
      /\ sem_ret \in [Tasks -> {0, -1}]
  BY <1>1, SemTable DEF TypeOK, SemaphoresTypeOK
<1>3. \A i \in Slots : \A t \in Range(blockedQueue[i]) :
        t \in Tasks /\ sem_ret[t] = 0 /\ t # current /\ \A j \in Slots : t \in Range(blockedQueue[j]) => i = j
  BY <1>1, CoreFacts, FitsFacts, RunsBefore DEF AnswersPending, Next, Waits, Fits, OneWait
<1>4. ASSUME NEW n \in SemIds, NEW value \in SemValues, sys_sem_init(n, value)
      PROVE  WaitEnds /\ AnswersPending'
  <2> PICK i \in Slots : cerca_sem_lliure(i) /\ blockedQueue' = [blockedQueue EXCEPT ![i] = <<>>]
    BY <1>4 DEF sys_sem_init, KernelRuns
  <2>1. blockedQueue' = blockedQueue
    BY <1>1, <1>2 DEF cerca_sem_lliure, Rest, NobodyInFreeSlots
  <2> QED
    BY <1>3, <1>4, <2>1 DEF sys_sem_init, WaitEnds, AnswersPending
<1>5. ASSUME NEW n \in SemIds, sys_sem_destroy(n)
      PROVE  WaitEnds /\ AnswersPending'
  <2> PICK i \in Slots :
        /\ sem_ret' = FailedWait(Range(blockedQueue[i]))
        /\ semaphores' = [semaphores EXCEPT ![i] = Destroyed(@)]
        /\ blockedQueue' = [blockedQueue EXCEPT ![i] = <<>>]
    BY <1>5 DEF sys_sem_destroy
  <2>1. /\ semaphores'[i].state = "FREE" /\ blockedQueue'[i] = <<>>
        /\ \A j \in Slots \ {i} : blockedQueue'[j] = blockedQueue[j]
    BY <1>2, DestroyedIsFree
  <2>2. \A t \in Tasks : sem_ret'[t] = IF t \in Range(blockedQueue[i]) THEN -1 ELSE sem_ret[t]
    BY DEF FailedWait
  <2>3. WaitEnds
    BY <2>1, <2>2 DEF WaitEnds
  <2>4. AnswersPending'
    BY <1>3, <2>1, <2>2, EmptyQueue DEF AnswersPending
  <2> QED
    BY <2>3, <2>4
<1>6. ASSUME NEW n \in SemIds, sys_sem_signal(n)
      PROVE  WaitEnds /\ AnswersPending'
  <2> PICK i \in Slots : cerca_sem(n, i) /\ (SignalCounts(i) \/ SignalWakes(i))
    BY <1>6 DEF sys_sem_signal
  <2>1. sem_ret' = sem_ret
    BY <1>6 DEF sys_sem_signal
  <2>2. CASE SignalCounts(i)
    BY <1>3, <2>1, <2>2 DEF SignalCounts, WaitEnds, AnswersPending
  <2>3. CASE SignalWakes(i)
    <3>1. /\ semaphores' = semaphores /\ blockedQueue[i] # <<>>
          /\ blockedQueue'[i] = Tail(blockedQueue[i])
          /\ \A j \in Slots \ {i} : blockedQueue'[j] = blockedQueue[j]
      BY <1>2, <2>3 DEF SignalWakes
    <3>2. /\ Range(Tail(blockedQueue[i])) = Range(blockedQueue[i]) \ {Head(blockedQueue[i])}
          /\ Head(blockedQueue[i]) \in Range(blockedQueue[i])
      BY <1>1, <1>2, <3>1, CoreFacts, TailQueue DEF Fits, NoDuplicates
    <3>3. semaphores'[i].state = "USED"
      BY <3>1 DEF cerca_sem, Named
    <3>4. WaitEnds
      BY <1>3, <2>1, <3>1, <3>2, <3>3 DEF WaitEnds
    <3> QED
      BY <1>3, <2>1, <3>1, <3>2, <3>4 DEF AnswersPending
  <2> QED
    BY <2>2, <2>3
<1>7. ASSUME NEW n \in SemIds, sys_sem_wait(n)
      PROVE  WaitEnds /\ AnswersPending'
  <2> PICK i \in Slots :
        \/ blockedQueue' = blockedQueue
        \/ blockedQueue' = [blockedQueue EXCEPT ![i] = Append(@, current)]
    BY <1>7 DEF sys_sem_wait
  <2>1. sem_ret' = [sem_ret EXCEPT ![current] = 0] /\ current \in Tasks
    BY <1>1, <1>7, CoreFacts DEF sys_sem_wait
  <2>2. Range(Append(blockedQueue[i], current)) = Range(blockedQueue[i]) \cup {current}
    BY <1>1, <1>2, CoreFacts, AppendQueue
  <2>3. \A j \in Slots : \/ Range(blockedQueue'[j]) = Range(blockedQueue[j])
                         \/ Range(blockedQueue'[j]) = Range(blockedQueue[j]) \cup {current}
    BY <1>2, <2>2
  <2>4. WaitEnds
    BY <2>3 DEF WaitEnds
  <2>5. \A t \in Tasks : sem_ret'[t] = IF t = current THEN 0 ELSE sem_ret[t]
    BY <1>2, <2>1
  <2>6. \A j \in Slots : \A t \in Range(blockedQueue'[j]) :
          t = current \/ (t \in Tasks /\ sem_ret[t] = 0)
    BY <1>3, <2>3
  <2> QED
    BY <2>1, <2>4, <2>5, <2>6 DEF AnswersPending
<1> QED
  BY <1>4, <1>5, <1>6, <1>7 DEF SemaphoreStep

\* The same for the waiters exit lets go.
LEMMA ExitAnswers ==
  ASSUME QueueInd, AnswersPending, sys_exit, KernelRuns'
  PROVE  WaitEnds /\ AnswersPending'
<1>1. TypeOK /\ Core /\ ExitSwitches /\ KernelRuns
  BY DEF QueueInd, sys_exit, InUserProcess, ExitCorrupts, KernelRuns
<1>2. semaphores \in [Slots -> SemEntries] /\ blockedQueue \in [Slots -> Seq(Tasks)]
  BY <1>1, SemTable
<1>3. \A i \in Slots : \A t \in Range(blockedQueue[i]) :
        t \in Tasks /\ sem_ret[t] = 0 /\ \A j \in Slots : t \in Range(blockedQueue[j]) => i = j
  <2>1. \A i \in Slots : Range(blockedQueue[i]) \subseteq Tasks
    BY <1>1, CoreFacts, FitsFacts
  <2>2. OneWait(keyboardqueue, blockedQueue)
    BY <1>1, CoreFacts DEF Fits
  <2> QED
    BY <1>1, <2>1, <2>2 DEF AnswersPending, OneWait
<1>4. \A i \in Slots :
        IF i \in Owned THEN semaphores'[i].state = "FREE" /\ blockedQueue'[i] = <<>>
                       ELSE blockedQueue'[i] = blockedQueue[i]
  BY <1>1, <1>2, DestroyedIsFree DEF ExitSwitches
<1>5. \A t \in Tasks : sem_ret'[t] = IF t \in Woken THEN -1 ELSE sem_ret[t]
  BY <1>1 DEF ExitSwitches, FailedWait
<1>6. \A i \in Slots : \A t \in Range(blockedQueue[i]) : t \in Woken <=> i \in Owned
  BY <1>3 DEF Woken, Owned
<1>7. WaitEnds
  BY <1>4, <1>5, <1>6 DEF WaitEnds
<1>8. AnswersPending'
  BY <1>3, <1>4, <1>5, <1>6, EmptyQueue DEF AnswersPending
<1> QED
  BY <1>7, <1>8

\* Nobody else touches the queues of the semaphores or their waiters' answers.
LEMMA AnswersStep ==
  ASSUME QueueInd, AnswersPending, [Next]_vars
  PROVE  WaitEnds /\ AnswersPending'
<1> SUFFICES ASSUME KernelRuns' PROVE WaitEnds /\ AnswersPending'
  BY DEF WaitEnds, AnswersPending, KernelRuns
<1>1. TypeOK /\ Core /\ Rest
  BY RunsBefore DEF QueueInd
<1>2. CASE UNCHANGED <<blockedQueue, sem_ret>>
  BY <1>2, RunsBefore DEF WaitEnds, AnswersPending
<1>3. CASE sys_fork \/ sys_clone
  <2>1. TakePCB(FirstFree) /\ (Created(FirstFree) \/ Abandoned(FirstFree))
    BY <1>3 DEF sys_fork, sys_clone, CreateFaults, KernelRuns
  <2>2. /\ blockedQueue' = blockedQueue /\ FirstFree \in Tasks /\ PID[FirstFree] = -1
        /\ sem_ret' = [sem_ret EXCEPT ![FirstFree] = sem_ret[current]]
    BY <1>1, <2>1, TakenPCB DEF Rest, Created, Abandoned, CopyPCB
  <2>3. \A i \in Slots : \A t \in Range(blockedQueue[i]) : t \in Tasks /\ PID[t] # -1
    BY <1>1, CoreFacts, FitsFacts DEF Fits, InPlace, Waits
  <2>4. sem_ret \in [Tasks -> {0, -1}]
    BY <1>1 DEF TypeOK, SemaphoresTypeOK
  <2>5. \A i \in Slots : \A t \in Range(blockedQueue[i]) : sem_ret'[t] = sem_ret[t]
    BY <2>2, <2>3, <2>4
  <2> QED
    BY <2>2, <2>5, RunsBefore DEF WaitEnds, AnswersPending
<1> QED
  BY <1>2, <1>3, SemaphoreStepAnswers, ExitAnswers DEF Next, SchedStep, NiceStep, semVars, vars

\* A process leaves a semaphore's queue in its turn and with 0, or with all the
\* others and with -1 because the semaphore was destroyed.
THEOREM WaitersAnswered == Spec => WaitAnswers
<1>1. Init => QueueInd /\ AnswersPending
  <2>1. Init => \A i \in Slots : blockedQueue[i] = <<>>
    BY DEF Init, SemaphoresInit
  <2> QED
    BY <2>1, InitQueueInd, EmptyQueue DEF AnswersPending
<1>2. QueueInd /\ AnswersPending /\ [Next]_vars => (QueueInd /\ AnswersPending)'
  BY NextQueueInd, AnswersStep
<1>3. QueueInd /\ AnswersPending /\ [Next]_vars => [WaitEnds]_vars
  BY AnswersStep
<1> QED
  BY <1>1, <1>2, <1>3, PTL DEF Spec, WaitAnswers

-----------------------------------------------------------------------------
(* Readers.                                                                *)

\* A reader sleeps in the keyboard queue, or is ready with its keys there.
KeysFit(rq, kq, mk, b) ==
  /\ \A t \in Tasks : mk[t] # -1 => t \in Range(kq) \/ (t \in Range(rq) /\ EnoughKeys(b, mk[t]))
  /\ \A t \in Range(kq) : mk[t] # -1

\* As long as the kernel runs nobody has taken a key out of the buffer: the
\* first one that is taken ends it.
ReadersInd ==
  KernelRuns => /\ keyboardBuff.readPos = 0
                /\ KeysFit(readyqueue, keyboardqueue, missingKeys, keyboardBuff)

\* Keys that are there stay there when another one arrives.
LEMMA KeysStay ==
  ASSUME NEW b \in CirBuffers, b.readPos = 0, NEW n \in Int, EnoughKeys(b, n)
  PROVE  EnoughKeys(cirBuffWrite(b), n)
<1> USE CirBufferAssumption
<1>1. /\ b.writePos \in 0 .. CIRBUFFER_SIZE - 1 /\ b.full \in BOOLEAN
      /\ b = [writePos |-> b.writePos, readPos |-> 0, full |-> b.full]
  BY DEF CirBuffers
<1>2. CASE b.full
  BY <1>2 DEF cirBuffWrite
<1>3. CASE ~b.full
  <2> DEFINE w == Wrapped(b.writePos + 1)
  <2>1. /\ cirBuffWrite(b).writePos = w /\ cirBuffWrite(b).readPos = 0
        /\ cirBuffWrite(b).full = (w = 0)
    BY <1>1, <1>3 DEF cirBuffWrite
  <2>2. w = 0 \/ w = b.writePos + 1
    BY DEF Wrapped
  <2>3. cirBuffLenght(b) = b.writePos
    BY <1>1, <1>3 DEF cirBuffLenght
  <2>4. w # 0 => cirBuffLenght(cirBuffWrite(b)) = b.writePos + 1
    BY <1>1, <2>1, <2>2 DEF cirBuffLenght
  <2>5. b.writePos >= n
    BY <1>3, <2>3 DEF EnoughKeys, cirBuffFull
  <2> HIDE DEF w
  <2>6. CASE w = 0
    <3>1. cirBuffFull(cirBuffWrite(b))
      BY <2>1, <2>6 DEF cirBuffFull
    <3> QED
      BY <3>1 DEF EnoughKeys
  <2>7. CASE w # 0
    <3>1. cirBuffLenght(cirBuffWrite(b)) >= n
      BY <1>1, <2>4, <2>5, <2>7
    <3> QED
      BY <3>1 DEF EnoughKeys
  <2> QED
    BY <2>6, <2>7
<1> QED
  BY <1>1, <1>2, <1>3

\* The process a switch takes from the ready queue is no reader that still
\* waits: the kernel goes on only if it wanted no keys.
LEMMA DispatchKeys ==
  ASSUME NEW rq \in Seq(Tasks), NEW kq, NEW st, NEW mk \in [Tasks -> Nat \cup {-1}],
         IsInjective(rq), Range(rq) \cap Range(kq) = {}, idle_task \notin Range(kq),
         KeysFit(rq, kq, mk, keyboardBuff), Dispatch(rq, st, mk), KernelRuns'
  PROVE  keyboardBuff' = keyboardBuff /\ KeysFit(readyqueue', kq, missingKeys', keyboardBuff)
<1> DEFINE next == NextTask(rq)
<1>1. /\ sched_next_rr(rq, st) /\ ~(mk[next] > 0)
      /\ missingKeys' = IF mk[next] = 0 THEN [mk EXCEPT ![next] = -1] ELSE mk
      /\ keyboardBuff' = keyboardBuff
  BY DEF Dispatch, KernelRuns
<1>2. next \in Tasks /\ next \notin Range(kq) /\ Range(readyqueue') = Range(rq) \ {next}
  <2>1. CASE rq = <<>>
    BY <1>1, <2>1, SpecialTasks, EmptyQueue DEF NextTask, sched_next_rr
  <2>2. CASE rq # <<>>
    BY <1>1, <2>2, TailQueue DEF NextTask, sched_next_rr
  <2> QED
    BY <2>1, <2>2
<1> HIDE DEF next
<1>3. \A t \in Tasks : missingKeys'[t] = IF t = next THEN -1 ELSE mk[t]
  BY <1>1, <1>2
<1>4. \A t \in Range(kq) : mk[t] # -1 /\ missingKeys'[t] # -1
  BY <1>1, <1>2 DEF KeysFit
<1> QED
  BY <1>1, <1>2, <1>3, <1>4 DEF KeysFit

\* Nobody in the ready queue waits for keys, and idle never does.
LEMMA ReadyAndReaders ==
  ASSUME Core
  PROVE  /\ readyqueue \in Seq(Tasks) /\ IsInjective(readyqueue)
         /\ Range(readyqueue) \cap Range(keyboardqueue) = {}
         /\ idle_task \notin Range(keyboardqueue) /\ current \notin Range(keyboardqueue)
         /\ Range(keyboardqueue) \subseteq Tasks
<1>1. /\ Fits(readyqueue, keyboardqueue, blockedQueue, estado, PID)
      /\ Range(readyqueue) \subseteq Tasks /\ Range(keyboardqueue) \subseteq Tasks
      /\ readyqueue \in Seq(Tasks)
  BY CoreFacts, FitsFacts
<1>2. \A t \in Range(keyboardqueue) : t \in Tasks /\ Waits(t, keyboardqueue, blockedQueue)
  BY <1>1 DEF Waits
<1> QED
  BY <1>1, <1>2, CoreFacts DEF Fits, InPlace, NoDuplicates

\* A clock interrupt, a key or a read leaves every reader in the queue or with
\* its keys.
LEMMA SchedStepReaders ==
  ASSUME TypeOK, Core, SchedStep, KernelRuns', ReadersInd, KernelRuns
  PROVE  ReadersInd'
<1>1. /\ keyboardBuff.readPos = 0 /\ keyboardBuff \in CirBuffers
      /\ KeysFit(readyqueue, keyboardqueue, missingKeys, keyboardBuff)
      /\ missingKeys \in [Tasks -> Nat \cup {-1}] /\ current \in Tasks
  BY CoreFacts DEF ReadersInd, TypeOK, KeyboardTypeOK, CirBuffers
<1>2. ASSUME Clock PROVE ReadersInd'
  <2>1. CASE ClockTick \/ ClockRenew
    BY <1>1, <1>2, <2>1 DEF Clock, ClockTick, ClockRenew, ReadersInd
  <2>2. CASE ClockSwitch
    <3> DEFINE rq == Append(readyqueue, current)
    <3>1. /\ rq \in Seq(Tasks) /\ Range(rq) = Range(readyqueue) \cup {current} /\ IsInjective(rq)
          /\ Range(rq) \cap Range(keyboardqueue) = {}
      BY CoreFacts, ReadyAndReaders, AppendQueue
    <3>2. Dispatch(rq, exitRunCurrent("READY"), missingKeys) /\ keyboardqueue' = keyboardqueue
      BY <1>2, <2>2 DEF Clock, ClockSwitch
    <3> HIDE DEF rq
    <3>3. KeysFit(rq, keyboardqueue, missingKeys, keyboardBuff)
      BY <1>1, <3>1 DEF KeysFit
    <3> QED
      BY <1>1, <3>1, <3>2, <3>3, ReadyAndReaders, DispatchKeys DEF ReadersInd
  <2> QED
    BY <1>2, <2>1, <2>2 DEF Clock
<1>3. ASSUME Key PROVE ReadersInd'
  <2>1. keyboardBuff' = cirBuffWrite(keyboardBuff) /\ missingKeys' = missingKeys
    BY <1>3 DEF Key
  <2>2. keyboardBuff'.readPos = 0
    BY <1>1, <2>1 DEF cirBuffWrite, CirBuffers
  <2>3. \A t \in Tasks : EnoughKeys(keyboardBuff, missingKeys[t]) => EnoughKeys(keyboardBuff', missingKeys[t])
    <3>1. \A t \in Tasks : missingKeys[t] \in Int
      BY <1>1
    <3> QED
      BY <1>1, <2>1, <3>1, KeysStay
  <2>4. CASE KeyWakes(keyboardBuff')
    <3>1. /\ keyboardqueue # <<>> /\ keyboardqueue' = Tail(keyboardqueue)
          /\ readyqueue' = Append(readyqueue, Head(keyboardqueue))
          /\ EnoughKeys(keyboardBuff', missingKeys[Head(keyboardqueue)])
      BY <1>3, <2>4 DEF Key, KeyWakes, FirstReader
    <3>2. /\ Range(Tail(keyboardqueue)) = Range(keyboardqueue) \ {Head(keyboardqueue)}
          /\ Head(keyboardqueue) \in Tasks
      BY <3>1, CoreFacts, FitsFacts, TailQueue DEF Fits, NoDuplicates
    <3>3. Range(readyqueue') = Range(readyqueue) \cup {Head(keyboardqueue)}
      BY <3>1, <3>2, ReadyAndReaders, AppendQueue
    <3> QED
      BY <1>1, <2>1, <2>2, <2>3, <3>1, <3>2, <3>3 DEF ReadersInd, KeysFit
  <2>5. CASE ~KeyWakes(keyboardBuff')
    BY <1>1, <1>3, <2>1, <2>2, <2>3, <2>5 DEF Key, ReadersInd, KeysFit
  <2> QED
    BY <2>4, <2>5
<1>4. ASSUME NEW n \in ReadSizes, Read(n) PROVE ReadersInd'
  <2> DEFINE kq == Append(keyboardqueue, current)
             mk == [missingKeys EXCEPT ![current] = n]
  <2>1. ~ReadAtOnce(n)
    BY DEF ReadAtOnce, KernelRuns
  <2>2. /\ keyboardqueue' = kq /\ \E st : Dispatch(readyqueue, st, mk) /\ current # idle_task
    <3>1. keyboardqueue = <<>> => kq = <<current>> \o keyboardqueue
      BY <1>1
    <3> QED
      BY <1>4, <2>1, <3>1 DEF Read, ReadBehindOthers, ReadBlocks, InUserProcess
  <2>3. Range(kq) = Range(keyboardqueue) \cup {current} /\ n \in Nat
    BY CoreFacts, FitsFacts, AppendQueue, InterruptsAssumption
  <2> HIDE DEF kq
  <2>4. KeysFit(readyqueue, kq, mk, keyboardBuff) /\ mk \in [Tasks -> Nat \cup {-1}]
    BY <1>1, <2>3, ReadyAndReaders DEF KeysFit
  <2> HIDE DEF mk
  <2>5. Range(readyqueue) \cap Range(kq) = {} /\ idle_task \notin Range(kq)
    BY <2>2, <2>3, CoreFacts, ReadyAndReaders
  <2>6. keyboardBuff' = keyboardBuff /\ KeysFit(readyqueue', kq, missingKeys', keyboardBuff)
    BY <2>2, <2>4, <2>5, ReadyAndReaders, DispatchKeys
  <2> QED
    BY <1>1, <2>2, <2>6 DEF ReadersInd
<1> QED
  BY <1>2, <1>3, <1>4 DEF SchedStep

\* The other steps take no reader out of its queue, and whoever they switch to
\* or copy has nothing left to read.
LEMMA ReadersStep ==
  ASSUME QueueInd, ReadersInd, [Next]_vars
  PROVE  ReadersInd'
<1> SUFFICES ASSUME KernelRuns'
             PROVE  /\ keyboardBuff'.readPos = 0
                    /\ KeysFit(readyqueue', keyboardqueue', missingKeys', keyboardBuff')
  BY DEF ReadersInd
<1>1. TypeOK /\ Core /\ Rest /\ KernelRuns
  BY RunsBefore DEF QueueInd
<1>2. /\ keyboardBuff.readPos = 0 /\ current \in Tasks
      /\ KeysFit(readyqueue, keyboardqueue, missingKeys, keyboardBuff)
      /\ missingKeys \in [Tasks -> Nat \cup {-1}]
  BY <1>1, CoreFacts DEF ReadersInd, TypeOK, KeyboardTypeOK
<1>3. CASE SchedStep
  BY <1>1, <1>3, SchedStepReaders DEF ReadersInd
<1>4. ASSUME UNCHANGED kbVars, Range(readyqueue) \subseteq Range(readyqueue')
      PROVE  /\ keyboardBuff'.readPos = 0
             /\ KeysFit(readyqueue', keyboardqueue', missingKeys', keyboardBuff')
  BY <1>2, <1>4 DEF kbVars, KeysFit
<1>5. CASE SemaphoreStep
  <2> USE SemTable
  <2>1. ASSUME NEW n \in SemIds, NEW value \in SemValues, sys_sem_init(n, value)
        PROVE  UNCHANGED kbVars /\ Range(readyqueue) \subseteq Range(readyqueue')
    BY <2>1 DEF sys_sem_init
  <2>2. ASSUME NEW n \in SemIds, sys_sem_destroy(n)
        PROVE  UNCHANGED kbVars /\ Range(readyqueue) \subseteq Range(readyqueue')
    BY <1>1, <2>2, ReadyAndReaders, ConcatQueue DEF sys_sem_destroy
  <2>3. ASSUME NEW n \in SemIds, sys_sem_signal(n)
        PROVE  UNCHANGED kbVars /\ Range(readyqueue) \subseteq Range(readyqueue')
    <3> PICK i \in Slots : SignalCounts(i) \/ SignalWakes(i)
      BY <2>3 DEF sys_sem_signal
    <3>1. blockedQueue[i] # <<>> => Head(blockedQueue[i]) \in Tasks
      BY <1>1, HeadTail
    <3>2. \/ readyqueue' = readyqueue
          \/ readyqueue' = Append(readyqueue, Head(blockedQueue[i])) /\ Head(blockedQueue[i]) \in Tasks
      BY <3>1 DEF SignalCounts, SignalWakes, WithWoken
    <3>3. Range(readyqueue) \subseteq Range(readyqueue')
      BY <1>1, <3>2, ReadyAndReaders, AppendQueue
    <3> QED
      BY <2>3, <3>3 DEF sys_sem_signal
  <2>4. ASSUME NEW n \in SemIds, sys_sem_wait(n)
        PROVE  /\ keyboardBuff'.readPos = 0
               /\ KeysFit(readyqueue', keyboardqueue', missingKeys', keyboardBuff')
    <3>1. CASE UNCHANGED <<readyqueue, missingKeys, keyboardBuff>>
      BY <1>2, <2>4, <3>1 DEF sys_sem_wait
    <3>2. CASE \E st : Dispatch(readyqueue, st, missingKeys)
      BY <1>1, <1>2, <2>4, <3>2, ReadyAndReaders, DispatchKeys DEF sys_sem_wait
    <3> QED
      BY <2>4, <3>1, <3>2 DEF sys_sem_wait
  <2> QED
    BY <1>4, <1>5, <2>1, <2>2, <2>3, <2>4 DEF SemaphoreStep
<1>6. CASE sys_fork \/ sys_clone
  <2> DEFINE new == FirstFree
  <2>1. TakePCB(new) /\ (Created(new) \/ Abandoned(new))
    BY <1>6 DEF sys_fork, sys_clone, CreateFaults, KernelRuns
  <2>2. /\ new \in Tasks \ Procs /\ Unlinked(readyqueue, new) = readyqueue
        /\ keyboardqueue' = keyboardqueue /\ keyboardBuff' = keyboardBuff
    BY <1>1, <2>1, TakenPCB DEF Rest, Created, Abandoned, CopyPCB
  <2> HIDE DEF new
  <2>3. Range(readyqueue) \subseteq Range(readyqueue')
    BY <1>1, <2>1, <2>2, ReadyAndReaders, AppendQueue DEF Created, Abandoned
  <2>4. missingKeys[current] = -1
    BY <1>1, <1>2, CoreFacts, ReadyAndReaders DEF KeysFit
  <2>5. \A t \in Tasks : missingKeys'[t] = IF t = new THEN -1 ELSE missingKeys[t]
    BY <1>2, <2>1, <2>4 DEF Created, Abandoned, CopyPCB
  <2>6. \A t \in Range(keyboardqueue) : t # new /\ t \in Tasks
    BY <1>1, <2>2, ReadyAndReaders DEF Procs, InSomeQueue
  <2> QED
    BY <1>2, <2>2, <2>3, <2>5, <2>6 DEF KeysFit
<1>7. CASE sys_exit
  <2>1. ExitSwitches /\ keyboardqueue' = keyboardqueue
    BY <1>7 DEF sys_exit, ExitCorrupts, KernelRuns, ExitSwitches
  <2>2. PICK rq \in Seq(Tasks) :
          /\ IsInjective(rq) /\ Range(rq) = Range(readyqueue) \cup Woken
          /\ \E st : Dispatch(rq, st, missingKeys)
    BY <1>1, <2>1, ExitDispatch
  <2>3. Woken \cap Range(keyboardqueue) = {}
    BY <1>1, CoreFacts DEF Woken, Owned, Fits, OneWait
  <2>4. KeysFit(rq, keyboardqueue, missingKeys, keyboardBuff)
    BY <1>2, <2>2 DEF KeysFit
  <2> QED
    BY <1>1, <1>2, <2>1, <2>2, <2>3, <2>4, ReadyAndReaders, DispatchKeys
<1> QED
  BY <1>3, <1>4, <1>5, <1>6, <1>7 DEF Next, NiceStep, Nice, vars, schedVars

\* keyboard_rutine wakes a reader only when its keys are there, and they are
\* still there when it runs; everybody who sleeps in a read is in the keyboard
\* queue or on its way back.
THEOREM ReadersFindTheirKeys == Spec => []ReadersWokenWithKeys
<1>1. Init => QueueInd /\ ReadersInd
  <2>1. Init => ReadersInd
    BY EmptyQueue DEF Init, KeyboardInit, ReadersInd, KeysFit
  <2> QED
    BY <2>1, InitQueueInd
<1>2. QueueInd /\ ReadersInd /\ [Next]_vars => (QueueInd /\ ReadersInd)'
  BY NextQueueInd, ReadersStep
<1>3. ReadersInd => ReadersWokenWithKeys
  BY DEF ReadersInd, KeysFit, ReadersWokenWithKeys
<1> QED
  BY <1>1, <1>2, <1>3, PTL DEF Spec

-----------------------------------------------------------------------------
(* Turns.                                                                  *)

\* The quanta processes can have.
GivenQuanta == Quanta \cup {DEFAULT_QUANTUM}

\* A turn is loaded from the quantum of the process that gives up the CPU: that
\* of every PCB in use counts, also of a copy a failed fork left.
TurnInd ==
  KernelRuns =>
    /\ \A t \in Tasks : PID[t] # -1 => quantum[t] \in GivenQuanta
    /\ qLeft >= 1 /\ \E q \in GivenQuanta : qLeft <= q

\* What a step does to the turn: nothing, one tick, or a new one.
LEMMA TurnSteps ==
  ASSUME QueueInd, [Next]_vars, KernelRuns'
  PROVE  \/ qLeft' = qLeft
         \/ qLeft' = quantum[current]
         \/ qLeft - 1 # 0 /\ qLeft' = qLeft - 1
<1> DEFINE Turn == \/ qLeft' = qLeft
                   \/ qLeft' = quantum[current]
                   \/ qLeft - 1 # 0 /\ qLeft' = qLeft - 1
<1>1. ASSUME NEW rq, NEW st, sched_next_rr(rq, st) PROVE Turn
  BY <1>1 DEF sched_next_rr, get_quantum
<1>2. CASE SchedStep
  BY <1>1, <1>2 DEF SchedStep, Clock, ClockTick, ClockRenew, ClockSwitch, TurnGoesOn, get_quantum,
                    Key, Read, ReadBehindOthers, ReadAtOnce, ReadBlocks, Dispatch
<1>3. CASE SemaphoreStep
  BY <1>1, <1>3 DEF SemaphoreStep, sys_sem_init, sys_sem_destroy, sys_sem_signal, sys_sem_wait, Dispatch
<1>4. CASE sys_fork \/ sys_clone
  BY <1>4 DEF sys_fork, sys_clone, CreateFaults, KernelRuns, Created, Abandoned, CopyPCB
<1>5. CASE sys_exit
  <2>1. \E rq, st : sched_next_rr(rq, st)
    <3>1. PICK n \in 0 .. NR_TASKS : \E w \in [1 .. n -> Woken] :
            Dispatch(readyqueue \o w, Released(exitRunCurrent("BLOCKED"), Woken), missingKeys)
      BY <1>5 DEF sys_exit, ExitCorrupts, KernelRuns, ExitSwitches
    <3> QED
      BY <3>1 DEF Dispatch
  <2> QED
    BY <1>1, <2>1
<1> QED
  BY <1>2, <1>3, <1>4, <1>5 DEF Next, NiceStep, Nice, vars, schedVars

\* What a step does to the quanta of the PCBs in use.
LEMMA QuantumSteps ==
  ASSUME QueueInd, [Next]_vars, KernelRuns', \A t \in Tasks : PID[t] # -1 => quantum[t] \in GivenQuanta
  PROVE  \A t \in Tasks : PID'[t] # -1 => quantum'[t] \in GivenQuanta
<1>1. TypeOK /\ Core /\ Rest
  BY RunsBefore DEF QueueInd
<1>2. PID \in [Tasks -> Int] /\ quantum \in [Tasks -> Int] /\ current \in Tasks /\ PID[current] # -1
  BY <1>1, CoreFacts DEF TypeOK, SchedTypeOK
<1>3. CASE NiceStep
  BY <1>2, <1>3 DEF NiceStep, Nice, GivenQuanta
<1>4. CASE sys_fork \/ sys_clone
  <2>1. TakePCB(FirstFree) /\ (Created(FirstFree) \/ Abandoned(FirstFree))
    BY <1>4 DEF sys_fork, sys_clone, CreateFaults, KernelRuns
  <2>2. FirstFree \in Tasks
    BY <1>1, <2>1, TakenPCB DEF Rest
  <2>3. PICK p : PID' = [PID EXCEPT ![FirstFree] = p] /\ quantum' = [quantum EXCEPT ![FirstFree] = quantum[current]]
    BY <2>1 DEF Created, Abandoned, CopyPCB
  <2> QED
    BY <1>2, <2>2, <2>3
<1>5. CASE sys_exit
  <2>1. PID' = [PID EXCEPT ![current] = -1] /\ quantum' = quantum
    BY <1>5 DEF sys_exit, ExitCorrupts, KernelRuns, ExitSwitches
  <2> QED
    BY <1>2, <2>1
<1>6. CASE UNCHANGED <<PID, quantum>>
  BY <1>6
<1> QED
  BY <1>3, <1>4, <1>5, <1>6 DEF Next, SchedStep, Clock, Key, Read, SemaphoreStep, sys_sem_init,
    sys_sem_destroy, sys_sem_signal, sys_sem_wait, vars, schedVars

\* When no process sets its quantum to 0 or below, a turn has at least one tick
\* left between two handlers, and never more than some process asked for: the
\* test for 0 in needs_sched_rr cannot miss its end.
THEOREM TurnsEnd ==
  ASSUME \A q \in Quanta : q > 0
  PROVE  Spec => []TurnBounded
<1>1. \A q \in GivenQuanta : q \in Int /\ q >= 1
  BY Constants DEF GivenQuanta
<1>2. Init => QueueInd /\ TurnInd
  <2>1. Init => TurnInd
    BY Constants DEF Init, SchedInit, TurnInd, GivenQuanta
  <2> QED
    BY <2>1, InitQueueInd
<1>3. QueueInd /\ TurnInd /\ [Next]_vars => TurnInd'
  <2> SUFFICES ASSUME QueueInd, TurnInd, [Next]_vars, KernelRuns' PROVE TurnInd'
    BY DEF TurnInd, KernelRuns
  <2>1. TypeOK /\ Core /\ KernelRuns /\ qLeft \in Int
    BY RunsBefore DEF QueueInd, TypeOK, SchedTypeOK
  <2>2. \A t \in Tasks : PID[t] # -1 => quantum[t] \in GivenQuanta
    BY <2>1 DEF TurnInd
  <2>3. qLeft >= 1 /\ \E q \in GivenQuanta : qLeft <= q
    BY <2>1 DEF TurnInd
  <2>4. quantum[current] \in GivenQuanta
    BY <2>1, <2>2, CoreFacts
  <2>5. qLeft' >= 1 /\ \E q \in GivenQuanta : qLeft' <= q
    <3>1. CASE qLeft' = quantum[current]
      BY <1>1, <2>4, <3>1
    <3>2. CASE qLeft' = qLeft \/ (qLeft - 1 # 0 /\ qLeft' = qLeft - 1)
      <4> PICK q \in GivenQuanta : qLeft <= q
        BY <2>3
      <4>1. qLeft' >= 1 /\ qLeft' <= q
        BY <1>1, <2>1, <2>3, <3>2
      <4> QED
        BY <4>1
    <3> QED
      BY <3>1, <3>2, TurnSteps
  <2> QED
    BY <2>2, <2>5, QuantumSteps DEF TurnInd
<1>4. TurnInd => TurnBounded
  BY DEF TurnInd, TurnBounded, GivenQuanta
<1> QED
  BY <1>2, <1>3, <1>4, NextQueueInd, PTL DEF Spec

-----------------------------------------------------------------------------
(***************************************************************************)
(* What fork, clone and exit do to frames and directories.  That a failed  *)
(* fork loses no frame and that processes are isolated is proved without a *)
(* condition; the rest, for a machine with memory for a process per        *)
(* directory, MemorySuffices: the one the code is built for has it.        *)
(***************************************************************************)

\* The code's constants: 256 + 2 * (8 + 14 * 20) <= 1024, mm_address.h:6-12 and
\* sched.h:16.  Directory 0 is idle's and maps no data.
MemorySuffices ==
  NUM_PAG_KERNEL + 2 * (NUM_PAG_CODE + (NR_TASKS - 1) * NUM_PAG_DATA) <= TOTAL_PAGES

-----------------------------------------------------------------------------
(* The fork that fails.                                                    *)

\* free_frame gives back frames behind NUM_PAG_KERNEL only; that one is the
\* first code page's, and never free.
FirstCodeFrame == NUM_PAG_KERNEL \in phys_mem

\* The frames a fork took and gave back are the ones that were free.
LEMMA RevertsAll ==
  ASSUME TypeOK, FirstCodeFrame
  PROVE  RevertedFrames(FreeFrames) = phys_mem
<1>1. \A f \in FreeFrames : f \in Int /\ f # NUM_PAG_KERNEL /\ f >= NUM_PAG_KERNEL /\ f < TOTAL_PAGES
  BY Constants DEF FreeFrames, Allocatable, FirstCodeFrame
<1>2. {f \in FreeFrames : f > NUM_PAG_KERNEL /\ f < TOTAL_PAGES} = FreeFrames
  BY <1>1, Constants
<1>3. FreeFrames \cap phys_mem = {}
  BY DEF FreeFrames
<1> QED
  BY <1>2, <1>3 DEF RevertedFrames, free_frames

\* Every step leaves memory alone or does one of the five things to it.
LEMMA MemorySteps ==
  ASSUME [Next]_vars
  PROVE  \/ UNCHANGED phys_mem
         \/ \E new : ForkMemory(new) /\ Created(new)
         \/ \E new : ForkWithoutFrames(new)
         \/ ExitMemory
  BY DEF Next, SchedStep, NiceStep, SemaphoreStep, sys_fork, sys_clone, CreateFaults, CloneMemory,
         ForkWithoutDIR, sys_exit, ExitCorrupts, ExitSwitches, memVars, vars

\* No step frees the first code frame.
LEMMA FirstCodeFrameStep ==
  ASSUME FirstCodeFrame, [Next]_vars
  PROVE  FirstCodeFrame'
<1>1. \A fs : NUM_PAG_KERNEL \in free_frames(phys_mem, fs)
  BY Constants DEF FirstCodeFrame, free_frames
<1>2. \A fs : NUM_PAG_KERNEL \in RevertedFrames(fs)
  BY Constants DEF FirstCodeFrame, RevertedFrames, free_frames
<1>3. CASE UNCHANGED phys_mem
  BY <1>3 DEF FirstCodeFrame
<1>4. ASSUME NEW new, ForkMemory(new) PROVE FirstCodeFrame'
  BY <1>4 DEF ForkMemory, FirstCodeFrame
<1>5. ASSUME NEW new, ForkWithoutFrames(new) PROVE FirstCodeFrame'
  BY <1>2, <1>5 DEF ForkWithoutFrames, FirstCodeFrame
<1>6. CASE ExitMemory
  BY <1>1, <1>6 DEF ExitMemory, FirstCodeFrame
<1> QED
  BY <1>3, <1>4, <1>5, <1>6, MemorySteps

\* A step that gives a free PCB the PID of the running process is a fork that
\* failed: any other gives it a PID nobody has.
LEMMA FailedForkStep ==
  ASSUME QueueInd, UniquePIDs, FirstCodeFrame, [Next]_vars
  PROVE  NoFrameLost
<1> SUFFICES ASSUME KernelRuns, NEW t \in Tasks, PID[t] = -1, PID'[t] = PID[current]
             PROVE  phys_mem' = phys_mem
  BY DEF NoFrameLost
<1>1. TypeOK /\ Core /\ PID \in [Tasks -> Int] /\ PID[current] # -1 /\ incrementalPID \in Int
  BY CoreFacts DEF QueueInd, TypeOK, SchedTypeOK
<1>2. PID[current] < incrementalPID
  BY <1>1, CoreFacts DEF UniquePIDs, Procs
<1>3. CASE sys_fork \/ sys_clone
  <2>1. ~(\E new : Created(new))
    <3> SUFFICES ASSUME NEW new, Created(new) PROVE FALSE
      OBVIOUS
    <3>1. PID' = [PID EXCEPT ![new] = incrementalPID]
      BY DEF Created, CopyPCB
    <3> QED
      BY <1>1, <1>2, <3>1
  <2>2. CASE UNCHANGED phys_mem
    BY <2>2
  <2>3. CASE ForkWithoutFrames(FirstFree)
    BY <1>1, <2>3, RevertsAll DEF ForkWithoutFrames
  <2> QED
    BY <1>3, <2>1, <2>2, <2>3 DEF sys_fork, sys_clone, CreateFaults, ForkWithoutDIR, memVars
<1>4. CASE sys_exit
  <2>1. PID' = PID \/ PID' = [PID EXCEPT ![current] = -1]
    BY <1>4 DEF sys_exit, ExitCorrupts, ExitSwitches
  <2> QED
    BY <1>1, <2>1
<1> QED
  BY <1>3, <1>4 DEF Next, SchedStep, NiceStep, SemaphoreStep, memVars, vars

\* A fork that runs out of frames leaves the frames as they were.
THEOREM FailedForkLosesNothing == Spec => FailedForkKeepsFrames
<1>1. Init => FirstCodeFrame
  <2>1. BootFrame(0) = NUM_PAG_KERNEL /\ 0 \in 0 .. NUM_PAG_CODE + NUM_PAG_DATA - 1
    BY Constants DEF BootFrame
  <2> QED
    BY <2>1 DEF Init, MemoryInit, FirstCodeFrame
<1>2. FirstCodeFrame /\ [Next]_vars => FirstCodeFrame'
  BY FirstCodeFrameStep
<1>3. QueueInd /\ UniquePIDs /\ FirstCodeFrame /\ [Next]_vars => [NoFrameLost]_vars
  BY FailedForkStep
<1>4. Init => QueueInd /\ UniquePIDs
  BY InitQueueInd, PIDsInit
<1>5. QueueInd /\ UniquePIDs /\ [Next]_vars => (QueueInd /\ UniquePIDs)'
  BY NextQueueInd, PIDsStep
<1> QED
  BY <1>1, <1>2, <1>3, <1>4, <1>5, PTL DEF Spec, FailedForkKeepsFrames

-----------------------------------------------------------------------------
(* Counting.                                                               *)

\* The values of a function are no more than its arguments.
LEMMA ImageBound ==
  ASSUME NEW S, IsFiniteSet(S), NEW T, NEW f \in [S -> T], \A t \in T : \E s \in S : f[s] = t
  PROVE  IsFiniteSet(T) /\ Cardinality(T) \in Nat /\ Cardinality(T) <= Cardinality(S)
<1>1. f \in Surjection(S, T)
  BY DEF Surjection
<1> QED
  BY <1>1, FS_Surjection, FS_CardinalityType

\* A union has at most as many elements as its parts together.
LEMMA UnionBound ==
  ASSUME NEW S, IsFiniteSet(S), NEW T, IsFiniteSet(T)
  PROVE  /\ IsFiniteSet(S \cup T)
         /\ Cardinality(S) \in Nat /\ Cardinality(T) \in Nat /\ Cardinality(S \cup T) \in Nat
         /\ Cardinality(S \cup T) <= Cardinality(S) + Cardinality(T)
<1>1. IsFiniteSet(S \cap T) /\ IsFiniteSet(S \cup T)
      /\ Cardinality(S \cup T) = Cardinality(S) + Cardinality(T) - Cardinality(S \cap T)
  BY FS_Intersection, FS_Union
<1>2. /\ Cardinality(S) \in Nat /\ Cardinality(T) \in Nat
      /\ Cardinality(S \cap T) \in Nat /\ Cardinality(S \cup T) \in Nat
  BY <1>1, FS_CardinalityType
<1> QED
  BY <1>1, <1>2

\* The tasks are NR_TASKS, the data pages NUM_PAG_DATA; all sets of either are finite.
LEMMA FiniteSizes ==
  /\ IsFiniteSet(Tasks) /\ Cardinality(Tasks) = NR_TASKS
  /\ IsFiniteSet(DataPages) /\ Cardinality(DataPages) = NUM_PAG_DATA
  /\ \A S \in SUBSET Tasks : IsFiniteSet(S) /\ Cardinality(S) \in Nat
<1>1. IsFiniteSet(Tasks) /\ Cardinality(Tasks) = NR_TASKS
  BY Constants, FS_Interval, 0 \in Int, NR_TASKS - 1 \in Int DEF Tasks
<1>2. IsFiniteSet(DataPages) /\ Cardinality(DataPages) = NUM_PAG_DATA
  BY Constants, FS_Interval, 0 \in Int, NUM_PAG_DATA - 1 \in Int DEF DataPages
<1> QED
  BY <1>1, <1>2, FS_Subset, FS_CardinalityType

\* Products grow with their factors.
LEMMA ProductGrows ==
  ASSUME NEW a \in Nat, NEW b \in Nat, NEW c \in Nat, a <= b
  PROVE  a * c \in Nat /\ b * c \in Nat /\ a * c <= b * c
  OBVIOUS

\* The processes in directory d.
Residents(d) == {t \in Procs : n_directorio[t] = d}

\* No process is missing in the counts.  A fork that fails half-way leaves a
\* directory counted that nobody runs in.
Covered == \A d \in Dirs : refs_DIR[d] >= Cardinality(Residents(d)) + Extra(d)

\* The directories that map data: all with references but idle's.
DirsInUse == {d \in Dirs \ {0} : refs_DIR[d] > 0}

CodeFrames == {BootFrame(k) : k \in 0 .. NUM_PAG_CODE - 1}
DataFrames == {PT[d][p] : d \in DirsInUse, p \in DataPages}

(***************************************************************************)
(* The invariant: idle alone runs in directory 0, counts are right, every  *)
(* frame in use is the boot image's or the data of one page of one         *)
(* directory.                                                              *)
(***************************************************************************)
IdleApart == \A t \in Procs : n_directorio[t] = 0 <=> t = idle_task

Counted == \A d \in Dirs : refs_DIR[d] = Cardinality(Residents(d)) + Extra(d)

OwnFrames ==
  /\ \A d \in DirsInUse, p \in DataPages : PT[d][p] >= BootFrame(NUM_PAG_CODE)
  /\ \A d, e \in DirsInUse, p, q \in DataPages : PT[d][p] = PT[e][q] => d = e /\ p = q

Accounted == phys_mem = (0 .. NUM_PAG_KERNEL - 1) \cup CodeFrames \cup DataFrames

MemoryInd == KernelRuns => IdleApart /\ Counted /\ OwnFrames /\ Accounted

\* There are frames for the code and the data of all directories but idle's.
LEMMA EnoughAllocatable ==
  ASSUME MemorySuffices, NEW N \in Nat, N = NUM_PAG_CODE + (NR_TASKS - 1) * NUM_PAG_DATA
  PROVE  \A k \in 0 .. N - 1 : BootFrame(k) \in Allocatable
<1>1. NUM_PAG_KERNEL + 2 * N <= TOTAL_PAGES
  BY DEF MemorySuffices
<1> SUFFICES ASSUME NEW k \in 0 .. N - 1 PROVE BootFrame(k) \in Allocatable
  OBVIOUS
<1>2. BootFrame(k) = NUM_PAG_KERNEL + 2 * k /\ (2 * k) % 2 = 0
  BY DEF BootFrame
<1> QED
  BY <1>1, <1>2, Constants DEF Allocatable

\* Whoever finds a free directory finds the frames for it: at most NR_TASKS - 2
\* others map data.
LEMMA DirectoryHasFrames ==
  ASSUME MemorySuffices, TypeOK, Accounted, NEW d \in Dirs \ {0}, refs_DIR[d] = 0
  PROVE  IsFiniteSet(FreeFrames) /\ Cardinality(FreeFrames) >= NUM_PAG_DATA
<1> DEFINE N == NUM_PAG_CODE + (NR_TASKS - 1) * NUM_PAG_DATA
           U == DirsInUse
           B == [k \in 0 .. N - 1 |-> BootFrame(k)]
           A == {BootFrame(k) : k \in 0 .. N - 1}
<1>1. /\ N \in Nat /\ NR_TASKS \in Nat /\ NR_TASKS > 2
      /\ NUM_PAG_CODE \in Nat /\ NUM_PAG_DATA \in Nat
  BY Constants
<1>2. IsFiniteSet(U) /\ Cardinality(U) \in Nat /\ Cardinality(U) <= NR_TASKS - 2
  <2> DEFINE T == (Tasks \ {0}) \ {d}
  <2>1. 0 \in Tasks /\ d \in Tasks \ {0} /\ U \subseteq T
    BY Constants DEF Dirs, Tasks, DirsInUse
  <2>2. IsFiniteSet(Tasks \ {0}) /\ Cardinality(Tasks \ {0}) = NR_TASKS - 1
    BY <2>1, FiniteSizes, FS_RemoveElement
  <2>3. IsFiniteSet(T) /\ Cardinality(T) = NR_TASKS - 1 - 1
    BY <2>1, <2>2, FS_RemoveElement
  <2> QED
    BY <1>1, <2>1, <2>3, FS_Subset, FS_CardinalityType
<1>3. IsFiniteSet(CodeFrames) /\ Cardinality(CodeFrames) \in Nat /\ Cardinality(CodeFrames) <= NUM_PAG_CODE
  <2> DEFINE f == [k \in 0 .. NUM_PAG_CODE - 1 |-> BootFrame(k)]
  <2>1. IsFiniteSet(0 .. NUM_PAG_CODE - 1) /\ Cardinality(0 .. NUM_PAG_CODE - 1) = NUM_PAG_CODE
    BY <1>1, Constants, FS_Interval, 0 \in Int, NUM_PAG_CODE - 1 \in Int
  <2>2. f \in [0 .. NUM_PAG_CODE - 1 -> CodeFrames] /\ \A u \in CodeFrames : \E s \in 0 .. NUM_PAG_CODE - 1 : f[s] = u
    BY DEF CodeFrames
  <2> HIDE DEF f
  <2>3. IsFiniteSet(CodeFrames) /\ Cardinality(CodeFrames) \in Nat
        /\ Cardinality(CodeFrames) <= Cardinality(0 .. NUM_PAG_CODE - 1)
    BY <2>1, <2>2, ImageBound
  <2> QED
    BY <2>1, <2>3
<1>4. /\ IsFiniteSet(DataFrames) /\ Cardinality(DataFrames) \in Nat
      /\ Cardinality(DataFrames) <= Cardinality(U) * NUM_PAG_DATA
  <2> DEFINE f == [x \in U \X DataPages |-> PT[x[1]][x[2]]]
  <2>1. IsFiniteSet(U \X DataPages) /\ Cardinality(U \X DataPages) = Cardinality(U) * NUM_PAG_DATA
    BY <1>2, FiniteSizes, FS_Product
  <2>2. f \in [U \X DataPages -> DataFrames]
    BY DEF DataFrames
  <2>3. \A e \in U, p \in DataPages : <<e, p>> \in U \X DataPages /\ f[<<e, p>>] = PT[e][p]
    OBVIOUS
  <2>4. \A u \in DataFrames : \E s \in U \X DataPages : f[s] = u
    <3> SUFFICES ASSUME NEW u \in DataFrames PROVE \E s \in U \X DataPages : f[s] = u
      OBVIOUS
    <3> PICK e \in U, p \in DataPages : u = PT[e][p]
      BY DEF DataFrames
    <3>1. <<e, p>> \in U \X DataPages /\ f[<<e, p>>] = u
      BY <2>3
    <3> HIDE DEF f, U
    <3> QED
      BY <3>1
  <2> HIDE DEF f
  <2>5. IsFiniteSet(DataFrames) /\ Cardinality(DataFrames) \in Nat
        /\ Cardinality(DataFrames) <= Cardinality(U \X DataPages)
    <3> HIDE DEF U
    <3> QED
      BY <2>1, <2>2, <2>4, ImageBound
  <2> QED
    BY <2>1, <2>5
<1>5. IsFiniteSet(A) /\ Cardinality(A) >= N
  <2>1. IsFiniteSet(0 .. N - 1) /\ Cardinality(0 .. N - 1) = N
    BY <1>1, FS_Interval, 0 \in Int, N - 1 \in Int
  <2>2. B \in Surjection(0 .. N - 1, A)
    BY DEF Surjection
  <2>3. B \in Injection(0 .. N - 1, A)
    <3> HIDE DEF N
    <3>1. B \in [0 .. N - 1 -> A]
      OBVIOUS
    <3>2. \A j, k \in 0 .. N - 1 : BootFrame(j) = BootFrame(k) => j = k
      BY Constants DEF BootFrame
    <3> QED
      BY <3>1, <3>2 DEF Injection, IsInjective
  <2> HIDE DEF A, B, N
  <2> QED
    BY <1>1, <2>1, <2>2, <2>3, FS_Surjection
<1>6. IsFiniteSet(FreeFrames)
  <2>1. IsFiniteSet(NUM_PAG_KERNEL .. TOTAL_PAGES - 1)
    BY Constants, FS_Interval, NUM_PAG_KERNEL \in Int, TOTAL_PAGES - 1 \in Int
  <2>2. FreeFrames \in SUBSET (NUM_PAG_KERNEL .. TOTAL_PAGES - 1)
    BY DEF FreeFrames, Allocatable
  <2> QED
    BY <2>1, <2>2, FS_Subset
<1>7. A \subseteq FreeFrames \cup (CodeFrames \cup DataFrames)
  <2>1. \A f \in A : f \in Allocatable
    BY <1>1, EnoughAllocatable
  <2>2. \A f \in Allocatable : f \notin 0 .. NUM_PAG_KERNEL - 1
    BY Constants DEF Allocatable
  <2> HIDE DEF A
  <2> QED
    BY <2>1, <2>2 DEF FreeFrames, Accounted
<1> HIDE DEF A, B, N, U
<1>8. /\ IsFiniteSet(CodeFrames \cup DataFrames)
      /\ Cardinality(CodeFrames \cup DataFrames) <= Cardinality(CodeFrames) + Cardinality(DataFrames)
  BY <1>3, <1>4, UnionBound
<1>9. /\ IsFiniteSet(FreeFrames \cup (CodeFrames \cup DataFrames))
      /\ Cardinality(FreeFrames \cup (CodeFrames \cup DataFrames))
           <= Cardinality(FreeFrames) + Cardinality(CodeFrames \cup DataFrames)
  BY <1>6, <1>8, UnionBound
<1>10. Cardinality(A) <= Cardinality(FreeFrames \cup (CodeFrames \cup DataFrames))
  BY <1>7, <1>9, FS_Subset
<1>11. /\ Cardinality(FreeFrames) \in Nat /\ Cardinality(CodeFrames \cup DataFrames) \in Nat
       /\ Cardinality(A) \in Nat /\ Cardinality(FreeFrames \cup (CodeFrames \cup DataFrames)) \in Nat
  BY <1>5, <1>6, <1>8, <1>9, FS_CardinalityType
<1>12. Cardinality(DataFrames) <= (NR_TASKS - 2) * NUM_PAG_DATA
  <2>1. NR_TASKS - 2 \in Nat
    BY <1>1
  <2>2. Cardinality(U) * NUM_PAG_DATA <= (NR_TASKS - 2) * NUM_PAG_DATA
        /\ Cardinality(U) * NUM_PAG_DATA \in Nat /\ (NR_TASKS - 2) * NUM_PAG_DATA \in Nat
    BY <1>1, <1>2, <2>1, ProductGrows
  <2> QED
    BY <1>4, <2>2
<1>13. N = NUM_PAG_CODE + (NR_TASKS - 2) * NUM_PAG_DATA + NUM_PAG_DATA
  BY <1>1 DEF N
<1>14. (NR_TASKS - 2) * NUM_PAG_DATA \in Int
  BY <1>1
<1> QED
  BY <1>1, <1>3, <1>4, <1>5, <1>6, <1>8, <1>9, <1>10, <1>11, <1>12, <1>13, <1>14

-----------------------------------------------------------------------------
(* The steps.                                                              *)

\* What the types and the counts say of directories and processes.
LEMMA MemoryFacts ==
  ASSUME TypeOK
  PROVE  /\ refs_DIR \in [Dirs -> Int] /\ n_directorio \in [Tasks -> Dirs]
         /\ PT \in [Dirs -> [DataPages -> Frames]] /\ phys_mem \subseteq Frames
         /\ 0 \in Dirs /\ 1 \in Dirs /\ Procs \subseteq Tasks /\ idle_task \in Procs /\ current \in Procs
         /\ \A d \in Dirs : IsFiniteSet(Residents(d)) /\ Cardinality(Residents(d)) \in Nat
<1>1. Procs \subseteq Tasks /\ idle_task \in Procs /\ current \in Procs
  BY SpecialTasks DEF Procs, TypeOK, SchedTypeOK
<1>2. \A d \in Dirs : Residents(d) \in SUBSET Tasks
  BY <1>1 DEF Residents
<1>3. \A d \in Dirs : IsFiniteSet(Residents(d)) /\ Cardinality(Residents(d)) \in Nat
  BY <1>2, FiniteSizes
<1>4. 0 \in Dirs /\ 1 \in Dirs
  BY Constants DEF Dirs, Tasks
<1>5. MemoryTypeOK
  BY DEF TypeOK
<1> QED
  BY <1>1, <1>3, <1>4, <1>5 DEF MemoryTypeOK

\* A directory somebody runs in has references, one more than those when it is
\* one of the two of the boot; those two always have some.
LEMMA CoveredFacts ==
  ASSUME TypeOK, Covered
  PROVE  /\ refs_DIR[0] > 0 /\ refs_DIR[1] > 0
         /\ \A t \in Procs : n_directorio[t] \in Dirs /\ refs_DIR[n_directorio[t]] >= 1 + Extra(n_directorio[t])
         /\ \A d \in Dirs : refs_DIR[d] >= 0 /\ Extra(d) \in {0, 1}
<1>1. \A d \in Dirs : refs_DIR[d] \in Int /\ refs_DIR[d] >= Extra(d) /\ Extra(d) \in {0, 1}
  BY MemoryFacts DEF Covered, Extra
<1>2. refs_DIR[0] > 0 /\ refs_DIR[1] > 0
  BY <1>1, MemoryFacts DEF Extra
<1>3. \A t \in Procs : n_directorio[t] \in Dirs /\ refs_DIR[n_directorio[t]] >= 1 + Extra(n_directorio[t])
  <2> SUFFICES ASSUME NEW t \in Procs
               PROVE  n_directorio[t] \in Dirs /\ refs_DIR[n_directorio[t]] >= 1 + Extra(n_directorio[t])
    OBVIOUS
  <2> DEFINE d == n_directorio[t]
  <2>1. d \in Dirs /\ t \in Residents(d)
    BY MemoryFacts DEF Residents
  <2> HIDE DEF d
  <2>2. Cardinality(Residents(d)) # 0 /\ Cardinality(Residents(d)) \in Nat
    BY <2>1, MemoryFacts, FS_EmptySet
  <2>3. refs_DIR[d] >= 1 + Extra(d)
    BY <1>1, <2>1, <2>2 DEF Covered
  <2> QED
    BY <2>1, <2>3 DEF d
<1> QED
  BY <1>1, <1>2, <1>3

\* Exact counts are enough for that.
LEMMA CountedFacts ==
  ASSUME TypeOK, Counted
  PROVE  /\ refs_DIR[0] > 0 /\ refs_DIR[1] > 0
         /\ \A t \in Procs : n_directorio[t] \in Dirs /\ refs_DIR[n_directorio[t]] >= 1 + Extra(n_directorio[t])
         /\ \A d \in Dirs : refs_DIR[d] >= 0 /\ Extra(d) \in {0, 1}
<1>1. \A d \in Dirs : Cardinality(Residents(d)) \in Nat /\ Extra(d) \in {0, 1}
  BY MemoryFacts DEF Extra
<1>2. Covered
  BY <1>1 DEF Counted, Covered
<1> QED
  BY <1>2, CoveredFacts

\* A count goes up or down with the number of processes in its directory.
LEMMA Recounted ==
  ASSUME TypeOK, NEW d \in Dirs, NEW n \in {1, -1},
         refs_DIR' = [refs_DIR EXCEPT ![d] = @ + n],
         \A e \in Dirs \ {d} : {t \in Procs' : n_directorio'[t] = e} = Residents(e),
         Cardinality({t \in Procs' : n_directorio'[t] = d}) = Cardinality(Residents(d)) + n
  PROVE  (Counted => Counted') /\ (Covered => Covered')
<1>1. \A e \in Dirs : /\ refs_DIR[e] \in Int /\ Cardinality(Residents(e)) \in Nat /\ Extra(e) \in {0, 1}
                      /\ refs_DIR'[e] = IF e = d THEN refs_DIR[e] + n ELSE refs_DIR[e]
  BY MemoryFacts DEF Extra
<1>2. \A e \in Dirs : Cardinality({t \in Procs' : n_directorio'[t] = e})
                        = IF e = d THEN Cardinality(Residents(e)) + n ELSE Cardinality(Residents(e))
  OBVIOUS
<1>3. ASSUME Counted PROVE Counted'
  <2>1. \A e \in Dirs : refs_DIR'[e] = Cardinality({t \in Procs' : n_directorio'[t] = e}) + Extra(e)
    BY <1>1, <1>2, <1>3 DEF Counted
  <2> QED
    BY <2>1 DEF Counted, Residents, Extra
<1>4. ASSUME Covered PROVE Covered'
  <2>1. \A e \in Dirs : refs_DIR'[e] >= Cardinality({t \in Procs' : n_directorio'[t] = e}) + Extra(e)
    BY <1>1, <1>2, <1>4 DEF Covered
  <2> QED
    BY <2>1 DEF Covered, Residents, Extra
<1> QED
  BY <1>3, <1>4

\* A new process is counted in its directory.
LEMMA Moves ==
  ASSUME TypeOK, IdleApart, NEW new \in Tasks \ Procs, NEW d \in Dirs \ {0},
         Procs' = Procs \cup {new},
         n_directorio' = [n_directorio EXCEPT ![new] = d],
         refs_DIR' = [refs_DIR EXCEPT ![d] = @ + 1]
  PROVE  IdleApart' /\ (Counted => Counted') /\ (Covered => Covered')
<1>1. \A t \in Procs' : n_directorio'[t] = IF t = new THEN d ELSE n_directorio[t]
  BY MemoryFacts
<1>2. IdleApart'
  BY <1>1, MemoryFacts DEF IdleApart
<1>3. \A e \in Dirs : {t \in Procs' : n_directorio'[t] = e}
                        = IF e = d THEN Residents(e) \cup {new} ELSE Residents(e)
  BY <1>1 DEF Residents
<1>4. Cardinality(Residents(d) \cup {new}) = Cardinality(Residents(d)) + 1
  <2>1. new \notin Residents(d)
    BY DEF Residents
  <2> QED
    BY <2>1, MemoryFacts, FS_AddElement
<1>5. Cardinality({t \in Procs' : n_directorio'[t] = d}) = Cardinality(Residents(d)) + 1
  BY <1>3, <1>4
<1> QED
  BY <1>2, <1>3, <1>5, Recounted

\* One that goes is counted no more.
LEMMA Leaves ==
  ASSUME TypeOK, NEW d \in Dirs, d = n_directorio[current], UNCHANGED n_directorio,
         Procs' = Procs \ {current}, refs_DIR' = [refs_DIR EXCEPT ![d] = @ - 1]
  PROVE  (Counted => Counted') /\ (Covered => Covered')
<1>1. current \in Residents(d) /\ current \in Procs
  BY MemoryFacts DEF Residents
<1>2. \A e \in Dirs : {t \in Procs' : n_directorio'[t] = e}
                        = IF e = d THEN Residents(e) \ {current} ELSE Residents(e)
  BY <1>1 DEF Residents
<1>3. Cardinality(Residents(d) \ {current}) = Cardinality(Residents(d)) - 1
  BY <1>1, MemoryFacts, FS_RemoveElement
<1>4. Cardinality(Residents(d)) \in Nat /\ refs_DIR \in [Dirs -> Int]
  BY MemoryFacts
<1>5. Cardinality({t \in Procs' : n_directorio'[t] = d}) = Cardinality(Residents(d)) + (-1)
  BY <1>2, <1>3, <1>4
<1>6. refs_DIR' = [refs_DIR EXCEPT ![d] = @ + (-1)]
  BY <1>4
<1> QED
  BY <1>2, <1>5, <1>6, Recounted

\* A PCB that is no process does not count.
LEMMA Uncounted ==
  ASSUME TypeOK, NEW new \in Tasks \ Procs, NEW d,
         Procs' = Procs, n_directorio' = [n_directorio EXCEPT ![new] = d],
         UNCHANGED <<phys_mem, refs_DIR, PT>>, IdleApart, Counted, OwnFrames, Accounted
  PROVE  IdleApart' /\ Counted' /\ OwnFrames' /\ Accounted'
<1>1. \A t \in Procs : n_directorio'[t] = n_directorio[t]
  BY MemoryFacts
<1>2. \A e \in Dirs : {t \in Procs' : n_directorio'[t] = e} = Residents(e)
  BY <1>1 DEF Residents
<1>3. Counted'
  BY <1>2 DEF Counted, Residents
<1>4. IdleApart'
  BY <1>1 DEF IdleApart
<1> QED
  BY <1>3, <1>4 DEF OwnFrames, Accounted, DirsInUse, DataFrames, CodeFrames

\* The frames a fork takes are distinct, were free, and lie behind the code.
LEMMA NewFrames ==
  ASSUME TypeOK, CodeFrames \subseteq phys_mem, NEW fr \in [DataPages -> FreeFrames], AllocFrames(NUM_PAG_DATA, fr)
  PROVE  /\ \A p, q \in DataPages : fr[p] = fr[q] => p = q
         /\ \A p \in DataPages : fr[p] \notin phys_mem /\ fr[p] >= BootFrame(NUM_PAG_CODE)
<1>1. \A p \in DataPages : fr[p] \in FreeFrames /\ fr[p] \in Int
  BY Constants DEF FreeFrames, Allocatable
<1>2. \A i, j \in DataPages : i < j => fr[i] < fr[j]
  BY DEF AllocFrames, DataPages
<1>3. \A p, q \in DataPages : p < q \/ q < p \/ p = q
  BY Constants DEF DataPages
<1>4. \A p, q \in DataPages : fr[p] = fr[q] => p = q
  BY <1>1, <1>2, <1>3
<1>5. ASSUME NEW f \in FreeFrames PROVE f >= BootFrame(NUM_PAG_CODE)
  <2>1. f \in Int /\ f >= NUM_PAG_KERNEL /\ (f - NUM_PAG_KERNEL) % 2 = 0 /\ f \notin phys_mem
    BY Constants DEF FreeFrames, Allocatable
  <2>2. PICK k \in Int : f = NUM_PAG_KERNEL + 2 * k
    <3>1. f - NUM_PAG_KERNEL = 2 * ((f - NUM_PAG_KERNEL) \div 2)
      BY <2>1, Constants
    <3>2. (f - NUM_PAG_KERNEL) \div 2 \in Int
      BY <2>1, Constants
    <3> QED
      BY <2>1, <3>1, <3>2, Constants
  <2>3. k \notin 0 .. NUM_PAG_CODE - 1
    BY <2>1, <2>2 DEF CodeFrames, BootFrame
  <2> QED
    BY <2>1, <2>2, <2>3, Constants DEF BootFrame
<1> QED
  BY <1>1, <1>4, <1>5 DEF FreeFrames

\* fork keeps the invariant.
LEMMA ForkKeeps ==
  ASSUME TypeOK, IdleApart, Counted, OwnFrames, Accounted,
         NEW new \in Tasks \ Procs, Procs' = Procs \cup {new}, ForkMemory(new)
  PROVE  IdleApart' /\ Counted' /\ OwnFrames' /\ Accounted'
<1>1. PICK d \in Dirs, fr \in [DataPages -> FreeFrames] :
        /\ allocate_DIR(d) /\ AllocFrames(NUM_PAG_DATA, fr)
        /\ refs_DIR' = [refs_DIR EXCEPT ![d] = @ + 1]
        /\ n_directorio' = [n_directorio EXCEPT ![new] = d]
        /\ phys_mem' = phys_mem \cup {fr[p] : p \in DataPages}
        /\ PT' = [PT EXCEPT ![d] = fr]
  BY DEF ForkMemory
<1>2. refs_DIR[d] = 0 /\ d # 0
  BY <1>1, CountedFacts DEF allocate_DIR
<1>3. IdleApart' /\ Counted'
  BY <1>1, <1>2, Moves
<1>4. /\ d \notin DirsInUse
      /\ DirsInUse' = DirsInUse \cup {d}
  BY <1>1, <1>2, MemoryFacts DEF DirsInUse
<1>5. PT'[d] = fr /\ \A e \in DirsInUse : PT'[e] = PT[e]
  BY <1>1, <1>4, MemoryFacts
<1>6. /\ \A p, q \in DataPages : fr[p] = fr[q] => p = q
      /\ \A p \in DataPages : fr[p] \notin phys_mem /\ fr[p] >= BootFrame(NUM_PAG_CODE)
  BY <1>1, NewFrames DEF Accounted
<1>7. \A e \in DirsInUse, p \in DataPages : PT[e][p] \in phys_mem
  BY DEF Accounted, DataFrames
<1>8. OwnFrames'
  <2>1. \A e \in DirsInUse \cup {d}, p \in DataPages : PT'[e][p] >= BootFrame(NUM_PAG_CODE)
    BY <1>5, <1>6 DEF OwnFrames
  <2>2. \A e, g \in DirsInUse \cup {d}, p, q \in DataPages : PT'[e][p] = PT'[g][q] => e = g /\ p = q
    BY <1>5, <1>6, <1>7 DEF OwnFrames
  <2> QED
    BY <1>4, <2>1, <2>2 DEF OwnFrames, BootFrame
<1>9. DataFrames' = DataFrames \cup {fr[p] : p \in DataPages}
  BY <1>4, <1>5 DEF DataFrames
<1>10. Accounted'
  BY <1>1, <1>9 DEF Accounted, CodeFrames, BootFrame
<1> QED
  BY <1>3, <1>8, <1>10

\* So does clone.
LEMMA CloneKeeps ==
  ASSUME TypeOK, IdleApart, Counted, OwnFrames, Accounted, current # idle_task,
         NEW new \in Tasks \ Procs, Procs' = Procs \cup {new}, CloneMemory(new)
  PROVE  IdleApart' /\ Counted' /\ OwnFrames' /\ Accounted'
<1> DEFINE d == n_directorio[current]
<1>1. d \in Dirs \ {0} /\ refs_DIR[d] >= 1
  BY MemoryFacts, CountedFacts DEF IdleApart
<1>2. IdleApart' /\ Counted'
  BY <1>1, Moves DEF CloneMemory
<1>3. DirsInUse' = DirsInUse
  BY <1>1, MemoryFacts DEF CloneMemory, DirsInUse
<1> QED
  BY <1>2, <1>3 DEF CloneMemory, OwnFrames, Accounted, DataFrames, CodeFrames, BootFrame

\* A fork that takes a directory never runs out of frames, so what a failed one
\* leaves is a PCB and nothing else.
LEMMA AbandonKeeps ==
  ASSUME MemorySuffices, TypeOK, IdleApart, Counted, OwnFrames, Accounted,
         NEW new \in Tasks \ Procs, Procs' = Procs, ForkWithoutDIR(new) \/ ForkWithoutFrames(new)
  PROVE  IdleApart' /\ Counted' /\ OwnFrames' /\ Accounted'
<1>1. ~ForkWithoutFrames(new)
  <2> SUFFICES ASSUME ForkWithoutFrames(new) PROVE FALSE
    OBVIOUS
  <2>1. PICK d \in Dirs, n \in 0 .. NUM_PAG_DATA - 1 : allocate_DIR(d) /\ n = Cardinality(FreeFrames)
    BY DEF ForkWithoutFrames
  <2>2. d \in Dirs \ {0} /\ refs_DIR[d] = 0
    BY <2>1, CountedFacts DEF allocate_DIR
  <2>3. Cardinality(FreeFrames) >= NUM_PAG_DATA
    BY <2>2, DirectoryHasFrames
  <2> QED
    BY <2>1, <2>3, Constants
<1> QED
  BY <1>1, Uncounted DEF ForkWithoutDIR

\* exit gives back the frames of its directory when it is the last one there,
\* and those of no other.
LEMMA ExitKeeps ==
  ASSUME TypeOK, IdleApart, Counted, OwnFrames, Accounted, current # idle_task,
         Procs' = Procs \ {current}, ExitMemory
  PROVE  IdleApart' /\ Counted' /\ OwnFrames' /\ Accounted'
<1> PICK d \in Dirs : d = n_directorio[current]
  BY MemoryFacts
<1>1. d \in Dirs \ {0} /\ refs_DIR[d] >= 1 + Extra(d)
  BY MemoryFacts, CountedFacts DEF IdleApart
<1>2. n_directorio' = n_directorio /\ refs_DIR' = [refs_DIR EXCEPT ![d] = @ - 1]
  BY DEF ExitMemory
<1>3. IdleApart'
  BY <1>2 DEF IdleApart
<1>5. PT' = IF LastOut THEN [PT EXCEPT ![d] = [p \in DataPages |-> NoFrame]] ELSE PT
  BY DEF ExitMemory
<1>6. phys_mem' = IF LastOut THEN free_frames(phys_mem, {PT[d][p] : p \in DataPages}) ELSE phys_mem
  BY DEF ExitMemory
<1>7. LastOut <=> refs_DIR[d] - 1 = 0
  BY DEF LastOut
<1>8. Counted'
  BY <1>1, <1>2, Leaves
<1>9. CASE ~LastOut
  <2>1. refs_DIR[d] >= 2
    BY <1>1, <1>7, <1>9, MemoryFacts, CountedFacts
  <2>2. DirsInUse' = DirsInUse
    BY <1>1, <1>2, <2>1, MemoryFacts DEF DirsInUse
  <2> QED
    BY <1>3, <1>5, <1>6, <1>8, <1>9, <2>2 DEF OwnFrames, Accounted, DataFrames, CodeFrames, BootFrame
<1>10. CASE LastOut
  <2>1. d \in DirsInUse /\ DirsInUse' = DirsInUse \ {d}
    BY <1>1, <1>2, <1>7, <1>10, MemoryFacts, CountedFacts DEF DirsInUse
  <2>2. \A e \in DirsInUse \ {d} : PT'[e] = PT[e]
    BY <1>5, <1>10, MemoryFacts DEF DirsInUse
  <2>3. OwnFrames'
    BY <2>1, <2>2 DEF OwnFrames, BootFrame
  <2> DEFINE Given == {PT[d][p] : p \in DataPages}
  <2>4. \A f \in Given : f > NUM_PAG_KERNEL /\ f < TOTAL_PAGES /\ f >= BootFrame(NUM_PAG_CODE) /\ f \in Int
    <3> SUFFICES ASSUME NEW p \in DataPages
                 PROVE  /\ PT[d][p] > NUM_PAG_KERNEL /\ PT[d][p] < TOTAL_PAGES
                        /\ PT[d][p] >= BootFrame(NUM_PAG_CODE) /\ PT[d][p] \in Int
      OBVIOUS
    <3>1. PT[d][p] \in Frames
      BY <1>1, MemoryFacts
    <3>2. PT[d][p] >= BootFrame(NUM_PAG_CODE)
      BY <2>1 DEF OwnFrames
    <3> QED
      BY <3>1, <3>2, Constants DEF Frames, BootFrame
  <2>5. phys_mem' = phys_mem \ Given
    BY <1>6, <1>10, <2>4 DEF free_frames
  <2>6. DataFrames' = {PT[e][p] : e \in DirsInUse \ {d}, p \in DataPages}
    BY <2>1, <2>2 DEF DataFrames
  <2>7. \A e \in DirsInUse \ {d}, p \in DataPages : PT[e][p] \notin Given
    BY <2>1 DEF OwnFrames
  <2>8. DataFrames = DataFrames' \cup Given
    <3>1. DataFrames = {PT[e][p] : e \in DirsInUse \ {d}, p \in DataPages} \cup Given
      <4>1. \A f \in DataFrames : f \in {PT[e][p] : e \in DirsInUse \ {d}, p \in DataPages} \cup Given
        BY DEF DataFrames
      <4>2. \A f \in Given : f \in DataFrames
        BY <2>1 DEF DataFrames
      <4>3. \A f \in {PT[e][p] : e \in DirsInUse \ {d}, p \in DataPages} : f \in DataFrames
        BY DEF DataFrames
      <4> HIDE DEF Given
      <4> QED
        BY <4>1, <4>2, <4>3
    <3> QED
      BY <2>6, <3>1
  <2>9. \A f \in (0 .. NUM_PAG_KERNEL - 1) \cup CodeFrames : f \notin Given
    <3>1. \A f \in (0 .. NUM_PAG_KERNEL - 1) \cup CodeFrames : f \in Int /\ f < BootFrame(NUM_PAG_CODE)
      BY Constants DEF CodeFrames, BootFrame
    <3>2. BootFrame(NUM_PAG_CODE) \in Int
      BY Constants DEF BootFrame
    <3> QED
      BY <2>4, <3>1, <3>2
  <2>10. \A f \in DataFrames' : f \notin Given
    BY <2>6, <2>7
  <2>11. phys_mem' = (0 .. NUM_PAG_KERNEL - 1) \cup CodeFrames \cup DataFrames'
    <3> HIDE DEF Given
    <3> QED
      BY <2>5, <2>8, <2>9, <2>10 DEF Accounted
  <2> QED
    BY <1>3, <1>8, <2>3, <2>11 DEF Accounted, CodeFrames, BootFrame
<1> QED
  BY <1>9, <1>10

\* Every step of the kernel keeps the invariant.
LEMMA MemoryStep ==
  ASSUME MemorySuffices, QueueInd, MemoryInd, [Next]_vars
  PROVE  MemoryInd'
<1> SUFFICES ASSUME KernelRuns' PROVE IdleApart' /\ Counted' /\ OwnFrames' /\ Accounted'
  BY DEF MemoryInd
<1>1. TypeOK /\ Core /\ IdleApart /\ Counted /\ OwnFrames /\ Accounted
  BY RunsBefore DEF QueueInd, MemoryInd
<1>2. CASE Stays
  BY <1>1, <1>2 DEF Stays, memVars, IdleApart, Counted, OwnFrames, Accounted, Residents,
                    DirsInUse, DataFrames, CodeFrames
<1>3. ASSUME NEW new \in Tasks, Creates(new) PROVE IdleApart' /\ Counted' /\ OwnFrames' /\ Accounted'
  BY <1>1, <1>3, ForkKeeps, CloneKeeps DEF Creates, WasFree
<1>4. ASSUME NEW new \in Tasks, Abandons(new) PROVE IdleApart' /\ Counted' /\ OwnFrames' /\ Accounted'
  BY <1>1, <1>4, AbandonKeeps DEF Abandons, WasFree
<1>5. CASE Exits
  BY <1>1, <1>5, ExitKeeps DEF Exits, ExitSwitches
<1> QED
  BY <1>2, <1>3, <1>4, <1>5, StepShape

-----------------------------------------------------------------------------
(* Isolation needs less, and holds when memory does not suffice: it is     *)
(* enough that no process is missing in the counts, and to look at the     *)
(* directories somebody runs in.  Half a fork leaves a directory of which  *)
(* the frames have been given back; nobody runs there and nobody ever will.*)

Homes == {n_directorio[t] : t \in Procs \ {idle_task}}

OwnHomes ==
  /\ \A d \in Homes, p \in DataPages : PT[d][p] \in phys_mem /\ PT[d][p] >= BootFrame(NUM_PAG_CODE)
  /\ \A d, e \in Homes, p, q \in DataPages : PT[d][p] = PT[e][q] => d = e /\ p = q

Apart == IdleApart /\ Covered /\ CodeFrames \subseteq phys_mem /\ OwnHomes

ApartInd == KernelRuns => Apart

\* Homes are directories with references, and none of them idle's.
LEMMA HomesTaken ==
  ASSUME TypeOK, IdleApart, Covered, NEW d \in Homes
  PROVE  d \in Dirs \ {0} /\ refs_DIR[d] >= 1 + Extra(d)
  BY MemoryFacts, CoveredFacts DEF Homes, IdleApart

\* A fork that succeeds takes a directory that is nobody's and free frames.
LEMMA ForkApart ==
  ASSUME TypeOK, Apart, NEW new \in Tasks \ Procs, Procs' = Procs \cup {new}, ForkMemory(new)
  PROVE  Apart'
<1>1. PICK d \in Dirs, fr \in [DataPages -> FreeFrames] :
        /\ allocate_DIR(d) /\ AllocFrames(NUM_PAG_DATA, fr)
        /\ refs_DIR' = [refs_DIR EXCEPT ![d] = @ + 1]
        /\ n_directorio' = [n_directorio EXCEPT ![new] = d]
        /\ phys_mem' = phys_mem \cup {fr[p] : p \in DataPages}
        /\ PT' = [PT EXCEPT ![d] = fr]
  BY DEF ForkMemory
<1>2. refs_DIR[d] = 0 /\ d # 0
  BY <1>1, CoveredFacts DEF allocate_DIR, Apart
<1>3. IdleApart' /\ Covered'
  BY <1>1, <1>2, Moves DEF Apart
<1>4. d \notin Homes
  BY <1>2, HomesTaken DEF Apart, Extra
<1>5. \A t \in Procs' : n_directorio'[t] = IF t = new THEN d ELSE n_directorio[t]
  BY <1>1, MemoryFacts
<1>6. Homes' = Homes \cup {d}
  BY <1>5, MemoryFacts DEF Homes
<1>7. \A e \in Homes : e \in Dirs
  BY HomesTaken DEF Apart
<1>8. PT'[d] = fr /\ \A e \in Homes : PT'[e] = PT[e]
  BY <1>1, <1>4, <1>7, MemoryFacts
<1>9. /\ \A p, q \in DataPages : fr[p] = fr[q] => p = q
      /\ \A p \in DataPages : fr[p] \notin phys_mem /\ fr[p] >= BootFrame(NUM_PAG_CODE)
  BY <1>1, NewFrames DEF Apart
<1>10. OwnHomes'
  <2>1. \A e \in Homes \cup {d}, p \in DataPages : PT'[e][p] \in phys_mem' /\ PT'[e][p] >= BootFrame(NUM_PAG_CODE)
    BY <1>1, <1>8, <1>9 DEF Apart, OwnHomes
  <2>2. \A e, g \in Homes \cup {d}, p, q \in DataPages : PT'[e][p] = PT'[g][q] => e = g /\ p = q
    BY <1>8, <1>9 DEF Apart, OwnHomes
  <2> QED
    BY <1>6, <2>1, <2>2 DEF OwnHomes, BootFrame
<1>11. (CodeFrames \subseteq phys_mem)'
  BY <1>1 DEF Apart, CodeFrames, BootFrame
<1> QED
  BY <1>3, <1>10, <1>11 DEF Apart

\* A thread is at home where its creator is.
LEMMA CloneApart ==
  ASSUME TypeOK, Apart, current # idle_task,
         NEW new \in Tasks \ Procs, Procs' = Procs \cup {new}, CloneMemory(new)
  PROVE  Apart'
<1> PICK d \in Dirs : d = n_directorio[current]
  BY MemoryFacts
<1>1. d \in Homes /\ d \in Dirs \ {0}
  BY MemoryFacts, HomesTaken DEF Homes, Apart
<1>2. IdleApart' /\ Covered'
  BY <1>1, Moves DEF CloneMemory, Apart
<1>3. \A t \in Procs' : n_directorio'[t] = IF t = new THEN d ELSE n_directorio[t]
  BY MemoryFacts DEF CloneMemory
<1>4. Homes' = Homes
  BY <1>1, <1>3, MemoryFacts DEF Homes
<1> QED
  BY <1>2, <1>4 DEF Apart, OwnHomes, CloneMemory, CodeFrames, BootFrame

\* A fork that fails changes nothing a process can see, even when it leaves a
\* directory behind.
LEMMA AbandonApart ==
  ASSUME TypeOK, Apart, NEW new \in Tasks \ Procs, Procs' = Procs,
         ForkWithoutDIR(new) \/ ForkWithoutFrames(new)
  PROVE  Apart'
<1>1. PICK c : n_directorio' = [n_directorio EXCEPT ![new] = c]
  BY DEF ForkWithoutDIR, ForkWithoutFrames
<1>2. \A t \in Procs : n_directorio'[t] = n_directorio[t]
  BY <1>1, MemoryFacts
<1>3. IdleApart' /\ Homes' = Homes
  BY <1>2 DEF Apart, IdleApart, Homes
<1>4. \A e \in Dirs : {t \in Procs' : n_directorio'[t] = e} = Residents(e)
  BY <1>2 DEF Residents
<1>5. \A e \in Dirs : refs_DIR[e] \in Int /\ Cardinality(Residents(e)) \in Nat /\ Extra(e) \in {0, 1}
  BY MemoryFacts DEF Extra
<1>6. ASSUME \A e \in Dirs : refs_DIR'[e] \in Int /\ refs_DIR'[e] >= refs_DIR[e]
      PROVE  Covered'
  <2>1. ASSUME NEW e \in Dirs
        PROVE  refs_DIR'[e] >= Cardinality({t \in Procs' : n_directorio'[t] = e}) + Extra(e)
    <3>1. refs_DIR[e] >= Cardinality(Residents(e)) + Extra(e)
      BY DEF Apart, Covered
    <3>2. Cardinality({t \in Procs' : n_directorio'[t] = e}) = Cardinality(Residents(e))
      BY <1>4
    <3>3. refs_DIR'[e] >= Cardinality(Residents(e)) + Extra(e)
      BY <1>5, <1>6, <3>1
    <3> QED
      BY <3>2, <3>3
  <2> QED
    BY <2>1 DEF Covered, Residents, Extra
<1>7. CASE ForkWithoutDIR(new)
  BY <1>3, <1>5, <1>6, <1>7 DEF ForkWithoutDIR, Apart, OwnHomes, CodeFrames, BootFrame
<1>8. CASE ForkWithoutFrames(new)
  <2>1. PICK d \in Dirs, n \in 0 .. NUM_PAG_DATA - 1 :
          /\ allocate_DIR(d)
          /\ refs_DIR' = [refs_DIR EXCEPT ![d] = @ + 1]
          /\ phys_mem' = RevertedFrames(FreeFrames)
          /\ \E r : PT' = [PT EXCEPT ![d] = r]
    BY <1>8 DEF ForkWithoutFrames
  <2>2. FirstCodeFrame
    <3>1. BootFrame(0) = NUM_PAG_KERNEL /\ 0 \in 0 .. NUM_PAG_CODE - 1
      BY Constants DEF BootFrame
    <3> QED
      BY <3>1 DEF Apart, CodeFrames, FirstCodeFrame
  <2>3. phys_mem' = phys_mem
    BY <2>1, <2>2, RevertsAll
  <2>4. d \notin Homes
    BY <2>1, HomesTaken DEF Apart, allocate_DIR, Extra
  <2>5. \A e \in Homes : PT'[e] = PT[e]
    BY <2>1, <2>4, HomesTaken, MemoryFacts DEF Apart
  <2>6. OwnHomes'
    BY <1>3, <2>3, <2>5 DEF Apart, OwnHomes, BootFrame
  <2>7. Covered'
    BY <1>5, <1>6, <2>1, MemoryFacts
  <2> QED
    BY <1>3, <2>3, <2>6, <2>7 DEF Apart, CodeFrames, BootFrame
<1> QED
  BY <1>7, <1>8

\* The last process of a directory takes its frames with it, which are nobody
\* else's.
LEMMA ExitApart ==
  ASSUME TypeOK, Apart, current # idle_task, Procs' = Procs \ {current}, ExitMemory
  PROVE  Apart'
<1> PICK d \in Dirs : d = n_directorio[current]
  BY MemoryFacts
<1>1. d \in Homes /\ d # 0 /\ refs_DIR[d] >= 1 + Extra(d)
  BY MemoryFacts, HomesTaken DEF Homes, Apart
<1>2. n_directorio' = n_directorio /\ refs_DIR' = [refs_DIR EXCEPT ![d] = @ - 1]
  BY DEF ExitMemory
<1>3. IdleApart' /\ Covered' /\ Homes' \subseteq Homes
  <2>1. Covered'
    BY <1>2, Leaves DEF Apart
  <2> QED
    BY <1>2, <2>1 DEF Apart, IdleApart, Homes
<1>4. CASE ~LastOut
  BY <1>3, <1>4 DEF ExitMemory, Apart, OwnHomes, CodeFrames, BootFrame
<1>5. CASE LastOut
  <2> DEFINE Given == {PT[d][p] : p \in DataPages}
  <2>1. PT' = [PT EXCEPT ![d] = [p \in DataPages |-> NoFrame]] /\ phys_mem' = free_frames(phys_mem, Given)
    BY <1>5 DEF ExitMemory
  <2>2. d \notin Homes'
    <3>1. refs_DIR[d] = 1 /\ Extra(d) = 0
      BY <1>1, <1>5, MemoryFacts, CoveredFacts DEF LastOut, Apart
    <3>2. refs_DIR'[d] = 0
      BY <1>2, <3>1, MemoryFacts
    <3>3. Cardinality({t \in Procs' : n_directorio'[t] = d}) = 0
      <4>1. {t \in Procs' : n_directorio'[t] = d} = Residents(d) \ {current} /\ current \in Residents(d)
        BY <1>2, MemoryFacts DEF Residents
      <4>2. Cardinality(Residents(d)) <= 1 /\ Cardinality(Residents(d)) \in Nat /\ IsFiniteSet(Residents(d))
        BY <3>1, MemoryFacts DEF Apart, Covered
      <4>3. Cardinality(Residents(d) \ {current}) = Cardinality(Residents(d)) - 1
        BY <4>1, <4>2, FS_RemoveElement
      <4>4. IsFiniteSet(Residents(d) \ {current}) /\ Cardinality(Residents(d) \ {current}) \in Nat
        BY <4>2, FS_RemoveElement, FS_CardinalityType
      <4> QED
        BY <4>1, <4>2, <4>3, <4>4
    <3>4. {t \in Procs' : n_directorio'[t] = d} = {}
      <4>1. {t \in Procs' : n_directorio'[t] = d} \in SUBSET Tasks
        BY MemoryFacts
      <4> QED
        BY <3>3, <4>1, FiniteSizes, FS_EmptySet
    <3> QED
      BY <3>4 DEF Homes
  <2>3. \A e \in Homes' : e \in Homes /\ e # d /\ PT'[e] = PT[e]
    BY <1>3, <2>1, <2>2, HomesTaken, MemoryFacts DEF Apart
  <2>4. \A e \in Homes', p \in DataPages : PT[e][p] \notin Given /\ PT[e][p] \in phys_mem
    BY <1>1, <2>3 DEF Apart, OwnHomes
  <2>5. \A f \in CodeFrames : f \notin Given
    <3>1. \A f \in CodeFrames : f \in Int /\ f < BootFrame(NUM_PAG_CODE)
      BY Constants DEF CodeFrames, BootFrame
    <3>2. \A p \in DataPages : PT[d][p] \in Int /\ PT[d][p] >= BootFrame(NUM_PAG_CODE)
      BY <1>1, MemoryFacts DEF Apart, OwnHomes, Frames
    <3>3. BootFrame(NUM_PAG_CODE) \in Int
      BY Constants DEF BootFrame
    <3> QED
      BY <3>1, <3>2, <3>3
  <2>6. \A f \in phys_mem : f \notin Given => f \in phys_mem'
    BY <2>1 DEF free_frames
  <2> HIDE DEF Given
  <2>7. OwnHomes'
    BY <2>3, <2>4, <2>6 DEF Apart, OwnHomes, BootFrame
  <2>8. (CodeFrames \subseteq phys_mem)'
    BY <2>5, <2>6 DEF Apart, CodeFrames, BootFrame
  <2> QED
    BY <1>3, <2>7, <2>8 DEF Apart
<1> QED
  BY <1>4, <1>5

\* Every step of the kernel keeps processes apart.
LEMMA ApartStep ==
  ASSUME QueueInd, ApartInd, [Next]_vars
  PROVE  ApartInd'
<1> SUFFICES ASSUME KernelRuns' PROVE Apart'
  BY DEF ApartInd
<1>1. TypeOK /\ Apart
  BY RunsBefore DEF QueueInd, ApartInd
<1>2. CASE Stays
  BY <1>1, <1>2 DEF Stays, memVars, Apart, IdleApart, Covered, Residents, Homes, OwnHomes, CodeFrames
<1>3. ASSUME NEW new \in Tasks, Creates(new) PROVE Apart'
  BY <1>1, <1>3, ForkApart, CloneApart DEF Creates, WasFree
<1>4. ASSUME NEW new \in Tasks, Abandons(new) PROVE Apart'
  BY <1>1, <1>4, AbandonApart DEF Abandons, WasFree
<1>5. CASE Exits
  BY <1>1, <1>5, ExitApart DEF Exits, ExitSwitches
<1> QED
  BY <1>2, <1>3, <1>4, <1>5, StepShape

-----------------------------------------------------------------------------
(* The boot and the conclusions.                                           *)

\* Right after the boot idle and init are the only processes, in directories 0
\* and 1.
LEMMA MemoryIndInit == Init => MemoryInd
<1> SUFFICES ASSUME Init PROVE IdleApart /\ Counted /\ OwnFrames /\ Accounted
  BY DEF MemoryInd
<1> USE Constants
<1>1. TypeOK /\ MemoryInit
  BY InitTypeOK DEF Init
<1>2. Procs = {idle_task, init_task}
  BY StartProcs
<1>3. \A t \in Tasks : n_directorio[t] = IF t = init_task THEN 1 ELSE 0
  BY <1>1 DEF MemoryInit
<1>4. IdleApart
  BY <1>2, <1>3, SpecialTasks DEF IdleApart
<1>5. Residents(0) = {idle_task} /\ Residents(1) = {init_task}
      /\ \A d \in Dirs \ {0, 1} : Residents(d) = {}
  BY <1>2, <1>3, SpecialTasks DEF Residents
<1>6. \A d \in Dirs : refs_DIR[d] = IF d \in {0, 1} THEN 2 ELSE 0
  BY <1>1 DEF MemoryInit
<1>7. Counted
  <2>1. \A d \in Dirs : Cardinality(Residents(d)) = IF d \in {0, 1} THEN 1 ELSE 0
    BY <1>5, FS_EmptySet, FS_Singleton
  <2> QED
    BY <1>6, <2>1 DEF Counted, Extra
<1>8. DirsInUse = {1}
  BY <1>1, <1>6, MemoryFacts DEF DirsInUse
<1>9. \A p \in DataPages : PT[1][p] = BootFrame(NUM_PAG_CODE + p)
  BY <1>1, MemoryFacts DEF MemoryInit
<1>10. OwnFrames
  <2>1. \A p \in DataPages : p \in Nat /\ PT[1][p] = NUM_PAG_KERNEL + 2 * (NUM_PAG_CODE + p)
    BY <1>9 DEF BootFrame, DataPages
  <2>2. \A p \in DataPages : PT[1][p] >= BootFrame(NUM_PAG_CODE)
    BY <2>1 DEF BootFrame
  <2>3. \A p, q \in DataPages : PT[1][p] = PT[1][q] => p = q
    BY <2>1
  <2> QED
    BY <1>8, <2>2, <2>3 DEF OwnFrames
<1>11. Accounted
  <2> DEFINE BootFrames == {BootFrame(k) : k \in 0 .. NUM_PAG_CODE + NUM_PAG_DATA - 1}
             DataOfInit == {BootFrame(NUM_PAG_CODE + p) : p \in DataPages}
  <2>1. DataFrames = DataOfInit
    BY <1>8, <1>9 DEF DataFrames
  <2>2. BootFrames = CodeFrames \cup DataOfInit
    <3>1. \A k \in 0 .. NUM_PAG_CODE + NUM_PAG_DATA - 1 :
            k \in 0 .. NUM_PAG_CODE - 1 \/ (k - NUM_PAG_CODE \in DataPages /\ k = NUM_PAG_CODE + (k - NUM_PAG_CODE))
      BY DEF DataPages
    <3>2. \A f \in BootFrames : f \in CodeFrames \cup DataOfInit
      BY <3>1 DEF CodeFrames
    <3>3. \A f \in CodeFrames : f \in BootFrames
      BY DEF CodeFrames
    <3>4. \A p \in DataPages : NUM_PAG_CODE + p \in 0 .. NUM_PAG_CODE + NUM_PAG_DATA - 1
      BY DEF DataPages
    <3>5. \A f \in DataOfInit : f \in BootFrames
      BY <3>4
    <3> HIDE DEF BootFrames, DataOfInit
    <3> QED
      BY <3>2, <3>3, <3>5
  <2>3. phys_mem = (0 .. NUM_PAG_KERNEL - 1) \cup BootFrames
    BY <1>1 DEF MemoryInit
  <2> HIDE DEF BootFrames, DataOfInit
  <2> QED
    BY <2>1, <2>2, <2>3 DEF Accounted
<1> QED
  BY <1>4, <1>7, <1>10, <1>11

\* With two free PCBs left there is a directory left: the ones in use, but for
\* the two of the boot, have a process each, and idle is in none of those.
LEMMA DirectoryLeft ==
  ASSUME TypeOK, Core, FreeListInv, IdleApart, Counted, ~Exhausted, Len(freequeue) > 1
  PROVE  \E d \in Dirs : refs_DIR[d] = 0
<1> SUFFICES ASSUME \A d \in Dirs : refs_DIR[d] # 0 PROVE FALSE
  OBVIOUS
<1> DEFINE a == freequeue[1]
           b == freequeue[2]
           P == Procs \ {idle_task}
           T == (Dirs \ {0}) \ {1}
           R == {n_directorio[t] : t \in P}
           f == [t \in P |-> n_directorio[t]]
<1>1. /\ a \in Tasks /\ b \in Tasks /\ a # b /\ PID[a] = -1 /\ PID[b] = -1
  <2>1. freequeue \in Seq(Tasks) /\ IsInjective(freequeue) /\ 1 \in DOMAIN freequeue /\ 2 \in DOMAIN freequeue
    BY DEF TypeOK, SchedTypeOK, FreeListInv
  <2> QED
    BY <2>1 DEF FreeListInv, IsInjective
<1>2. a \notin Procs /\ b \notin Procs /\ idle_task \in Procs /\ Procs \subseteq Tasks
  BY <1>1, ProcsLive, MemoryFacts
<1> HIDE DEF a, b
<1>3. IsFiniteSet(P) /\ Cardinality(P) \in Nat /\ Cardinality(P) <= NR_TASKS - 3
  <2> DEFINE A == Tasks \ {idle_task}
             B == A \ {a}
             C == B \ {b}
  <2>1. IsFiniteSet(A) /\ Cardinality(A) = NR_TASKS - 1
    BY <1>2, FiniteSizes, FS_RemoveElement
  <2>2. IsFiniteSet(B) /\ Cardinality(B) = NR_TASKS - 1 - 1
    <3>1. a \in A
      BY <1>1, <1>2
    <3> HIDE DEF A
    <3> QED
      BY <2>1, <3>1, FS_RemoveElement
  <2>3. IsFiniteSet(C) /\ Cardinality(C) = NR_TASKS - 1 - 1 - 1
    <3>1. b \in B
      BY <1>1, <1>2
    <3> HIDE DEF B
    <3> QED
      BY <2>2, <3>1, FS_RemoveElement
  <2>4. P \in SUBSET C
    BY <1>2
  <2> HIDE DEF C, P
  <2> QED
    BY <2>3, <2>4, Constants, FS_Subset, FS_CardinalityType
<1>4. IsFiniteSet(R) /\ Cardinality(R) \in Nat /\ Cardinality(R) <= Cardinality(P)
  <2>1. f \in [P -> R] /\ \A d \in R : \E t \in P : f[t] = d
    OBVIOUS
  <2> HIDE DEF f, R, P
  <2> QED
    BY <1>3, <2>1, ImageBound
<1>5. IsFiniteSet(T) /\ Cardinality(T) = NR_TASKS - 2
  <2>1. IsFiniteSet(Dirs \ {0}) /\ Cardinality(Dirs \ {0}) = NR_TASKS - 1
    BY MemoryFacts, FiniteSizes, FS_RemoveElement DEF Dirs
  <2>2. 1 \in Dirs \ {0}
    BY MemoryFacts
  <2>3. IsFiniteSet(T) /\ Cardinality(T) = NR_TASKS - 1 - 1
    BY <2>1, <2>2, FS_RemoveElement
  <2> QED
    BY <2>3, Constants
<1>6. T \in SUBSET R
  <2> SUFFICES ASSUME NEW d \in T PROVE d \in R
    OBVIOUS
  <2>1. d \in Dirs /\ Extra(d) = 0 /\ d # 0
    BY DEF Extra
  <2>2. Cardinality(Residents(d)) # 0
    BY <2>1, MemoryFacts DEF Counted
  <2>3. Residents(d) # {}
    BY <2>2, FS_EmptySet
  <2>4. PICK t \in Procs : n_directorio[t] = d
    BY <2>3 DEF Residents
  <2>5. t # idle_task
    BY <2>1, <2>4 DEF IdleApart
  <2> QED
    BY <2>4, <2>5
<1> HIDE DEF P, T, R
<1>7. Cardinality(T) <= Cardinality(R)
  BY <1>4, <1>6, FS_Subset
<1> QED
  BY <1>3, <1>4, <1>5, <1>7, Constants

\* What the invariant is for.
LEMMA MemoryIndImplies ==
  ASSUME MemorySuffices, QueueInd, MemoryInd
  PROVE  DirectoryCounts /\ FramesAccounted /\ ForkHasMemory
<1>1. DirectoryCounts
  BY DEF MemoryInd, Counted, Residents, DirectoryCounts
<1>2. FramesAccounted
  BY DEF MemoryInd, Accounted, CodeFrames, DataFrames, DirsInUse, FramesAccounted
<1>3. ForkHasMemory
  <2> SUFFICES ASSUME CanCreate, ~Exhausted, Len(freequeue) > 1
               PROVE  ~NoDIR /\ Cardinality(FreeFrames) >= NUM_PAG_DATA
    BY DEF ForkHasMemory
  <2>1. TypeOK /\ Core /\ FreeListInv /\ IdleApart /\ Counted /\ Accounted
    BY DEF QueueInd, Rest, MemoryInd, CanCreate, InUserProcess
  <2>2. PICK d \in Dirs : refs_DIR[d] = 0
    BY <2>1, DirectoryLeft
  <2>3. d # 0
    BY <2>1, <2>2, CountedFacts
  <2> QED
    BY <2>1, <2>2, <2>3, DirectoryHasFrames DEF NoDIR
<1> QED
  BY <1>1, <1>2, <1>3

\* init's home is directory 1.
LEMMA ApartInit == Init => ApartInd
<1> SUFFICES ASSUME Init PROVE Apart
  BY DEF ApartInd
<1>1. TypeOK /\ KernelRuns
  BY InitTypeOK DEF Init, SchedInit, KernelRuns
<1>2. IdleApart /\ Counted /\ OwnFrames /\ Accounted
  BY <1>1, MemoryIndInit DEF MemoryInd
<1>3. \A d \in Dirs : Cardinality(Residents(d)) \in Nat /\ Extra(d) \in {0, 1}
  BY <1>1, MemoryFacts DEF Extra
<1>4. Covered
  BY <1>2, <1>3 DEF Counted, Covered
<1>5. \A d \in Homes : d \in DirsInUse
  BY <1>1, <1>2, <1>4, HomesTaken, MemoryFacts DEF DirsInUse, Extra
<1>6. \A d \in Homes, p \in DataPages : PT[d][p] \in phys_mem
  BY <1>2, <1>5 DEF Accounted, DataFrames
<1> QED
  BY <1>2, <1>4, <1>5, <1>6 DEF Apart, OwnHomes, OwnFrames, Accounted

\* Every reachable state of a machine with that memory satisfies the invariant.
LEMMA MemoryInvariant ==
  ASSUME MemorySuffices
  PROVE  Spec => [](QueueInd /\ MemoryInd)
<1>1. Init => QueueInd /\ MemoryInd
  BY InitQueueInd, MemoryIndInit
<1>2. QueueInd /\ MemoryInd /\ [Next]_vars => (QueueInd /\ MemoryInd)'
  BY NextQueueInd, MemoryStep
<1> QED
  BY <1>1, <1>2, PTL DEF Spec

\* fork, clone and exit count the processes of every directory.
THEOREM DirectoriesCounted ==
  ASSUME MemorySuffices
  PROVE  Spec => []DirectoryCounts
<1>1. QueueInd /\ MemoryInd => DirectoryCounts
  BY MemoryIndImplies
<1> QED
  BY <1>1, MemoryInvariant, PTL

\* Processes in different directories share no data frame, and have none of the
\* kernel's or the code's, also when forks fail for want of memory.
THEOREM ProcessesIsolated == Spec => []Isolation
<1>1. Init => QueueInd /\ ApartInd
  BY InitQueueInd, ApartInit
<1>2. QueueInd /\ ApartInd /\ [Next]_vars => (QueueInd /\ ApartInd)'
  BY NextQueueInd, ApartStep
<1>3. ApartInd => Isolation
  BY DEF ApartInd, Apart, OwnHomes, Homes, Isolation
<1> QED
  BY <1>1, <1>2, <1>3, PTL DEF Spec

\* exit gives back exactly the frames fork took: no frame leaks and none is
\* given out twice.
THEOREM NoFrameLeaks ==
  ASSUME MemorySuffices
  PROVE  Spec => []FramesAccounted
<1>1. QueueInd /\ MemoryInd => FramesAccounted
  BY MemoryIndImplies
<1> QED
  BY <1>1, MemoryInvariant, PTL

\* A fork finds a directory and frames unless it takes the last free PCB.
THEOREM ForksFindMemory ==
  ASSUME MemorySuffices
  PROVE  Spec => []ForkHasMemory
<1>1. QueueInd /\ MemoryInd => ForkHasMemory
  BY MemoryIndImplies
<1> QED
  BY <1>1, MemoryInvariant, PTL

=============================================================================
