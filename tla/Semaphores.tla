----------------------------- MODULE Semaphores -----------------------------
(***************************************************************************)
(* The counting semaphores of sys.c: a fixed table, found by name, owned   *)
(* by the process that initialised them.  An operation that returns an     *)
(* error (EBUSY, EINVAL, EPERM) changes nothing and is no action here.     *)
(***************************************************************************)
EXTENDS Interrupts

CONSTANTS
  NSEM,        \* entries of semaphores[]                    (sched.c:23: 20)
  SemIds,      \* the names processes use; any int will do
  SemValues,   \* initial values, as the int the unsigned argument becomes
  MaxCounter   \* bound: signals are counted up to here

ASSUME SemaphoresAssumption ==
  NSEM \in Nat \ {0} /\ SemIds \subseteq Int /\ SemValues \subseteq Int /\ MaxCounter \in Int

Slots == 0 .. NSEM - 1

VARIABLES
  semaphores,     \* the table, without the queues
  blockedQueue,   \* semaphores[i].blockedQueue
  sem_ret         \* task_struct.sem_ret: what a blocked sem_wait will return

semVars == <<semaphores, blockedQueue, sem_ret>>

SemaphoresInit ==
  /\ semaphores = [i \in Slots |-> [state |-> "FREE", n_sem |-> 0, owner |-> 0, counter |-> 0]]
  /\ blockedQueue = [i \in Slots |-> <<>>]
  /\ sem_ret = [t \in Tasks |-> 0]

Named(i, n) == semaphores[i].n_sem = n /\ semaphores[i].state = "USED"

\* cerca_sem(n) returns i: the first slot in use with that name.
cerca_sem(n, i) == Named(i, n) /\ \A j \in Slots : j < i => ~Named(j, n)

\* cerca_sem_lliure() returns i: the first slot that is free.
cerca_sem_lliure(i) ==
  semaphores[i].state = "FREE" /\ \A j \in Slots : j < i => semaphores[j].state # "FREE"

NoFreeSlot == \A i \in Slots : semaphores[i].state # "FREE"

\* A full table is not an error: cerca_sem_lliure answers -1 and the new
\* semaphore is written over whatever lies in front of the table.
sys_sem_init(n, value) ==
  /\ InUserProcess
  /\ \A i \in Slots : ~Named(i, n)
  /\ \/ \E i \in Slots :
          /\ cerca_sem_lliure(i)
          /\ semaphores' = [semaphores EXCEPT
               ![i] = [state |-> "USED", n_sem |-> n, owner |-> PID[current], counter |-> value]]
          /\ blockedQueue' = [blockedQueue EXCEPT ![i] = <<>>]
          /\ UNCHANGED fault
     \/ /\ NoFreeSlot
        /\ fault' = "oob"
        /\ UNCHANGED <<semaphores, blockedQueue>>
  /\ UNCHANGED <<freequeue, freelinks, readyqueue, PID, estado, quantum, current, qLeft, kbVars, sem_ret>>

\* A destroyed slot: the counter keeps its value.
Destroyed(s) == [s EXCEPT !.state = "FREE", !.n_sem = -1, !.owner = 0]

\* The states and return values of the waiters a destroy lets go.
Released(st, woken) == [t \in Tasks |-> IF t \in woken THEN "READY" ELSE st[t]]

\* Variant: the waiters are let go with the answer of a successful wait.
FailedWait_Success(woken) == sem_ret

FailedWait(woken) == [t \in Tasks |-> IF t \in woken THEN -1 ELSE sem_ret[t]]

sys_sem_destroy(n) ==
  /\ InUserProcess
  /\ \E i \in Slots :
       /\ cerca_sem(n, i)
       /\ semaphores[i].owner = PID[current]
       /\ readyqueue' = readyqueue \o blockedQueue[i]
       /\ estado' = Released(estado, Range(blockedQueue[i]))
       /\ sem_ret' = FailedWait(Range(blockedQueue[i]))
       /\ blockedQueue' = [blockedQueue EXCEPT ![i] = <<>>]
       /\ semaphores' = [semaphores EXCEPT ![i] = Destroyed(@)]
  /\ UNCHANGED <<freequeue, freelinks, PID, quantum, current, qLeft, fault, kbVars>>

\* Variant: as if there were never more than one unit.
OneLess_None(s) == [s EXCEPT !.counter = 0]

\* A unit more, a unit less.
OneMore(s) == [s EXCEPT !.counter = @ + 1]
OneLess(s) == [s EXCEPT !.counter = @ - 1]

\* Variants: the unit is counted although there is a waiter; the waiter is put
\* in front of the ready queue.
SignalCounts_Always(i) ==
  /\ semaphores[i].counter < MaxCounter
  /\ semaphores' = [semaphores EXCEPT ![i] = OneMore(@)]
  /\ UNCHANGED <<readyqueue, estado, blockedQueue>>

WithWoken_InFront(t) == <<t>> \o readyqueue

SignalCounts(i) ==
  /\ blockedQueue[i] = <<>> /\ semaphores[i].counter < MaxCounter
  /\ semaphores' = [semaphores EXCEPT ![i] = OneMore(@)]
  /\ UNCHANGED <<readyqueue, estado, blockedQueue>>

WithWoken(t) == Append(readyqueue, t)

SignalWakes(i) ==
  /\ blockedQueue[i] # <<>>
  /\ blockedQueue' = [blockedQueue EXCEPT ![i] = Tail(@)]
  /\ readyqueue' = WithWoken(Head(blockedQueue[i]))
  /\ estado' = [estado EXCEPT ![Head(blockedQueue[i])] = "READY"]
  /\ UNCHANGED semaphores

sys_sem_signal(n) ==
  /\ InUserProcess
  /\ \E i \in Slots : cerca_sem(n, i) /\ (SignalCounts(i) \/ SignalWakes(i))
  /\ UNCHANGED <<freequeue, freelinks, PID, quantum, current, qLeft, fault, kbVars, sem_ret>>

sys_sem_wait(n) ==
  /\ InUserProcess
  /\ \E i \in Slots :
       /\ cerca_sem(n, i)
       /\ sem_ret' = [sem_ret EXCEPT ![current] = 0]
       /\ \/ /\ semaphores[i].counter <= 0
             /\ blockedQueue' = [blockedQueue EXCEPT ![i] = Append(@, current)]
             /\ Dispatch(readyqueue, exitRunCurrent("BLOCKED"), missingKeys)
             /\ UNCHANGED semaphores
          \/ /\ semaphores[i].counter > 0
             /\ semaphores' = [semaphores EXCEPT ![i] = OneLess(@)]
             /\ UNCHANGED <<blockedQueue, readyqueue, estado, current, qLeft, fault, missingKeys, keyboardBuff>>
  /\ UNCHANGED <<freequeue, freelinks, PID, quantum, keyboardqueue>>

SemaphoresTypeOK ==
  /\ semaphores \in [Slots -> [state : {"FREE", "USED"}, n_sem : Int, owner : Int, counter : Int]]
  /\ blockedQueue \in [Slots -> Seq(Tasks)]
  /\ sem_ret \in [Tasks -> {0, -1}]

=============================================================================
