------------------------------ MODULE PCBQueues ------------------------------
(***************************************************************************)
(* What the kernel's list handling comes to, as sequences: the PCBs move   *)
(* between the free list, the ready queue and a wait queue (a semaphore's, *)
(* or the keyboard's) and one of them, or the idle task, is running.  The  *)
(* abstract specification that PCBLists, with its pointers, implements.    *)
(***************************************************************************)
EXTENDS FreeList

CONSTANT NR_TASKS

Tasks     == 0 .. NR_TASKS - 1
idle_task == NR_TASKS - 1
init_task == NR_TASKS - 2

VARIABLES readyqueue, waitqueue, current, halted
vars == <<freequeue, freelinks, readyqueue, waitqueue, current, halted>>

InQueue(t, q) == \E i \in DOMAIN q : q[i] = t
Removed(q, i) == [j \in 1 .. Len(q) - 1 |-> q[IF j < i THEN j ELSE j + 1]]
Without(q, t) == IF InQueue(t, q) THEN Removed(q, CHOOSE i \in DOMAIN q : q[i] = t) ELSE q

\* init_sched pushes task[0], task[1], ... with list_add, at the front; the
\* last two pushed are taken by init_idle and init_task1.
BootFreeQueue == [i \in 1 .. NR_TASKS - 2 |-> NR_TASKS - 2 - i]

Init == /\ FreeListInit(BootFreeQueue)
        /\ readyqueue = <<>> /\ waitqueue = <<>>
        /\ current = init_task
        /\ halted = "no"

\* sched_next_rr after the queues were updated to rq.
Dispatch(rq) ==
  \/ /\ rq # <<>>
     /\ readyqueue' = Tail(rq) /\ current' = Head(rq)
  \/ /\ rq = <<>>
     /\ readyqueue' = rq /\ current' = idle_task

Running == halted = "no"
InUserProcess == Running /\ current # idle_task

\* A fork or clone that succeeds: first free PCB to the end of the ready queue.
Spawn ==
  /\ InUserProcess
  /\ TakeFirst
  /\ UNCHANGED current
  /\ \/ /\ ~Exhausted
        /\ readyqueue' = Append(readyqueue, FirstFree)
        /\ UNCHANGED <<waitqueue, halted>>
     \/ \* the PCB of a live process, taken out of the queue it is in
        /\ Exhausted /\ (InQueue(FirstFree, readyqueue) \/ InQueue(FirstFree, waitqueue))
        /\ readyqueue' = Append(Without(readyqueue, FirstFree), FirstFree)
        /\ waitqueue' = Without(waitqueue, FirstFree)
        /\ halted' = "reused"
     \/ \* it is in no queue: list_del follows its null links
        /\ Exhausted
        /\ ~InQueue(FirstFree, readyqueue) /\ ~InQueue(FirstFree, waitqueue)
        /\ halted' = "pagefault"
        /\ UNCHANGED <<readyqueue, waitqueue>>

\* A fork that fails after the PCB was taken: no queue gets it back.
Abort ==
  /\ InUserProcess /\ ~Exhausted
  /\ TakeFirst
  /\ UNCHANGED <<readyqueue, waitqueue, current, halted>>

Die ==
  /\ InUserProcess
  /\ \/ /\ AddTwice(current)
        /\ Dispatch(readyqueue)
        /\ UNCHANGED <<waitqueue, halted>>
     \/ /\ WouldCorrupt(current)
        /\ halted' = "corrupt"
        /\ UNCHANGED <<freequeue, freelinks, readyqueue, waitqueue, current>>

Preempt ==
  /\ Running /\ readyqueue # <<>>
  /\ Dispatch(Append(readyqueue, current))
  /\ UNCHANGED <<freequeue, freelinks, waitqueue, halted>>

\* sem_wait and most reads queue at the tail; a read that finds nobody
\* waiting inserts at the head of the empty queue, which is the same.
Block ==
  /\ InUserProcess
  /\ waitqueue' = Append(waitqueue, current)
  /\ Dispatch(readyqueue)
  /\ UNCHANGED <<freequeue, freelinks, halted>>

Wake ==
  /\ Running /\ waitqueue # <<>>
  /\ waitqueue' = Tail(waitqueue)
  /\ readyqueue' = Append(readyqueue, Head(waitqueue))
  /\ UNCHANGED <<freequeue, freelinks, current, halted>>

Next == Spawn \/ Abort \/ Die \/ Preempt \/ Block \/ Wake

Spec == Init /\ [][Next]_vars

=============================================================================
