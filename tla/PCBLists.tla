------------------------------ MODULE PCBLists ------------------------------
(***************************************************************************)
(* The kernel's queues with their pointers: the `list' field of every PCB, *)
(* the three list heads, and the handlers' list operations in the order    *)
(* the code calls them.  It implements PCBQueues, so the sequence-level    *)
(* account of the queues (FreeList above all) is what list.c really does.  *)
(***************************************************************************)
EXTENDS KList, Sequences, FiniteSets

CONSTANT NR_TASKS
ASSUME TasksAssumption == NR_TASKS \in Nat /\ NR_TASKS > 2

Tasks     == 0 .. NR_TASKS - 1
idle_task == NR_TASKS - 1
init_task == NR_TASKS - 2

\* Addresses of the list heads: freequeue, readyqueue and a wait queue.
FREEQ  == -2
READYQ == -3
WAITQ  == -4
Heads  == {FREEQ, READYQ, WAITQ}
Nodes  == Tasks \cup Heads

VARIABLES
  h,        \* the links of all nodes
  estado,   \* task_struct.estado
  alive,    \* the PCBs whose PID is not -1
  current,  \* the PCB whose kernel stack is in use
  halted    \* why the model ends here: "no" while it does not
vars == <<h, estado, alive, current, halted>>

(***************************************************************************)
(* init_sched, init_idle, init_task1.  The heap is threaded from one list  *)
(* call to the next; Pushed[k] is the heap after task[0 .. k-1] were pushed*)
(***************************************************************************)
EmptyHeads ==
  LET h0 == [next |-> [n \in Nodes |-> NULL], prev |-> [n \in Nodes |-> NULL], fault |-> FALSE]
  IN  INIT_LIST_HEAD(INIT_LIST_HEAD(INIT_LIST_HEAD(h0, WAITQ), FREEQ), READYQ)

Pushed[k \in 0 .. NR_TASKS] ==
  IF k = 0 THEN EmptyHeads ELSE list_add(Pushed[k - 1], k - 1, FREEQ)

Booted ==
  LET h1 == list_del(Pushed[NR_TASKS], list_first(Pushed[NR_TASKS], FREEQ))
  IN  list_del(h1, list_first(h1, FREEQ))

Init == /\ h = Booted
        /\ estado = [t \in Tasks |-> "RUN"]
        /\ alive = {idle_task, init_task}
        /\ current = init_task
        /\ halted = "no"

\* Variant: the PCB is not taken out of the queue it is in.
Unlink_Never(s, t) == s.h

\* A PCB that is not running hangs in a queue.
Unlink(s, t) == IF s.st[t] # "RUN" THEN list_del(s.h, t) ELSE s.h

\* update_process_state_rr(t, dst) on a pair of heap and states; the NULL
\* destination means "to run".
update_process_state_rr(s, t, dst) ==
  IF dst = NULL
  THEN [h |-> Unlink(s, t), st |-> [s.st EXCEPT ![t] = "RUN"]]
  ELSE [h |-> list_add_tail(Unlink(s, t), t, dst),
        st |-> [s.st EXCEPT ![t] = IF dst = READYQ THEN "READY" ELSE "BLOCKED"]]

\* sched_next_rr in the state s the caller's updates left.
sched_next_rr(s) ==
  IF list_empty(s.h, READYQ)
  THEN h' = s.h /\ estado' = s.st /\ current' = idle_task
  ELSE LET nextt == list_first(s.h, READYQ)
           s1    == update_process_state_rr(s, nextt, NULL)
       IN  h' = s1.h /\ estado' = s1.st /\ current' = nextt

Now == [h |-> h, st |-> estado]
InUserProcess == halted = "no" /\ current # idle_task

\* list_del of the first free PCB, then copy_data of the parent's task_struct
\* over it, links included.
Taken(new) ==
  LET h1 == list_del(h, new)
  IN  [h1 EXCEPT !.next[new] = h1.next[current], !.prev[new] = h1.prev[current]]

\* sys_fork and sys_clone when they succeed.
Spawn ==
  /\ InUserProcess /\ ~list_empty(h, FREEQ)
  /\ LET new == list_first(h, FREEQ) IN
     \/ /\ list_del(h, new).fault
        /\ h' = list_del(h, new)
        /\ halted' = "pagefault"
        /\ UNCHANGED <<estado, alive, current>>
     \/ /\ ~list_del(h, new).fault
        /\ h' = list_add_tail(Taken(new), new, READYQ)
        /\ estado' = [estado EXCEPT ![new] = "READY"]
        /\ alive' = alive \cup {new}
        /\ halted' = IF new \in alive THEN "reused" ELSE "no"
        /\ UNCHANGED current

\* sys_fork when allocate_DIR or alloc_frame fails: the PCB is a copy of the
\* parent's (PID and state included) that no list holds.
Abort ==
  /\ InUserProcess /\ ~list_empty(h, FREEQ)
  /\ LET new == list_first(h, FREEQ) IN
     /\ new \notin alive
     /\ h' = Taken(new)
     /\ estado' = [estado EXCEPT ![new] = estado[current]]
     /\ alive' = alive \cup {new}
  /\ UNCHANGED <<current, halted>>

\* sys_exit: list_add_tail (line 140), PID = -1, update_process_state_rr
\* (line 144), sched_next_rr.  It stops short where the first insertion would
\* write through the links of a PCB that is not free.
Die ==
  /\ InUserProcess
  /\ IF h.prev[FREEQ] \in alive \ {current} /\ h.next[FREEQ] = h.prev[FREEQ]
     THEN halted' = "corrupt" /\ UNCHANGED <<h, estado, alive, current>>
     ELSE /\ LET h1 == list_add_tail(h, current, FREEQ)
             IN  sched_next_rr(update_process_state_rr([Now EXCEPT !.h = h1], current, FREEQ))
          /\ alive' = alive \ {current}
          /\ UNCHANGED halted

\* schedule when the quantum is over.
Preempt ==
  /\ halted = "no" /\ ~list_empty(h, READYQ)
  /\ sched_next_rr(update_process_state_rr(Now, current, READYQ))
  /\ UNCHANGED <<alive, halted>>

\* sem_wait without a unit, a read behind other readers.
BlockTail ==
  /\ InUserProcess
  /\ sched_next_rr(update_process_state_rr(Now, current, WAITQ))
  /\ UNCHANGED <<alive, halted>>

\* The first reader: list_add and the state set by hand (devices.c:45-46).
BlockFirst ==
  /\ InUserProcess /\ list_empty(h, WAITQ)
  /\ sched_next_rr([h |-> list_add(h, current, WAITQ), st |-> [estado EXCEPT ![current] = "BLOCKED"]])
  /\ UNCHANGED <<alive, halted>>

\* sem_signal, one turn of sem_destroy's loop, or the keyboard interrupt.
Wake ==
  /\ halted = "no" /\ ~list_empty(h, WAITQ)
  /\ LET s == update_process_state_rr(Now, list_first(h, WAITQ), READYQ)
     IN  h' = s.h /\ estado' = s.st
  /\ UNCHANGED <<alive, current, halted>>

Next == Spawn \/ Abort \/ Die \/ Preempt \/ BlockTail \/ BlockFirst \/ Wake

Spec == Init /\ [][Next]_vars

-----------------------------------------------------------------------------
\* The walk along the next links from a head, up to the first node that is the
\* head, a null link, or a PCB the walk has met.
WalkFrom(next, head) ==
  LET node[k \in 1 .. NR_TASKS + 1] ==
        IF k = 1 THEN next[head]
        ELSE LET p == node[k - 1] IN IF p \in Tasks THEN next[p] ELSE p
      path == [k \in 1 .. NR_TASKS + 1 |-> node[k]]
      Ends(k) == path[k] \notin Tasks \/ \E j \in 1 .. k - 1 : path[j] = path[k]
      end == CHOOSE k \in DOMAIN path : Ends(k) /\ \A j \in 1 .. k - 1 : ~Ends(j)
  IN  SubSeq(path, 1, end - 1)

Walk(head) == WalkFrom(h.next, head)

\* What the free list is: the walk, cut to its first PCB once that PCB has
\* been handed out.
FirstIsTaken == h.next[FREEQ] \in alive
FreeWalk == IF FirstIsTaken THEN <<h.next[FREEQ]>> ELSE Walk(FREEQ)

FreeShape ==
  LET first == h.next[FREEQ]
      last  == h.prev[FREEQ]
  IN  CASE FirstIsTaken /\ last = first -> "stuck"
        [] FirstIsTaken /\ last # first -> "stranded"
        [] ~FirstIsTaken /\ h.next[last] = FREEQ -> "proper"
        [] ~FirstIsTaken /\ last # FREEQ /\ h.next[last] = last /\ h.prev[first] = FREEQ -> "loop"
        [] OTHER -> "loopfront"

PCBQueues == INSTANCE PCBQueues WITH
  freequeue <- FreeWalk, freelinks <- FreeShape,
  readyqueue <- Walk(READYQ), waitqueue <- Walk(WAITQ)

\* list.c and the handlers' calls of it do to the queues what PCBQueues says,
\* step by step; the double insertion of sys_exit gives exactly the shapes of
\* FreeList.
ImplementsQueues == PCBQueues!Spec

\* A well-formed ring: list.c's own assumption about the lists it is given.
IsRing(head) ==
  LET w  == Walk(head)
      at == [i \in 0 .. Len(w) + 1 |-> IF i \in DOMAIN w THEN w[i] ELSE head]
  IN  \A i \in 0 .. Len(w) : h.next[at[i]] = at[i + 1] /\ h.prev[at[i + 1]] = at[i]

\* Whatever state the free list is in, the queues of live processes stay
\* well-formed rings that share no PCB (until sys_exit writes through the
\* free list into one of them), and the running PCB hangs in none of them.
LiveQueuesAreRings ==
  halted # "corrupt" =>
    /\ IsRing(READYQ) /\ IsRing(WAITQ)
    /\ \A i \in DOMAIN Walk(READYQ) : \A j \in DOMAIN Walk(WAITQ) : Walk(READYQ)[i] # Walk(WAITQ)[j]
    /\ h.next[current] = NULL /\ h.prev[current] = NULL

=============================================================================
