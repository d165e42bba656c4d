-------------------------- MODULE CountingSemaphores --------------------------
(***************************************************************************)
(* What the semaphores promise to the processes that know them by name.    *)
(* A semaphore lives from its creation until its owner destroys it or      *)
(* ends.  Units are neither lost nor invented: a signal hands one to the   *)
(* process that has waited longest or, with nobody waiting, keeps it; a    *)
(* wait takes one or waits for it.                                         *)
(***************************************************************************)
EXTENDS Integers, Sequences, Functions

CONSTANTS Processes, Names, Values

VARIABLE sems      \* of every name in use: the owner, the units, who waits

vars == <<sems>>

Init == sems = << >>

Waiting == UNION {Range(sems[n].waiters) : n \in DOMAIN sems}

Create(p, n, v) ==
  /\ n \notin DOMAIN sems
  /\ sems' = [m \in DOMAIN sems \cup {n} |->
       IF m = n THEN [owner |-> p, units |-> v, waiters |-> <<>>] ELSE sems[m]]

Take(n) ==
  /\ sems[n].units > 0
  /\ sems' = [sems EXCEPT ![n].units = @ - 1]

Join(p, n) ==
  /\ sems[n].units <= 0
  /\ sems' = [sems EXCEPT ![n].waiters = Append(@, p)]

Keep(n) ==
  /\ sems[n].waiters = <<>>
  /\ sems' = [sems EXCEPT ![n].units = @ + 1]

HandOver(n) ==
  /\ sems[n].waiters # <<>>
  /\ sems' = [sems EXCEPT ![n].waiters = Tail(@)]

Destroy(p, n) ==
  /\ sems[n].owner = p
  /\ sems' = Restrict(sems, DOMAIN sems \ {n})

\* All that p owns goes with it.
End(p) ==
  /\ \E n \in DOMAIN sems : sems[n].owner = p
  /\ sems' = Restrict(sems, {n \in DOMAIN sems : sems[n].owner # p})

Next ==
  \/ \E n \in DOMAIN sems : Take(n) \/ Keep(n) \/ HandOver(n)
  \/ \E p \in Processes \ Waiting :
       \/ End(p)
       \/ \E n \in Names, v \in Values : Create(p, n, v)
       \/ \E n \in DOMAIN sems : Join(p, n) \/ Destroy(p, n)

Spec == Init /\ [][Next]_vars

=============================================================================
