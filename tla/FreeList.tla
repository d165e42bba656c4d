------------------------------ MODULE FreeList ------------------------------
(***************************************************************************)
(* The list of free PCBs (`freequeue', sched.c:15), as the kernel sees it. *)
(*                                                                         *)
(* sys_exit links the PCB of the dying process into freequeue TWICE, at    *)
(* sys.c:140 and again through update_process_state_rr at sys.c:144: the   *)
(* state is still ST_RUN there, so nothing is unlinked in between.  After  *)
(* that the list is no longer the ring list.c takes it for, and what a     *)
(* later list_del or list_add_tail does depends on the links the double    *)
(* insertion left.  This module is the sequence-level account of the list: *)
(* `freequeue' is what a walk along the `next' links from the head finds,  *)
(* `freelinks' says which of the link shapes the list has.  PCBLists has   *)
(* the pointers themselves and implements this account.                    *)
(***************************************************************************)
EXTENDS Integers, Sequences

VARIABLES
  freequeue,   \* the PCBs a walk along the next links meets, first to last
  freelinks    \* the shape of the links, an element of LinkShapes

(***************************************************************************)
(*  proper     a ring through the head, as list.c assumes                  *)
(*  loop       the last PCB is its own successor; the first one's          *)
(*             predecessor is the head                                     *)
(*  loopfront  the last PCB is its own successor and the first PCB is its  *)
(*             own predecessor                                             *)
(*  stuck      the head still points at the one PCB that was just removed, *)
(*             forwards and backwards                                      *)
(*  stranded   the head still points forwards at the PCB just removed; the *)
(*             PCBs that were behind it hang from head.prev only           *)
(***************************************************************************)
LinkShapes == {"proper", "loop", "loopfront", "stuck", "stranded"}

\* The first PCB of the list is one that has been handed out already.
Exhausted == freelinks \in {"stuck", "stranded"}

\* list_first(&freequeue): the PCB fork and clone take.
FirstFree   == Head(freequeue)
OnlyOneFree == Len(freequeue) = 1

FreeListInit(q) == freequeue = q /\ freelinks = "proper"

\* list_del(list_first(&freequeue)), the caller having checked list_empty.
TakeFirst ==
  /\ freequeue # <<>>
  /\ \/ /\ freelinks = "proper" \/ (freelinks = "loop" /\ ~OnlyOneFree)
        /\ freequeue' = Tail(freequeue)
        /\ UNCHANGED freelinks
     \/ /\ freelinks \in {"loop", "loopfront"} /\ OnlyOneFree
        /\ freelinks' = "stuck"
        /\ UNCHANGED freequeue
     \/ /\ freelinks = "loopfront" /\ ~OnlyOneFree
        /\ freequeue' = <<FirstFree>>
        /\ freelinks' = "stranded"
     \/ /\ Exhausted
        /\ UNCHANGED <<freequeue, freelinks>>

\* The two list_add_tail(&t->list, &freequeue) of sys_exit.
AddTwice(t) ==
  \/ /\ freelinks \in {"proper", "loop"}
     /\ freequeue' = Append(freequeue, t)
     /\ freelinks' = IF freequeue = <<>> THEN "loopfront" ELSE "loop"
  \/ /\ freelinks = "loopfront"
     /\ freequeue' = Append(freequeue, t)
     /\ UNCHANGED freelinks
  \/ /\ Exhausted /\ t = FirstFree
     /\ freelinks' = "loopfront"
     /\ UNCHANGED freequeue
  \/ /\ freelinks = "stranded" /\ t # FirstFree
     /\ UNCHANGED <<freequeue, freelinks>>

\* The insertion would write the links of a PCB that was handed out, which
\* sits in another queue: from there on the queues are not lists any more.
WouldCorrupt(t) == freelinks = "stuck" /\ t # FirstFree

=============================================================================
