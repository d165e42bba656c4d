---------------------------- MODULE BoundedQueue ----------------------------
(***************************************************************************)
(* What a keyboard buffer promises: keys come out in the order they went   *)
(* in, each once; a key pressed while the buffer is full is lost.          *)
(***************************************************************************)
EXTENDS Naturals, Sequences

CONSTANTS Keys, Capacity

VARIABLES
  queue,
  got      \* the key last taken out

vars == <<queue, got>>

Init == queue = <<>> /\ got \notin Keys

Put(k) ==
  /\ queue' = IF Len(queue) < Capacity THEN Append(queue, k) ELSE queue
  /\ UNCHANGED got

Get ==
  /\ queue # <<>>
  /\ got' = Head(queue)
  /\ queue' = Tail(queue)

Next == Get \/ \E k \in Keys : Put(k)

Spec == Init /\ [][Next]_vars

=============================================================================
