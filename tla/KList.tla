-------------------------------- MODULE KList --------------------------------
(***************************************************************************)
(* list.c: the doubly linked list that all the kernel's queues are made    *)
(* of, pointer by pointer.  A heap is a record: the two link functions and *)
(* a flag raised by a store through a null pointer (page 0 is never mapped,*)
(* mm.c:63, so the store faults and the kernel halts).                     *)
(***************************************************************************)
EXTENDS Integers

NULL == -1

\* Stores to one field of one node; after a fault nothing is written.
SetNext(h, a, v) ==
  IF h.fault \/ a = NULL THEN [h EXCEPT !.fault = TRUE] ELSE [h EXCEPT !.next[a] = v]
SetPrev(h, a, v) ==
  IF h.fault \/ a = NULL THEN [h EXCEPT !.fault = TRUE] ELSE [h EXCEPT !.prev[a] = v]

INIT_LIST_HEAD(h, list) == SetPrev(SetNext(h, list, list), list, list)

\* __list_add, with the order of its four stores.
Insert(h, new, prev, next) ==
  LET h1 == SetPrev(h, next, new)
      h2 == SetNext(h1, new, next)
      h3 == SetPrev(h2, new, prev)
  IN  SetNext(h3, prev, new)

list_add(h, new, head) == Insert(h, new, head, h.next[head])

\* Variant: inserts behind the head, as list_add does.
list_add_tail_AtFront(h, new, head) == Insert(h, new, head, h.next[head])

list_add_tail(h, new, head) == Insert(h, new, h.prev[head], head)

\* list_del: __list_del on the neighbours read first, then the entry cleared.
list_del(h, entry) ==
  LET p  == h.prev[entry]
      n  == h.next[entry]
      h1 == SetPrev(h, n, p)
      h2 == SetNext(h1, p, n)
  IN  SetPrev(SetNext(h2, entry, NULL), entry, NULL)

list_empty(h, head) == h.next[head] = head

list_first(h, head) == h.next[head]

=============================================================================
