---------------------------- MODULE PCBListsProofs ---------------------------
(***************************************************************************)
(* The pointers of the kernel's lists make up the queues of PCBQueues, for *)
(* every number of tasks: Queues relates the links to sequences, each list *)
(* operation takes links and sequences that fit together to ones that do,  *)
(* and the handlers follow by composition.                                 *)
(***************************************************************************)
EXTENDS PCBLists, TLAPS, SequenceTheorems, FiniteSetTheorems, WellFoundedInduction

-----------------------------------------------------------------------------
(* Links and sequences.                                                    *)

Members(q) == {q[i] : i \in DOMAIN q}
\* Links, no store having gone through a null pointer.
Heaps      == [next : [Nodes -> Nodes \cup {NULL}], prev : [Nodes -> Nodes \cup {NULL}], fault : {FALSE}]
States     == {"RUN", "READY", "BLOCKED"}

\* A queue: no PCB twice.
Queue == {q \in Seq(Tasks) : \A i, j \in DOMAIN q : q[i] = q[j] => i = j}

\* The node at place i of the ring: the head, the PCBs of q, the head again.
At(head, q, i) == IF i \in 1 .. Len(q) THEN q[i] ELSE head

Ring(s, head, q) ==
  /\ q \in Queue
  /\ \A i \in 0 .. Len(q) : s.next[At(head, q, i)] = At(head, q, i + 1)
                         /\ s.prev[At(head, q, i + 1)] = At(head, q, i)

Loose(s, t) == s.next[t] = NULL /\ s.prev[t] = NULL

\* A free list that leads from the head to its last PCB; where that one was
\* inserted twice, it is its own successor.
Chain(s, q) ==
  /\ q \in Queue /\ Len(q) > 0
  /\ s.next[FREEQ] = q[1] /\ s.prev[FREEQ] = q[Len(q)]
  /\ \A i \in 1 .. Len(q) - 1 : s.next[q[i]] = q[i + 1]

Looped(s, q) == Chain(s, q) /\ s.next[q[Len(q)]] = q[Len(q)]

\* The five shapes of FreeList, al being the PCBs in use.
Free(s, al, q, shape) ==
  \/ /\ shape = "proper" /\ Ring(s, FREEQ, q) /\ Members(q) \cap al = {}
  \/ /\ shape = "loop" /\ Looped(s, q) /\ Members(q) \cap al = {}
     /\ s.prev[q[1]] = FREEQ
  \/ /\ shape = "loopfront" /\ Looped(s, q) /\ Members(q) \cap al = {}
     /\ s.prev[q[1]] = q[1]
  \/ \E t \in al : /\ shape = "stuck" /\ q = <<t>>
                   /\ s.next[FREEQ] = t /\ s.prev[FREEQ] = t
  \/ \E t \in al : /\ shape = "stranded" /\ q = <<t>>
                   /\ s.next[FREEQ] = t /\ s.prev[FREEQ] \in Tasks \ al

\* Links s, PCBs in use al and states st fit the queues q at a and w at b; the
\* PCBs in use that are in neither have no links.
Pair(s, al, st, a, q, b, w) ==
  /\ s \in Heaps /\ al \in SUBSET Tasks /\ st \in [Tasks -> States]
  /\ Ring(s, a, q) /\ Ring(s, b, w)
  /\ Members(q) \subseteq al /\ Members(w) \subseteq al /\ Members(q) \cap Members(w) = {}
  /\ \A t \in al \ (Members(q) \cup Members(w)) : st[t] = "RUN" /\ Loose(s, t)
  /\ \A t \in Members(q) \cup Members(w) : st[t] # "RUN"

\* A ready queue rq and a wait queue wq, in which the idle task never is.
Live(s, al, st, rq, wq) ==
  Pair(s, al, st, READYQ, rq, WAITQ, wq) /\ idle_task \in al \ Members(wq)

\* And a free list fq of a shape.
Queues(s, al, st, fq, shape, rq, wq) == Live(s, al, st, rq, wq) /\ Free(s, al, fq, shape)

\* While cur is running.
Fits(s, al, st, cur, fq, shape, rq, wq) ==
  Queues(s, al, st, fq, shape, rq, wq) /\ cur \in al \ (Members(rq) \cup Members(wq))

-----------------------------------------------------------------------------
(* Induction, for sets of numbers.                                         *)

LEMMA LessIsWellFounded == IsWellFoundedOn({r \in Nat \X Nat : r[1] < r[2]}, Nat)
<1>1. IsWellFoundedOn(OpToRel(<, Nat), Nat)
  BY NatLessThanWellFounded, Zenon
<1>2. {r \in Nat \X Nat : r[1] < r[2]} = OpToRel(<, Nat)
  BY Zenon DEF OpToRel
<1> QED
  BY <1>1, <1>2, Zenon

LEMMA NatSetInduction ==
  ASSUME NEW T, 0 \in T, \A n \in Nat : n \in T => n + 1 \in T
  PROVE  Nat \subseteq T
<1> SUFFICES ASSUME Nat \ T # {} PROVE FALSE
  OBVIOUS
<1>1. PICK x \in Nat \ T : \A y \in Nat \ T : ~ (<<y, x>> \in {r \in Nat \X Nat : r[1] < r[2]})
  BY LessIsWellFounded, WFMin, Zenon
<1>2. \A y \in Nat \ T : ~ (y < x)
  <2> TAKE y \in Nat \ T
  <2>1. <<y, x>> \in Nat \X Nat /\ <<y, x>>[1] = y /\ <<y, x>>[2] = x
    OBVIOUS
  <2> QED
    BY <1>1, <2>1
<1>3. x # 0 /\ x - 1 \in Nat /\ x - 1 < x /\ (x - 1) + 1 = x
  OBVIOUS
<1>4. x - 1 \in T
  BY <1>2, <1>3
<1> QED
  BY <1>3, <1>4
-----------------------------------------------------------------------------

LEMMA Numbers ==
  /\ NR_TASKS \in Nat /\ NR_TASKS > 2
  /\ idle_task \in Tasks /\ init_task \in Tasks /\ idle_task # init_task
  /\ NULL \notin Nodes /\ Heads \subseteq Nodes /\ Tasks \subseteq Nodes /\ Tasks \subseteq Nat
  /\ Heads \cap Tasks = {}
  /\ FREEQ \in Heads /\ READYQ \in Heads /\ WAITQ \in Heads
  /\ FREEQ # READYQ /\ FREEQ # WAITQ /\ READYQ # WAITQ
  BY TasksAssumption
     DEF Tasks, Nodes, Heads, idle_task, init_task, NULL, FREEQ, READYQ, WAITQ

-----------------------------------------------------------------------------
(* What the stores of list.c leave.                                        *)

\* One link stored, the others as they were.
NextStored(g, s, a, v) ==
  g \in Heaps /\ g.prev = s.prev /\ \A x \in Nodes : g.next[x] = IF x = a THEN v ELSE s.next[x]
PrevStored(g, s, a, v) ==
  g \in Heaps /\ g.next = s.next /\ \A x \in Nodes : g.prev[x] = IF x = a THEN v ELSE s.prev[x]

LEMMA StoreNext ==
  ASSUME NEW s \in Heaps, NEW a \in Nodes, NEW v \in Nodes \cup {NULL}
  PROVE  NextStored(SetNext(s, a, v), s, a, v)
<1>1. s.next \in [Nodes -> Nodes \cup {NULL}] /\ s.fault = FALSE
  BY DEF Heaps
<1>2. a # NULL
  BY Numbers
<1>3. SetNext(s, a, v) = [s EXCEPT !.next = [s.next EXCEPT ![a] = v]]
  BY <1>1, <1>2 DEF SetNext
<1>4. [s.next EXCEPT ![a] = v] \in [Nodes -> Nodes \cup {NULL}]
  BY <1>1
<1>5. SetNext(s, a, v) \in Heaps
  BY <1>3, <1>4, Zenon DEF Heaps
<1>6. /\ SetNext(s, a, v).next = [s.next EXCEPT ![a] = v]
      /\ SetNext(s, a, v).prev = s.prev
  BY <1>3 DEF Heaps
<1> QED
  BY <1>1, <1>5, <1>6 DEF NextStored, PrevStored

LEMMA StorePrev ==
  ASSUME NEW s \in Heaps, NEW a \in Nodes, NEW v \in Nodes \cup {NULL}
  PROVE  PrevStored(SetPrev(s, a, v), s, a, v)
<1>1. s.prev \in [Nodes -> Nodes \cup {NULL}] /\ s.fault = FALSE
  BY DEF Heaps
<1>2. a # NULL
  BY Numbers
<1>3. SetPrev(s, a, v) = [s EXCEPT !.prev = [s.prev EXCEPT ![a] = v]]
  BY <1>1, <1>2 DEF SetPrev
<1>4. [s.prev EXCEPT ![a] = v] \in [Nodes -> Nodes \cup {NULL}]
  BY <1>1
<1>5. SetPrev(s, a, v) \in Heaps
  BY <1>3, <1>4, Zenon DEF Heaps
<1>6. /\ SetPrev(s, a, v).prev = [s.prev EXCEPT ![a] = v]
      /\ SetPrev(s, a, v).next = s.next
  BY <1>3 DEF Heaps
<1> QED
  BY <1>1, <1>5, <1>6 DEF NextStored, PrevStored

\* new linked in between p and n; e unlinked from between them.
Inserted(g, s, new, p, n) ==
  /\ g \in Heaps
  /\ \A x \in Nodes :
       /\ g.next[x] = IF x = p THEN new ELSE IF x = new THEN n ELSE s.next[x]
       /\ g.prev[x] = IF x = new THEN p ELSE IF x = n THEN new ELSE s.prev[x]
Deleted(g, s, e, p, n) ==
  /\ g \in Heaps
  /\ \A x \in Nodes :
       /\ g.next[x] = IF x = e THEN NULL ELSE IF x = p THEN n ELSE s.next[x]
       /\ g.prev[x] = IF x = e THEN NULL ELSE IF x = n THEN p ELSE s.prev[x]

\* __list_add between p and n, which may be the same node, or new itself.
LEMMA InsertLinks ==
  ASSUME NEW s \in Heaps, NEW new \in Nodes, NEW p \in Nodes, NEW n \in Nodes
  PROVE  Inserted(Insert(s, new, p, n), s, new, p, n)
<1>1. PICK a : a = SetPrev(s, n, new)
  OBVIOUS
<1>2. PICK b : b = SetNext(a, new, n)
  OBVIOUS
<1>3. PICK c : c = SetPrev(b, new, p)
  OBVIOUS
<1>4. PICK d : d = SetNext(c, p, new)
  OBVIOUS
<1>5. PrevStored(a, s, n, new)
  <2>1. s \in Heaps
    OBVIOUS
  <2> QED
    BY <2>1, <1>1, StorePrev, Zenon
<1>6. NextStored(b, a, new, n)
  <2>1. a \in Heaps
    BY <1>5 DEF NextStored, PrevStored
  <2> QED
    BY <2>1, <1>2, StoreNext, Zenon
<1>7. PrevStored(c, b, new, p)
  <2>1. b \in Heaps
    BY <1>6 DEF NextStored, PrevStored
  <2> QED
    BY <2>1, <1>3, StorePrev, Zenon
<1>8. NextStored(d, c, p, new)
  <2>1. c \in Heaps
    BY <1>7 DEF NextStored, PrevStored
  <2> QED
    BY <2>1, <1>4, StoreNext, Zenon
<1>9. d = Insert(s, new, p, n)
  BY <1>1, <1>2, <1>3, <1>4 DEF Insert
<1>10. \A x \in Nodes :
         /\ d.next[x] = IF x = p THEN new ELSE IF x = new THEN n ELSE s.next[x]
         /\ d.prev[x] = IF x = new THEN p ELSE IF x = n THEN new ELSE s.prev[x]
  BY <1>5, <1>6, <1>7, <1>8 DEF NextStored, PrevStored
<1>11. d \in Heaps
  BY <1>8 DEF NextStored, PrevStored
<1> QED
  BY <1>9, <1>10, <1>11 DEF Inserted, Deleted

\* list_del of a node that hangs in a list.
LEMMA DeleteLinks ==
  ASSUME NEW s \in Heaps, NEW e \in Nodes, NEW p \in Nodes, NEW n \in Nodes,
         p = s.prev[e], n = s.next[e]
  PROVE  Deleted(list_del(s, e), s, e, p, n)
<1>1. PICK a : a = SetPrev(s, n, p)
  OBVIOUS
<1>2. PICK b : b = SetNext(a, p, n)
  OBVIOUS
<1>3. PICK c : c = SetNext(b, e, NULL)
  OBVIOUS
<1>4. PICK d : d = SetPrev(c, e, NULL)
  OBVIOUS
<1>5. PrevStored(a, s, n, p)
  <2>1. s \in Heaps
    OBVIOUS
  <2> QED
    BY <2>1, <1>1, StorePrev, Zenon
<1>6. NextStored(b, a, p, n)
  <2>1. a \in Heaps
    BY <1>5 DEF NextStored, PrevStored
  <2> QED
    BY <2>1, <1>2, StoreNext, Zenon
<1>7. NextStored(c, b, e, NULL)
  <2>1. b \in Heaps
    BY <1>6 DEF NextStored, PrevStored
  <2> QED
    BY <2>1, <1>3, StoreNext, Zenon
<1>8. PrevStored(d, c, e, NULL)
  <2>1. c \in Heaps
    BY <1>7 DEF NextStored, PrevStored
  <2> QED
    BY <2>1, <1>4, StorePrev, Zenon
<1>9. d = list_del(s, e)
  BY <1>1, <1>2, <1>3, <1>4 DEF list_del
<1>10. \A x \in Nodes :
         /\ d.next[x] = IF x = e THEN NULL ELSE IF x = p THEN n ELSE s.next[x]
         /\ d.prev[x] = IF x = e THEN NULL ELSE IF x = n THEN p ELSE s.prev[x]
  BY <1>5, <1>6, <1>7, <1>8 DEF NextStored, PrevStored
<1>11. d \in Heaps
  BY <1>8 DEF NextStored, PrevStored
<1> QED
  BY <1>9, <1>10, <1>11 DEF Inserted, Deleted

\* list_del of a node that hangs in no list: the links stay.
LEMMA DeleteLoose ==
  ASSUME NEW s \in Heaps, NEW e, Loose(s, e)
  PROVE  list_del(s, e) = [s EXCEPT !.fault = TRUE]
<1>1. s.prev[e] = NULL /\ s.next[e] = NULL
  BY DEF Loose
<1>2. PICK a : a = [s EXCEPT !.fault = TRUE]
  OBVIOUS
<1>3. a.fault = TRUE /\ [a EXCEPT !.fault = TRUE] = a
  BY <1>2 DEF Heaps
<1>4. SetPrev(s, NULL, NULL) = a
  BY <1>2 DEF SetPrev
<1>5. \A x, v : SetNext(a, x, v) = a /\ SetPrev(a, x, v) = a
  BY <1>3 DEF SetNext, SetPrev
<1> QED
  BY <1>1, <1>2, <1>4, <1>5, Zenon DEF list_del

-----------------------------------------------------------------------------
(* Rings.                                                                  *)

\* The links of the nodes in S are the same in both heaps.
Same(g, s, S) == \A x \in S : g.next[x] = s.next[x] /\ g.prev[x] = s.prev[x]

LEMMA QueueType ==
  ASSUME NEW q \in Queue
  PROVE  /\ q \in Seq(Tasks) /\ Len(q) \in Nat /\ DOMAIN q = 1 .. Len(q)
         /\ \A i \in 1 .. Len(q) : q[i] \in Tasks /\ q[i] \in Members(q)
         /\ \A t \in Members(q) : t \in Tasks /\ \E i \in 1 .. Len(q) : q[i] = t
         /\ \A i, j \in 1 .. Len(q) : q[i] = q[j] => i = j
<1>1. q \in Seq(Tasks) /\ \A i, j \in DOMAIN q : q[i] = q[j] => i = j
  BY DEF Queue
<1>2. Len(q) \in Nat /\ DOMAIN q = 1 .. Len(q) /\ \A i \in 1 .. Len(q) : q[i] \in Tasks
  BY <1>1
<1> QED
  BY <1>1, <1>2, Zenon DEF Members

LEMMA Places ==
  ASSUME NEW head \in Heads, NEW q \in Queue
  PROVE  /\ \A i \in 0 .. Len(q) + 1 : At(head, q, i) \in Nodes /\ At(head, q, i) \in Members(q) \cup {head}
         /\ \A i \in 1 .. Len(q) : At(head, q, i) = q[i] /\ At(head, q, i) # head
         /\ At(head, q, 0) = head /\ At(head, q, Len(q) + 1) = head
         /\ \A i, j \in 0 .. Len(q) + 1 :
              At(head, q, i) = At(head, q, j) => i = j \/ (i = 0 /\ j = Len(q) + 1) \/ (j = 0 /\ i = Len(q) + 1)
<1>1. /\ Len(q) \in Nat
      /\ \A i \in 1 .. Len(q) : q[i] \in Tasks /\ q[i] \in Members(q)
      /\ \A i, j \in 1 .. Len(q) : q[i] = q[j] => i = j
  BY QueueType, Zenon
<1>2. head \in Nodes /\ head \notin Tasks /\ Tasks \subseteq Nodes
  BY Numbers
<1>3. \A i \in 1 .. Len(q) : At(head, q, i) = q[i] /\ At(head, q, i) # head
  BY <1>1, <1>2 DEF At
<1>4. \A i : i \notin 1 .. Len(q) => At(head, q, i) = head
  BY DEF At
<1>5. \A i \in 0 .. Len(q) + 1 : i \in 1 .. Len(q) \/ i = 0 \/ i = Len(q) + 1
  BY <1>1
<1>6. 0 \notin 1 .. Len(q) /\ Len(q) + 1 \notin 1 .. Len(q)
  BY <1>1
<1>7. \A i \in 0 .. Len(q) + 1 : At(head, q, i) \in Nodes /\ At(head, q, i) \in Members(q) \cup {head}
  BY <1>1, <1>2, <1>3, <1>4, Zenon
<1>8. ASSUME NEW i \in 0 .. Len(q) + 1, NEW j \in 0 .. Len(q) + 1, At(head, q, i) = At(head, q, j)
      PROVE  i = j \/ (i = 0 /\ j = Len(q) + 1) \/ (j = 0 /\ i = Len(q) + 1)
  <2>1. CASE i \in 1 .. Len(q) /\ j \in 1 .. Len(q)
    BY <1>1, <1>3, <1>8, <2>1
  <2>2. CASE i \in 1 .. Len(q) /\ j \notin 1 .. Len(q)
    BY <1>3, <1>4, <1>8, <2>2
  <2>3. CASE i \notin 1 .. Len(q) /\ j \in 1 .. Len(q)
    BY <1>3, <1>4, <1>8, <2>3
  <2>4. CASE i \notin 1 .. Len(q) /\ j \notin 1 .. Len(q)
    BY <1>5, <2>4
  <2> QED
    BY <2>1, <2>2, <2>3, <2>4
<1> QED
  BY <1>3, <1>4, <1>6, <1>7, <1>8, Zenon

\* A ring whose nodes no store has touched.
LEMMA RingKept ==
  ASSUME NEW s, NEW g, NEW head \in Heads, NEW q, Ring(s, head, q),
         Same(g, s, Members(q) \cup {head})
  PROVE  Ring(g, head, q)
<1>1. q \in Queue /\ \A i \in 0 .. Len(q) : s.next[At(head, q, i)] = At(head, q, i + 1)
                                          /\ s.prev[At(head, q, i + 1)] = At(head, q, i)
  BY DEF Ring
<1>2. ASSUME NEW i \in 0 .. Len(q)
      PROVE  g.next[At(head, q, i)] = At(head, q, i + 1) /\ g.prev[At(head, q, i + 1)] = At(head, q, i)
  <2>1. i \in 0 .. Len(q) + 1 /\ i + 1 \in 0 .. Len(q) + 1
    BY <1>1, QueueType
  <2>2. At(head, q, i) \in Members(q) \cup {head} /\ At(head, q, i + 1) \in Members(q) \cup {head}
    BY <1>1, <2>1, Places
  <2> QED
    BY <1>1, <2>2 DEF Same
<1> QED
  BY <1>1, <1>2 DEF Ring

LEMMA EndOfQueue ==
  ASSUME NEW q \in Queue, NEW t \in Tasks, t \notin Members(q)
  PROVE  /\ Append(q, t) \in Queue /\ Len(Append(q, t)) = Len(q) + 1
         /\ Members(Append(q, t)) = Members(q) \cup {t}
         /\ \A i \in 1 .. Len(q) : Append(q, t)[i] = q[i]
         /\ Append(q, t)[Len(q) + 1] = t
<1>1. /\ q \in Seq(Tasks) /\ Len(q) \in Nat
      /\ \A i \in 1 .. Len(q) : q[i] \in Members(q)
      /\ \A x \in Members(q) : \E i \in 1 .. Len(q) : q[i] = x
      /\ \A i, j \in 1 .. Len(q) : q[i] = q[j] => i = j
  BY QueueType, Zenon
<1>2. PICK v \in Seq(Tasks) :
        /\ v = Append(q, t) /\ Len(v) = Len(q) + 1 /\ v[Len(q) + 1] = t
        /\ \A i \in 1 .. Len(q) : v[i] = q[i]
  <2>1. PICK S : S = Tasks
    OBVIOUS
  <2>2. q \in Seq(S) /\ t \in S
    BY <1>1, <2>1
  <2>3. PICK v : v = Append(q, t)
    OBVIOUS
  <2>4. v \in Seq(S) /\ Len(v) = Len(q) + 1 /\ v[Len(q) + 1] = t /\ \A i \in 1 .. Len(q) : v[i] = q[i]
    BY <2>2, <2>3
  <2>5. v \in Seq(Tasks)
    BY <2>1, <2>4
  <2> QED
    BY <2>3, <2>4, <2>5, Zenon
<1>3. DOMAIN v = 1 .. Len(q) + 1
  BY <1>2
<1>4. ASSUME NEW i \in DOMAIN v, NEW j \in DOMAIN v, v[i] = v[j] PROVE i = j
  <2>1. (i \in 1 .. Len(q) \/ i = Len(q) + 1) /\ (j \in 1 .. Len(q) \/ j = Len(q) + 1)
    BY <1>1, <1>3
  <2>2. CASE i \in 1 .. Len(q) /\ j \in 1 .. Len(q)
    <3>1. q[i] = q[j]
      BY <1>2, <1>4, <2>2
    <3> QED
      BY <1>1, <2>2, <3>1
  <2>3. CASE i \in 1 .. Len(q) /\ j = Len(q) + 1
    <3>1. q[i] = t
      BY <1>2, <1>4, <2>3
    <3> QED
      BY <1>1, <2>3, <3>1
  <2>4. CASE i = Len(q) + 1 /\ j \in 1 .. Len(q)
    <3>1. q[j] = t
      BY <1>2, <1>4, <2>4
    <3> QED
      BY <1>1, <2>4, <3>1
  <2> QED
    BY <2>1, <2>2, <2>3, <2>4
<1>5. Members(v) = Members(q) \cup {t}
  <2>1. \A i \in DOMAIN v : v[i] \in Members(q) \cup {t}
    <3> TAKE i \in DOMAIN v
    <3>1. i \in 1 .. Len(q) \/ i = Len(q) + 1
      BY <1>1, <1>3
    <3> QED
      BY <1>1, <1>2, <3>1, Zenon
  <2>2. \A i \in 1 .. Len(q) : i \in DOMAIN v
    BY <1>1, <1>3
  <2>3. Len(q) + 1 \in DOMAIN v
    BY <1>1, <1>3
  <2>4. \A x \in Members(q) \cup {t} : \E i \in DOMAIN v : v[i] = x
    BY <1>1, <1>2, <2>2, <2>3, Zenon
  <2> QED
    BY <2>1, <2>4, Zenon DEF Members
<1>6. v \in Queue
  BY <1>4, Zenon DEF Queue
<1> QED
  BY <1>2, <1>5, <1>6, Zenon

\* list_add_tail puts a node behind the last one.
Appended(g, s, head, q, t) ==
  g \in Heaps /\ Ring(g, head, Append(q, t)) /\ Same(g, s, Nodes \ (Members(q) \cup {head, t}))

LEMMA AddTail ==
  ASSUME NEW s \in Heaps, NEW head \in Heads, NEW q, Ring(s, head, q),
         NEW t \in Tasks, t \notin Members(q)
  PROVE  Appended(list_add_tail(s, t, head), s, head, q, t)
<1>1. /\ q \in Queue
      /\ \A i \in 0 .. Len(q) : s.next[At(head, q, i)] = At(head, q, i + 1)
                              /\ s.prev[At(head, q, i + 1)] = At(head, q, i)
  BY DEF Ring
<1>2. PICK n \in Nat : n = Len(q)
  BY <1>1, QueueType
<1>3. PICK last \in Nodes : last = At(head, q, n) /\ last \in Members(q) \cup {head}
  <2>1. n \in 0 .. Len(q) + 1
    BY <1>2
  <2> QED
    BY <1>1, <2>1, Places
<1>4. head \in Nodes /\ t \in Nodes /\ t # head /\ t # last
  BY <1>3, Numbers
<1>5. s.prev[head] = last
  <2>1. n \in 0 .. Len(q) /\ At(head, q, n + 1) = head
    BY <1>1, <1>2, Places
  <2> QED
    BY <1>1, <1>3, <2>1
<1>6. PICK g : g = list_add_tail(s, t, head)
  OBVIOUS
<1>7. Inserted(g, s, t, last, head)
  <2>1. g = Insert(s, t, last, head)
    BY <1>5, <1>6, Zenon DEF list_add_tail
  <2> QED
    BY <1>4, <2>1, InsertLinks, Zenon
<1>8. PICK v : v = Append(q, t)
  OBVIOUS
<1>9. /\ v \in Queue /\ Len(v) = n + 1 /\ Members(v) = Members(q) \cup {t}
      /\ \A i \in 1 .. n : v[i] = q[i]
      /\ v[n + 1] = t
  BY <1>1, <1>2, <1>8, EndOfQueue
<1>10. At(head, v, n + 1) = t /\ At(head, v, n + 2) = head /\ \A i \in 0 .. n : At(head, v, i) = At(head, q, i)
  BY <1>2, <1>9 DEF At
<1>11. ASSUME NEW i \in 0 .. n + 1
       PROVE  g.next[At(head, v, i)] = At(head, v, i + 1) /\ g.prev[At(head, v, i + 1)] = At(head, v, i)
  <2>1. CASE i < n
    <3>1. /\ i \in 0 .. n /\ i + 1 \in 0 .. n /\ i \in 0 .. Len(q) + 1 /\ i + 1 \in 1 .. Len(q)
          /\ n \in 0 .. Len(q) + 1 /\ ~(i = 0 /\ n = Len(q) + 1) /\ ~(n = 0 /\ i = Len(q) + 1) /\ i # n
      BY <1>2, <2>1
    <3>2. At(head, q, i) # last /\ At(head, q, i) \in Members(q) \cup {head} /\ At(head, q, i) \in Nodes
      BY <1>1, <1>3, <3>1, Places
    <3>3. At(head, q, i + 1) # head /\ At(head, q, i + 1) \in Members(q) /\ At(head, q, i + 1) \in Nodes
      <4>1. At(head, q, i + 1) = q[i + 1] /\ At(head, q, i + 1) # head
        BY <1>1, <3>1, Places
      <4>2. q[i + 1] \in Members(q) /\ q[i + 1] \in Tasks
        BY <1>1, <3>1, QueueType
      <4> QED
        BY <4>1, <4>2, Numbers
    <3>4. At(head, q, i) # t /\ At(head, q, i + 1) # t
      BY <1>4, <3>2, <3>3
    <3>5. g.next[At(head, q, i)] = s.next[At(head, q, i)]
      BY <1>7, <3>2, <3>4 DEF Inserted
    <3>6. g.prev[At(head, q, i + 1)] = s.prev[At(head, q, i + 1)]
      BY <1>7, <3>3, <3>4 DEF Inserted
    <3> QED
      BY <1>1, <1>2, <1>10, <3>1, <3>5, <3>6
  <2>2. CASE i = n
    BY <1>3, <1>4, <1>7, <1>10, <2>2 DEF Inserted
  <2>3. CASE i = n + 1
    <3>1. g.next[t] = head /\ g.prev[head] = t /\ i + 1 = n + 2
      BY <1>4, <1>7, <2>3 DEF Inserted
    <3> QED
      BY <1>10, <2>3, <3>1
  <2> QED
    BY <2>1, <2>2, <2>3
<1>12. Ring(g, head, v)
  BY <1>9, <1>11 DEF Ring
<1>13. Same(g, s, Nodes \ (Members(q) \cup {head, t}))
  BY <1>3, <1>7 DEF Same, Inserted
<1> QED
  BY <1>6, <1>7, <1>8, <1>12, <1>13 DEF Appended, Inserted

\* The queue without the PCB at place k.
Gap(k, i) == IF i < k THEN i ELSE i + 1
Cut(q, k) == [j \in 1 .. Len(q) - 1 |-> q[Gap(k, j)]]

LEMMA CutQueue ==
  ASSUME NEW q \in Queue, NEW k \in 1 .. Len(q)
  PROVE  /\ Cut(q, k) \in Queue /\ Len(Cut(q, k)) = Len(q) - 1
         /\ Members(Cut(q, k)) = Members(q) \ {q[k]}
         /\ \A i \in 1 .. Len(q) - 1 : Cut(q, k)[i] = q[Gap(k, i)]
<1>1. /\ q \in Seq(Tasks) /\ Len(q) \in Nat
      /\ \A i \in 1 .. Len(q) : q[i] \in Tasks /\ q[i] \in Members(q)
      /\ \A x \in Members(q) : \E i \in 1 .. Len(q) : q[i] = x
      /\ \A i, j \in 1 .. Len(q) : q[i] = q[j] => i = j
  BY QueueType, Zenon
<1>2. PICK n \in Nat : n + 1 = Len(q)
  <2>1. Len(q) - 1 \in Nat /\ (Len(q) - 1) + 1 = Len(q)
    BY <1>1
  <2> QED
    BY <2>1, Zenon
<1>3. PICK v : v = [j \in 1 .. n |-> q[Gap(k, j)]]
  OBVIOUS
<1>4. v = Cut(q, k)
  BY <1>2, <1>3 DEF Cut
<1>5. \A i \in 1 .. n : Gap(k, i) \in 1 .. Len(q) /\ Gap(k, i) # k
  BY <1>2 DEF Gap
<1>6. \A i, j \in 1 .. n : Gap(k, i) = Gap(k, j) => i = j
  BY DEF Gap
<1>7. \A i \in 1 .. Len(q) : i # k => \E j \in 1 .. n : Gap(k, j) = i
  <2> TAKE i \in 1 .. Len(q)
  <2> HAVE i # k
  <2>1. CASE i < k
    <3>1. i \in 1 .. n /\ Gap(k, i) = i
      BY <1>2, <2>1 DEF Gap
    <3> QED
      BY <3>1
  <2>2. CASE i > k
    <3>1. i - 1 \in 1 .. n /\ Gap(k, i - 1) = i
      BY <1>2, <2>2 DEF Gap
    <3> QED
      BY <3>1
  <2> QED
    BY <2>1, <2>2
<1>8. DOMAIN v = 1 .. n /\ \A i \in 1 .. n : v[i] = q[Gap(k, i)] /\ v[i] \in Tasks
  <2>1. DOMAIN v = 1 .. n /\ \A i \in 1 .. n : v[i] = q[Gap(k, i)]
    BY <1>3
  <2> QED
    BY <1>1, <1>5, <2>1, Zenon
<1>9. v \in Seq(Tasks) /\ Len(v) = n
  <2>1. v \in [1 .. n -> Tasks]
    BY <1>3, <1>8, Zenon
  <2> QED
    BY <1>2, <2>1
<1>10. v \in Queue
  <2>1. \A i, j \in 1 .. n : v[i] = v[j] => i = j
    <3> TAKE i, j \in 1 .. n
    <3> HAVE v[i] = v[j]
    <3>1. q[Gap(k, i)] = q[Gap(k, j)]
      BY <1>8
    <3>2. Gap(k, i) = Gap(k, j)
      BY <1>1, <1>5, <3>1, Zenon
    <3> QED
      BY <1>6, <3>2, Zenon
  <2> QED
    BY <1>8, <1>9, <2>1, Zenon DEF Queue
<1>11. Members(v) = Members(q) \ {q[k]}
  <2>1. \A x \in Members(v) : x \in Members(q) /\ x # q[k]
    <3> TAKE x \in Members(v)
    <3>1. PICK i \in 1 .. n : x = q[Gap(k, i)]
      BY <1>8, Zenon DEF Members
    <3>2. Gap(k, i) \in 1 .. Len(q) /\ Gap(k, i) # k
      BY <1>5, Zenon
    <3> QED
      BY <1>1, <3>1, <3>2, Zenon
  <2>2. \A x \in Members(q) : x # q[k] => x \in Members(v)
    <3> TAKE x \in Members(q)
    <3> HAVE x # q[k]
    <3>1. PICK i \in 1 .. Len(q) : q[i] = x
      BY <1>1, Zenon
    <3>2. PICK j \in 1 .. n : Gap(k, j) = i
      BY <1>7, <3>1, Zenon
    <3>3. v[j] = x /\ j \in DOMAIN v
      BY <1>8, <3>1, <3>2, Zenon
    <3> QED
      BY <3>3, Zenon DEF Members
  <2> QED
    BY <2>1, <2>2
<1>12. Len(v) = Len(q) - 1 /\ \A i \in 1 .. Len(q) - 1 : i \in 1 .. n
  BY <1>2, <1>9
<1> QED
  BY <1>4, <1>8, <1>10, <1>11, <1>12, Zenon

\* list_del of a PCB of a ring.
TakenOut(g, s, head, q, k) ==
  /\ g \in Heaps /\ Ring(g, head, Cut(q, k)) /\ Loose(g, q[k])
  /\ Same(g, s, Nodes \ (Members(q) \cup {head}))

LEMMA TakeOut ==
  ASSUME NEW s \in Heaps, NEW head \in Heads, NEW q, Ring(s, head, q), NEW k \in 1 .. Len(q)
  PROVE  TakenOut(list_del(s, q[k]), s, head, q, k)
<1>1. /\ q \in Queue
      /\ \A i \in 0 .. Len(q) : s.next[At(head, q, i)] = At(head, q, i + 1)
                              /\ s.prev[At(head, q, i + 1)] = At(head, q, i)
  BY DEF Ring
<1>2. PICK n \in Nat : n = Len(q)
  BY <1>1, QueueType
<1>3. PICK at : at = [i \in 0 .. n + 1 |-> At(head, q, i)]
  OBVIOUS
<1>4. \A i \in 0 .. n + 1 : at[i] = At(head, q, i) /\ at[i] \in Nodes /\ at[i] \in Members(q) \cup {head}
  BY <1>1, <1>2, <1>3, Places
<1>5. \A i, j \in 0 .. n + 1 : at[i] = at[j] => i = j \/ (i = 0 /\ j = n + 1) \/ (j = 0 /\ i = n + 1)
  BY <1>1, <1>2, <1>4, Places
<1>6. \A i \in 0 .. n : s.next[at[i]] = at[i + 1] /\ s.prev[at[i + 1]] = at[i]
  <2> TAKE i \in 0 .. n
  <2>1. i \in 0 .. n + 1 /\ i + 1 \in 0 .. n + 1 /\ i \in 0 .. Len(q)
    BY <1>2
  <2> QED
    BY <1>1, <1>4, <2>1
<1>7. PICK e : e = q[k]
  OBVIOUS
<1>8. e = at[k] /\ k \in 1 .. n /\ e \in Nodes /\ e \in Members(q)
  BY <1>1, <1>2, <1>4, <1>7, Places, QueueType
<1>9. PICK p \in Nodes : p = at[k - 1] /\ p \in Members(q) \cup {head}
  BY <1>4, <1>8
<1>10. PICK m \in Nodes : m = at[k + 1] /\ m \in Members(q) \cup {head}
  BY <1>4, <1>8
<1>11. s.prev[e] = p /\ s.next[e] = m
  BY <1>6, <1>8, <1>9, <1>10
<1>12. p # e /\ m # e
  BY <1>5, <1>8, <1>9, <1>10
<1>13. PICK g : g = list_del(s, e)
  OBVIOUS
<1>14. Deleted(g, s, e, p, m)
  BY <1>8, <1>11, <1>13, DeleteLinks, Zenon
<1>15. g \in Heaps /\ g.next[e] = NULL /\ g.prev[e] = NULL
  BY <1>8, <1>14 DEF Deleted
<1>16. g.next[p] = m /\ g.prev[m] = p
  BY <1>12, <1>14 DEF Deleted
<1>17. \A i \in 0 .. n + 1 : i # k /\ i # k - 1 /\ ~(i = n + 1 /\ k = 1) => g.next[at[i]] = s.next[at[i]]
  <2> TAKE i \in 0 .. n + 1
  <2> HAVE i # k /\ i # k - 1 /\ ~(i = n + 1 /\ k = 1)
  <2>1. k \in 0 .. n + 1 /\ k - 1 \in 0 .. n + 1
    BY <1>8
  <2>2. at[i] # e /\ at[i] # p
    BY <1>5, <1>8, <1>9, <2>1
  <2> QED
    BY <1>4, <1>14, <2>2 DEF Deleted
<1>18. \A i \in 0 .. n + 1 : i # k /\ i # k + 1 /\ ~(i = 0 /\ k = n) => g.prev[at[i]] = s.prev[at[i]]
  <2> TAKE i \in 0 .. n + 1
  <2> HAVE i # k /\ i # k + 1 /\ ~(i = 0 /\ k = n)
  <2>1. k \in 0 .. n + 1 /\ k + 1 \in 0 .. n + 1
    BY <1>8
  <2>2. at[i] # e /\ at[i] # m
    BY <1>5, <1>8, <1>10, <2>1
  <2> QED
    BY <1>4, <1>14, <2>2 DEF Deleted
<1>19. PICK v : v = Cut(q, k)
  OBVIOUS
<1>20. v \in Queue /\ Len(v) = n - 1 /\ \A i \in 1 .. n - 1 : v[i] = q[Gap(k, i)]
  BY <1>1, <1>2, <1>19, CutQueue
<1>21. \A i \in 0 .. n : At(head, v, i) = at[Gap(k, i)]
  <2> TAKE i \in 0 .. n
  <2>1. CASE i \in 1 .. n - 1
    <3>1. At(head, v, i) = q[Gap(k, i)]
      BY <1>20, <2>1 DEF At
    <3>2. Gap(k, i) \in 1 .. n /\ Gap(k, i) \in 0 .. n + 1
      BY <1>8, <2>1 DEF Gap
    <3>3. at[Gap(k, i)] = q[Gap(k, i)]
      BY <1>2, <1>4, <3>2 DEF At
    <3> QED
      BY <3>1, <3>3
  <2>2. CASE i \notin 1 .. n - 1
    <3>1. At(head, v, i) = head
      BY <1>20, <2>2 DEF At
    <3>2. Gap(k, i) \in {0, n + 1}
      BY <1>8, <2>2 DEF Gap
    <3>3. at[Gap(k, i)] = head
      BY <1>2, <1>4, <3>2 DEF At
    <3> QED
      BY <3>1, <3>3
  <2> QED
    BY <2>1, <2>2
<1>22. ASSUME NEW i \in 0 .. n - 1
       PROVE  g.next[At(head, v, i)] = At(head, v, i + 1) /\ g.prev[At(head, v, i + 1)] = At(head, v, i)
  <2>1. At(head, v, i) = at[Gap(k, i)] /\ At(head, v, i + 1) = at[Gap(k, i + 1)]
    <3>1. i \in 0 .. n /\ i + 1 \in 0 .. n
      OBVIOUS
    <3> QED
      BY <1>21, <3>1
  <2>2. CASE i < k - 1
    <3>1. Gap(k, i) = i /\ Gap(k, i + 1) = i + 1
      BY <1>8, <2>2 DEF Gap
    <3>2. g.next[at[i]] = s.next[at[i]]
      <4>1. i \in 0 .. n + 1 /\ i # k /\ i # k - 1 /\ ~(i = n + 1 /\ k = 1)
        BY <1>8, <2>2
      <4> QED
        BY <1>17, <4>1
    <3>3. g.prev[at[i + 1]] = s.prev[at[i + 1]]
      <4>1. i + 1 \in 0 .. n + 1 /\ i + 1 # k /\ i + 1 # k + 1 /\ ~(i + 1 = 0 /\ k = n)
        BY <1>8, <2>2
      <4> QED
        BY <1>18, <4>1
    <3>4. i \in 0 .. n
      OBVIOUS
    <3> QED
      BY <1>6, <2>1, <3>1, <3>2, <3>3, <3>4
  <2>3. CASE i = k - 1
    <3>1. Gap(k, i) = k - 1 /\ Gap(k, i + 1) = k + 1
      BY <1>8, <2>3 DEF Gap
    <3> QED
      BY <1>9, <1>10, <1>16, <2>1, <3>1
  <2>4. CASE i > k - 1
    <3>1. Gap(k, i) = i + 1 /\ Gap(k, i + 1) = (i + 1) + 1
      BY <1>8, <2>4 DEF Gap
    <3>2. g.next[at[i + 1]] = s.next[at[i + 1]]
      <4>1. i + 1 \in 0 .. n + 1 /\ i + 1 # k /\ i + 1 # k - 1 /\ ~(i + 1 = n + 1 /\ k = 1)
        BY <1>8, <2>4
      <4> QED
        BY <1>17, <4>1
    <3>3. g.prev[at[(i + 1) + 1]] = s.prev[at[(i + 1) + 1]]
      <4>1. /\ (i + 1) + 1 \in 0 .. n + 1 /\ (i + 1) + 1 # k /\ (i + 1) + 1 # k + 1
            /\ ~((i + 1) + 1 = 0 /\ k = n)
        BY <1>8, <2>4
      <4> QED
        BY <1>18, <4>1
    <3>4. i + 1 \in 0 .. n
      OBVIOUS
    <3> QED
      BY <1>6, <2>1, <3>1, <3>2, <3>3, <3>4
  <2>5. i < k - 1 \/ i = k - 1 \/ i > k - 1
    BY <1>8
  <2> QED
    BY <2>2, <2>3, <2>4, <2>5, Zenon
<1>23. Ring(g, head, v)
  BY <1>20, <1>22 DEF Ring
<1>24. Same(g, s, Nodes \ (Members(q) \cup {head}))
  BY <1>8, <1>9, <1>10, <1>14 DEF Same, Deleted
<1> QED
  BY <1>7, <1>13, <1>15, <1>19, <1>23, <1>24 DEF TakenOut, Loose

-----------------------------------------------------------------------------
(* The free list.                                                          *)

\* The nodes whose links a free list of a shape depends on.
FreeNodes(q, shape) == {FREEQ} \cup IF shape \in {"stuck", "stranded"} THEN {} ELSE Members(q)

LEMMA FreeKept ==
  ASSUME NEW s, NEW g, NEW al, NEW q, NEW shape, Free(s, al, q, shape),
         Same(g, s, FreeNodes(q, shape))
  PROVE  Free(g, al, q, shape)
<1>1. g.next[FREEQ] = s.next[FREEQ] /\ g.prev[FREEQ] = s.prev[FREEQ]
  BY DEF Same, FreeNodes
<1>2. CASE shape = "proper" /\ Ring(s, FREEQ, q) /\ Members(q) \cap al = {}
  <2>1. Same(g, s, Members(q) \cup {FREEQ}) /\ FREEQ \in Heads
    BY <1>2, Numbers DEF Same, FreeNodes
  <2>2. Ring(g, FREEQ, q)
    BY <1>2, <2>1, RingKept
  <2> QED
    BY <1>2, <2>2, Zenon DEF Free
<1>3. CASE shape \in {"loop", "loopfront"} /\ Looped(s, q) /\ Members(q) \cap al = {}
  <2>1. q \in Queue /\ Len(q) > 0 /\ Len(q) \in Nat /\ \A i \in 1 .. Len(q) : q[i] \in Members(q)
    BY <1>3, QueueType DEF Looped, Chain
  <2>2. \A i \in 1 .. Len(q) : g.next[q[i]] = s.next[q[i]] /\ g.prev[q[i]] = s.prev[q[i]]
    BY <1>3, <2>1 DEF Same, FreeNodes
  <2>3. Looped(g, q)
    BY <1>1, <1>3, <2>1, <2>2 DEF Looped, Chain
  <2>4. g.prev[q[1]] = s.prev[q[1]]
    BY <2>1, <2>2
  <2>5. CASE shape = "loop"
    <3>1. s.prev[q[1]] = FREEQ
      BY <2>5 DEF Free
    <3> QED
      BY <1>3, <2>3, <2>4, <2>5, <3>1, Zenon DEF Free
  <2>6. CASE shape = "loopfront"
    <3>1. s.prev[q[1]] = q[1]
      BY <2>6 DEF Free
    <3> QED
      BY <1>3, <2>3, <2>4, <2>6, <3>1, Zenon DEF Free
  <2> QED
    BY <1>3, <2>5, <2>6
<1>4. CASE shape \in {"stuck", "stranded"}
  <2>1. CASE shape = "stuck"
    BY <1>1, <2>1 DEF Free
  <2>2. CASE shape = "stranded"
    BY <1>1, <2>2 DEF Free
  <2> QED
    BY <1>4, <2>1, <2>2
<1> QED
  BY <1>2, <1>3, <1>4 DEF Free

\* FreeList!TakeFirst while the list is not exhausted, and FreeList!AddTwice.
TookFirst(q, shape, q2, shape2) ==
  \/ (shape = "proper" \/ (shape = "loop" /\ Len(q) # 1)) /\ q2 = Cut(q, 1) /\ shape2 = shape
  \/ shape \in {"loop", "loopfront"} /\ Len(q) = 1 /\ q2 = q /\ shape2 = "stuck"
  \/ shape = "loopfront" /\ Len(q) # 1 /\ q2 = <<q[1]>> /\ shape2 = "stranded"
AddedTwice(q, shape, t, q2, shape2) ==
  \/ shape \in {"proper", "loop"} /\ q2 = Append(q, t) /\ shape2 = IF q = <<>> THEN "loopfront" ELSE "loop"
  \/ shape = "loopfront" /\ q2 = Append(q, t) /\ shape2 = shape
  \/ shape \in {"stuck", "stranded"} /\ t = q[1] /\ q2 = q /\ shape2 = "loopfront"
  \/ shape = "stranded" /\ t # q[1] /\ q2 = q /\ shape2 = shape

\* list_del(list_first(&freequeue)).
FreeTaken(g, s, al, q, shape) ==
  /\ g \in Heaps /\ Loose(g, q[1]) /\ Same(g, s, Nodes \ (Members(q) \cup {FREEQ}))
  /\ \E q2, shape2 : Free(g, al \cup {q[1]}, q2, shape2) /\ TookFirst(q, shape, q2, shape2)

LEMMA TakeFromLoop ==
  ASSUME NEW s \in Heaps, NEW al \in SUBSET Tasks, NEW q, Looped(s, q), Members(q) \cap al = {},
         NEW shape, \/ shape = "loop" /\ s.prev[q[1]] = FREEQ
                    \/ shape = "loopfront" /\ s.prev[q[1]] = q[1]
  PROVE  FreeTaken(list_del(s, q[1]), s, al, q, shape)
<1>1. /\ q \in Queue /\ s.next[FREEQ] = q[1] /\ s.prev[FREEQ] = q[Len(q)]
      /\ \A i \in 1 .. Len(q) - 1 : s.next[q[i]] = q[i + 1]
      /\ s.next[q[Len(q)]] = q[Len(q)] /\ Len(q) > 0
  BY DEF Looped, Chain
<1>2. PICK n \in Nat : n = Len(q) /\ n > 0
  BY <1>1, QueueType
<1>3. /\ \A i \in 1 .. n : q[i] \in Tasks /\ q[i] \in Members(q) /\ q[i] \notin al
      /\ \A i, j \in 1 .. n : q[i] = q[j] => i = j
  <2>1. /\ \A i \in 1 .. n : q[i] \in Tasks /\ q[i] \in Members(q)
        /\ \A i, j \in 1 .. n : q[i] = q[j] => i = j
    BY <1>1, <1>2, QueueType
  <2> QED
    BY <2>1
<1>4. PICK e \in Tasks : e = q[1] /\ e \in Members(q)
  BY <1>2, <1>3
<1>5. e \in Nodes /\ FREEQ \in Nodes /\ e # FREEQ /\ FREEQ \notin Tasks /\ Tasks \subseteq Nodes
  BY Numbers
<1>6. PICK p \in Nodes : p = s.prev[e] /\ p \in {e, FREEQ}
  BY <1>4, <1>5
<1>7. PICK m \in Nodes : m = s.next[e] /\ m \in Members(q) /\ (n = 1 => m = e) /\ (n # 1 => m = q[2])
  <2>1. CASE n = 1
    BY <1>1, <1>2, <1>4, <1>5, <2>1
  <2>2. CASE n # 1
    <3>1. 1 \in 1 .. n - 1 /\ 2 \in 1 .. n
      BY <1>2, <2>2
    <3>2. s.next[e] = q[2]
      BY <1>1, <1>2, <1>4, <3>1
    <3>3. q[2] \in Nodes /\ q[2] \in Members(q)
      BY <1>3, <1>5, <3>1
    <3> QED
      BY <2>2, <3>2, <3>3
  <2> QED
    BY <2>1, <2>2
<1>8. PICK g : g = list_del(s, e)
  OBVIOUS
<1>9. Deleted(g, s, e, p, m)
  BY <1>5, <1>6, <1>7, <1>8, DeleteLinks, Zenon
<1>10. g \in Heaps /\ Loose(g, e)
  BY <1>5, <1>9 DEF Deleted, Loose
<1>11. Same(g, s, Nodes \ (Members(q) \cup {FREEQ}))
  BY <1>4, <1>6, <1>7, <1>9 DEF Deleted, Same
<1>12. m # FREEQ /\ g.prev[FREEQ] = q[n]
  <2>1. m # FREEQ
    BY <1>1, <1>5, <1>7, QueueType
  <2> QED
    BY <1>1, <1>2, <1>5, <1>9, <2>1 DEF Deleted
<1>13. \E q2, shape2 : Free(g, al \cup {e}, q2, shape2) /\ TookFirst(q, shape, q2, shape2)
  <2>1. CASE n = 1
    <3>1. g.next[FREEQ] = e /\ g.prev[FREEQ] = e
      BY <1>1, <1>2, <1>4, <1>5, <1>6, <1>7, <1>9, <1>12, <2>1 DEF Deleted
    <3>2. q = <<e>>
      <4>1. q \in Seq(Tasks) /\ Len(q) = 1 /\ q[1] = e
        BY <1>1, <1>2, <1>4, <2>1, QueueType
      <4> QED
        BY <4>1
    <3>3. Free(g, al \cup {e}, q, "stuck")
      BY <3>1, <3>2 DEF Free
    <3>4. TookFirst(q, shape, q, "stuck")
      BY <1>2, <2>1 DEF TookFirst
    <3> QED
      BY <3>3, <3>4
  <2>2. CASE n # 1 /\ shape = "loopfront"
    <3>1. p = e
      BY <1>4, <1>6, <2>2
    <3>2. g.next[FREEQ] = e
      BY <1>1, <1>4, <1>5, <1>9, <3>1 DEF Deleted
    <3>3. q[n] \in Tasks \ (al \cup {e})
      <4>1. n \in 1 .. n /\ 1 \in 1 .. n /\ n # 1
        BY <1>2, <2>2
      <4> QED
        BY <1>3, <1>4, <4>1
    <3>4. Free(g, al \cup {e}, <<e>>, "stranded")
      BY <1>12, <3>2, <3>3 DEF Free
    <3>5. TookFirst(q, shape, <<e>>, "stranded")
      BY <1>2, <1>4, <2>2 DEF TookFirst
    <3> QED
      BY <3>4, <3>5
  <2>3. CASE n # 1 /\ shape = "loop"
    <3>1. p = FREEQ /\ m = q[2] /\ n - 1 \in Nat /\ n - 1 > 0
      BY <1>2, <1>4, <1>6, <1>7, <2>3
    <3>2. PICK v : v = Cut(q, 1)
      OBVIOUS
    <3>3. 1 \in 1 .. Len(q)
      BY <1>2
    <3>4. /\ v \in Queue /\ Len(v) = n - 1 /\ Members(v) = Members(q) \ {e}
          /\ \A i \in 1 .. n - 1 : v[i] = q[i + 1]
      <4>1. /\ v \in Queue /\ Len(v) = n - 1 /\ Members(v) = Members(q) \ {e}
            /\ \A i \in 1 .. n - 1 : v[i] = q[Gap(1, i)]
        BY <1>1, <1>2, <1>4, <3>2, <3>3, CutQueue
      <4>2. \A i \in 1 .. n - 1 : Gap(1, i) = i + 1
        BY <1>2 DEF Gap
      <4> QED
        BY <4>1, <4>2
    <3>5. v[1] = m /\ v[n - 1] = q[n]
      BY <3>1, <3>4
    <3>6. g.next[FREEQ] = m /\ g.prev[m] = FREEQ
      <4>1. m # e
        <5>1. 1 \in 1 .. n /\ 2 \in 1 .. n
          BY <1>2, <2>3
        <5> QED
          BY <1>3, <1>4, <3>1, <5>1
      <4> QED
        BY <1>5, <1>9, <3>1, <4>1 DEF Deleted
    <3>7. \A i \in 2 .. n : g.next[q[i]] = s.next[q[i]]
      <4> TAKE i \in 2 .. n
      <4>1. i \in 1 .. n /\ 1 \in 1 .. n /\ i # 1
        BY <1>2
      <4>2. q[i] # e /\ q[i] # FREEQ /\ q[i] \in Nodes
        BY <1>3, <1>4, <1>5, <4>1
      <4> QED
        BY <1>9, <3>1, <4>2 DEF Deleted
    <3>8. \A i \in 1 .. Len(v) - 1 : g.next[v[i]] = v[i + 1]
      <4> TAKE i \in 1 .. Len(v) - 1
      <4>1. i \in 1 .. n - 1 /\ i + 1 \in 1 .. n - 1 /\ i + 1 \in 2 .. n /\ i + 1 \in 1 .. Len(q) - 1
        BY <1>2, <3>4
      <4>2. v[i] = q[i + 1] /\ v[i + 1] = q[(i + 1) + 1]
        BY <3>4, <4>1
      <4> QED
        BY <1>1, <3>7, <4>1, <4>2
    <3>9. g.next[v[n - 1]] = v[n - 1]
      <4>1. n \in 2 .. n
        BY <1>2, <2>3
      <4> QED
        BY <1>1, <1>2, <3>5, <3>7, <4>1
    <3>10. Looped(g, v)
      BY <1>12, <3>1, <3>4, <3>5, <3>6, <3>8, <3>9 DEF Looped, Chain
    <3>11. Members(v) \cap (al \cup {e}) = {} /\ g.prev[v[1]] = FREEQ
      BY <3>4, <3>5, <3>6
    <3>12. Free(g, al \cup {e}, v, "loop")
      BY <3>10, <3>11, Zenon DEF Free
    <3>13. TookFirst(q, shape, v, "loop")
      BY <1>2, <2>3, <3>2 DEF TookFirst
    <3> QED
      BY <3>12, <3>13
  <2> QED
    BY <2>1, <2>2, <2>3
<1> QED
  BY <1>4, <1>8, <1>10, <1>11, <1>13 DEF FreeTaken

LEMMA FreeTake ==
  ASSUME NEW s \in Heaps, NEW al \in SUBSET Tasks, NEW q, NEW shape, Free(s, al, q, shape),
         shape \notin {"stuck", "stranded"}, Len(q) > 0
  PROVE  FreeTaken(list_del(s, q[1]), s, al, q, shape)
<1>1. CASE shape = "proper"
  <2>1. Ring(s, FREEQ, q) /\ Members(q) \cap al = {} /\ q \in Queue /\ FREEQ \in Heads
    BY <1>1, Numbers DEF Free, Ring
  <2>2. 1 \in 1 .. Len(q)
    BY <2>1, QueueType
  <2>3. PICK g : g = list_del(s, q[1])
    OBVIOUS
  <2>4. TakenOut(g, s, FREEQ, q, 1)
    BY <2>1, <2>2, <2>3, TakeOut, Zenon
  <2>5. Members(Cut(q, 1)) = Members(q) \ {q[1]}
    BY <2>1, <2>2, CutQueue, Zenon
  <2>6. Free(g, al \cup {q[1]}, Cut(q, 1), "proper")
    <3>1. Members(Cut(q, 1)) \cap (al \cup {q[1]}) = {}
      BY <2>1, <2>5
    <3> QED
      BY <2>4, <3>1, Zenon DEF Free, TakenOut
  <2>7. TookFirst(q, shape, Cut(q, 1), "proper")
    BY <1>1 DEF TookFirst
  <2> QED
    BY <2>3, <2>4, <2>6, <2>7, Zenon DEF FreeTaken, TakenOut
<1>2. CASE shape \in {"loop", "loopfront"}
  <2>1. /\ Looped(s, q) /\ Members(q) \cap al = {}
        /\ \/ shape = "loop" /\ s.prev[q[1]] = FREEQ
           \/ shape = "loopfront" /\ s.prev[q[1]] = q[1]
    <3>1. CASE shape = "loop"
      BY <3>1 DEF Free
    <3>2. CASE shape = "loopfront"
      BY <3>2 DEF Free
    <3> QED
      BY <1>2, <3>1, <3>2
  <2> QED
    BY <2>1, TakeFromLoop, Zenon
<1> QED
  BY <1>1, <1>2 DEF Free

\* list_add_tail of the same PCB twice over: the second insertion finds the
\* PCB before and behind itself.
DoubleIn(g, s, t, last) ==
  /\ g \in Heaps
  /\ \A x \in Nodes : /\ g.next[x] = IF x \in {t, last} THEN t ELSE s.next[x]
                      /\ g.prev[x] = IF x \in {t, FREEQ} THEN t ELSE s.prev[x]

AddTailTwice(s, t) == list_add_tail(list_add_tail(s, t, FREEQ), t, FREEQ)

LEMMA DoubleInsertion ==
  ASSUME NEW s \in Heaps, NEW t \in Tasks, NEW last \in Nodes, last = s.prev[FREEQ]
  PROVE  DoubleIn(AddTailTwice(s, t), s, t, last)
<1>1. t \in Nodes /\ FREEQ \in Nodes /\ t # FREEQ
  BY Numbers
<1>2. PICK g1 : g1 = list_add_tail(s, t, FREEQ)
  OBVIOUS
<1>3. Inserted(g1, s, t, last, FREEQ)
  <2>1. g1 = Insert(s, t, last, FREEQ)
    BY <1>2, Zenon DEF list_add_tail
  <2> QED
    BY <1>1, <2>1, InsertLinks, Zenon
<1>4. g1 \in Heaps /\ g1.prev[FREEQ] = t
  BY <1>1, <1>3 DEF Inserted
<1>5. PICK g : g = list_add_tail(g1, t, FREEQ)
  OBVIOUS
<1>6. Inserted(g, g1, t, t, FREEQ)
  <2>1. g = Insert(g1, t, t, FREEQ)
    BY <1>4, <1>5, Zenon DEF list_add_tail
  <2> QED
    BY <1>1, <1>4, <2>1, InsertLinks, Zenon
<1>7. g \in Heaps
  BY <1>6 DEF Inserted
<1>8. ASSUME NEW x \in Nodes
      PROVE  /\ g.next[x] = IF x \in {t, last} THEN t ELSE s.next[x]
             /\ g.prev[x] = IF x \in {t, FREEQ} THEN t ELSE s.prev[x]
  BY <1>3, <1>6 DEF Inserted
<1> QED
  BY <1>2, <1>5, <1>7, <1>8, Zenon DEF DoubleIn, AddTailTwice

\* The two insertions of sys_exit touch nothing but free PCBs, the head and
\* the PCB itself.
FreeAdded(g, s, al, q, shape, t) ==
  /\ g \in Heaps /\ Same(g, s, (al \ {t}) \cup {READYQ, WAITQ})
  /\ \E q2, shape2 : Free(g, al \ {t}, q2, shape2) /\ AddedTwice(q, shape, t, q2, shape2)

AddedToChain(g, s, al, q, t) ==
  /\ Looped(g, Append(q, t)) /\ Members(Append(q, t)) \cap (al \ {t}) = {}
  /\ g.prev[Append(q, t)[1]] = s.prev[q[1]] /\ Append(q, t)[1] = q[1]

LEMMA AddToChain ==
  ASSUME NEW s \in Heaps, NEW al \in SUBSET Tasks, NEW q, Chain(s, q), Members(q) \cap al = {},
         NEW t \in al, NEW g, DoubleIn(g, s, t, q[Len(q)])
  PROVE  AddedToChain(g, s, al, q, t)
<1>1. /\ q \in Queue /\ s.next[FREEQ] = q[1] /\ s.prev[FREEQ] = q[Len(q)]
      /\ \A i \in 1 .. Len(q) - 1 : s.next[q[i]] = q[i + 1]
      /\ Len(q) > 0
  BY DEF Looped, Chain
<1>2. PICK n \in Nat : n = Len(q) /\ n > 0
  BY <1>1, QueueType
<1>3. /\ \A i \in 1 .. n : q[i] \in Tasks /\ q[i] \in Members(q) /\ q[i] # t
      /\ \A i, j \in 1 .. n : q[i] = q[j] => i = j
  <2>1. q \in Queue
    BY <1>1
  <2>2. /\ \A i \in 1 .. n : q[i] \in Tasks /\ q[i] \in Members(q)
        /\ \A i, j \in 1 .. n : q[i] = q[j] => i = j
    BY <1>2, <2>1, QueueType
  <2> QED
    BY <2>2
<1>4. t \in Tasks /\ t \in Nodes /\ FREEQ \in Nodes /\ FREEQ \notin Tasks /\ Tasks \subseteq Nodes
  BY Numbers
<1>5. PICK v : v = Append(q, t)
  OBVIOUS
<1>6. /\ v \in Queue /\ Len(v) = n + 1 /\ Members(v) = Members(q) \cup {t}
      /\ \A i \in 1 .. n : v[i] = q[i]
      /\ v[n + 1] = t
  <2>1. t \in Tasks /\ t \notin Members(q)
    BY <1>4
  <2>2. /\ v \in Queue /\ Len(v) = Len(q) + 1 /\ Members(v) = Members(q) \cup {t}
        /\ \A i \in 1 .. Len(q) : v[i] = q[i]
        /\ v[Len(q) + 1] = t
    BY <1>1, <1>5, <2>1, EndOfQueue, Zenon
  <2> QED
    BY <1>2, <2>2
<1>7. 1 \in 1 .. n /\ n \in 1 .. n /\ v[1] = q[1] /\ q[1] \in Nodes
  BY <1>2, <1>3, <1>4, <1>6
<1>8. q[n] # FREEQ /\ g.next[FREEQ] = v[1] /\ g.prev[FREEQ] = t
  <2>1. q[n] # FREEQ
    BY <1>3, <1>4, <1>7
  <2> QED
    BY <1>1, <1>2, <1>4, <1>7, <2>1 DEF DoubleIn
<1>9. ASSUME NEW i \in 1 .. n
      PROVE  g.next[v[i]] = v[i + 1]
  <2>1. q[i] \in Nodes /\ q[i] # t /\ v[i] = q[i]
    BY <1>3, <1>4, <1>6
  <2>2. CASE i = n
    BY <1>2, <1>6, <2>1, <2>2 DEF DoubleIn
  <2>3. CASE i # n
    <3>1. i \in 1 .. n - 1 /\ i + 1 \in 1 .. n /\ q[i] # q[n]
      BY <1>3, <1>7, <2>3
    <3> QED
      BY <1>1, <1>2, <1>6, <2>1, <3>1 DEF DoubleIn
  <2> QED
    BY <2>2, <2>3
<1>10. g.next[t] = t
  BY <1>4 DEF DoubleIn
<1>11. Looped(g, v)
  <2>1. Len(v) > 0 /\ Len(v) - 1 = n
    BY <1>6
  <2> QED
    BY <1>6, <1>8, <1>9, <1>10, <2>1 DEF Looped, Chain
<1>12. g.prev[v[1]] = s.prev[q[1]]
  BY <1>3, <1>4, <1>7 DEF DoubleIn
<1>13. Members(v) \cap (al \ {t}) = {}
  BY <1>6
<1> QED
  BY <1>5, <1>7, <1>11, <1>12, <1>13 DEF AddedToChain

LEMMA RingIsChain ==
  ASSUME NEW s, NEW q, Ring(s, FREEQ, q), q # <<>>
  PROVE  Chain(s, q) /\ s.prev[q[1]] = FREEQ
<1>1. /\ q \in Queue
      /\ \A i \in 0 .. Len(q) : s.next[At(FREEQ, q, i)] = At(FREEQ, q, i + 1)
                              /\ s.prev[At(FREEQ, q, i + 1)] = At(FREEQ, q, i)
  BY DEF Ring
<1>2. PICK n \in Nat : n = Len(q) /\ n > 0
  <2>1. Len(q) \in Nat /\ q \in Seq(Tasks)
    BY <1>1, QueueType
  <2>2. Len(q) # 0
    BY <2>1
  <2> QED
    BY <2>1, <2>2
<1>3. /\ At(FREEQ, q, 0) = FREEQ /\ At(FREEQ, q, n + 1) = FREEQ
      /\ \A i \in 1 .. n : At(FREEQ, q, i) = q[i]
  <2>1. FREEQ \in Heads
    BY Numbers
  <2> QED
    BY <1>1, <1>2, <2>1, Places
<1>4. /\ s.next[FREEQ] = q[1] /\ s.prev[FREEQ] = q[n] /\ s.prev[q[1]] = FREEQ
      /\ \A i \in 1 .. n - 1 : s.next[q[i]] = q[i + 1]
  <2>1. 0 \in 0 .. Len(q) /\ n \in 0 .. Len(q) /\ 1 \in 1 .. n /\ n \in 1 .. n /\ 0 + 1 = 1
    BY <1>2
  <2>2. s.next[FREEQ] = q[1] /\ s.prev[q[1]] = FREEQ
    BY <1>1, <1>3, <2>1
  <2>3. s.prev[FREEQ] = q[n]
    BY <1>1, <1>3, <2>1
  <2>4. \A i \in 1 .. n - 1 : i \in 0 .. Len(q) /\ i \in 1 .. n /\ i + 1 \in 1 .. n
    BY <1>2
  <2> QED
    BY <1>1, <1>3, <2>2, <2>3, <2>4
<1> QED
  BY <1>1, <1>2, <1>4 DEF Chain

\* One PCB alone, inserted twice.
LEMMA AlonePCB ==
  ASSUME NEW s, NEW al, NEW t \in Tasks, s.next[FREEQ] = t, s.prev[FREEQ] = t,
         s.next[t] = t, s.prev[t] = t, t \notin al
  PROVE  Free(s, al, <<t>>, "loopfront")
<1>1. PICK v : v = <<t>>
  OBVIOUS
<1>2. v \in Seq(Tasks) /\ Len(v) = 1 /\ v[1] = t /\ DOMAIN v = {1}
  BY <1>1
<1>3. v \in Queue
  BY <1>2 DEF Queue
<1>4. Members(v) = {t}
  BY <1>2 DEF Members
<1>5. Looped(s, v)
  BY <1>2, <1>3 DEF Looped, Chain
<1>6. Members(v) \cap al = {} /\ s.prev[v[1]] = v[1]
  BY <1>2, <1>4
<1> QED
  BY <1>1, <1>5, <1>6, Zenon DEF Free

LEMMA FreeAdd ==
  ASSUME NEW s \in Heaps, NEW al \in SUBSET Tasks, NEW q, NEW shape, Free(s, al, q, shape),
         NEW t \in al, ~(shape = "stuck" /\ t # q[1])
  PROVE  FreeAdded(AddTailTwice(s, t), s, al, q, shape, t)
<1>1. /\ t \in Tasks /\ t \in Nodes /\ FREEQ \in Nodes /\ FREEQ \in Heads /\ t # FREEQ
      /\ FREEQ \notin Tasks /\ Tasks \subseteq Nodes /\ FREEQ # READYQ /\ FREEQ # WAITQ
      /\ READYQ \in Nodes \ Tasks /\ WAITQ \in Nodes \ Tasks
  BY Numbers
<1>2. PICK g : g = AddTailTwice(s, t)
  OBVIOUS
<1>3. ASSUME NEW last \in Nodes, last = s.prev[FREEQ], last \in {FREEQ, t} \cup (Tasks \ al)
      PROVE  DoubleIn(g, s, t, last) /\ g \in Heaps /\ Same(g, s, (al \ {t}) \cup {READYQ, WAITQ})
  <2>1. DoubleIn(g, s, t, last)
    BY <1>2, <1>3, DoubleInsertion, Zenon
  <2>2. \A x \in (al \ {t}) \cup {READYQ, WAITQ} : x \in Nodes /\ x # t /\ x # FREEQ /\ x # last
    BY <1>1, <1>3
  <2> QED
    BY <2>1, <2>2 DEF DoubleIn, Same
<1>4. CASE shape \in {"loop", "loopfront"} \/ (shape = "proper" /\ q # <<>>)
  <2>1. /\ Chain(s, q) /\ Members(q) \cap al = {}
        /\ s.prev[q[1]] = IF shape = "loopfront" THEN q[1] ELSE FREEQ
    <3>1. CASE shape = "loop"
      BY <3>1 DEF Free, Looped
    <3>2. CASE shape = "loopfront"
      BY <3>2 DEF Free, Looped
    <3>3. CASE shape = "proper" /\ q # <<>>
      <4>1. Ring(s, FREEQ, q) /\ Members(q) \cap al = {}
        BY <3>3 DEF Free
      <4>2. Chain(s, q) /\ s.prev[q[1]] = FREEQ
        BY <3>3, <4>1, RingIsChain, Zenon
      <4> QED
        BY <3>3, <4>1, <4>2
    <3> QED
      BY <1>4, <3>1, <3>2, <3>3
  <2>2. q \in Queue /\ Len(q) > 0 /\ s.prev[FREEQ] = q[Len(q)]
    BY <2>1 DEF Chain
  <2>3. Len(q) \in 1 .. Len(q) /\ q # <<>>
    <3>1. Len(q) \in Nat /\ q \in Seq(Tasks)
      BY <2>2, QueueType
    <3> QED
      BY <2>2, <3>1
  <2>4. q[Len(q)] \in Tasks /\ q[Len(q)] \in Members(q)
    BY <2>2, <2>3, QueueType
  <2>5. q[Len(q)] \in Nodes /\ q[Len(q)] \in {FREEQ, t} \cup (Tasks \ al)
    BY <1>1, <2>1, <2>4
  <2>6. DoubleIn(g, s, t, q[Len(q)]) /\ g \in Heaps /\ Same(g, s, (al \ {t}) \cup {READYQ, WAITQ})
    BY <1>3, <2>2, <2>5
  <2>7. PICK v : v = Append(q, t)
    OBVIOUS
  <2>8. AddedToChain(g, s, al, q, t)
    BY <2>1, <2>6, AddToChain, Zenon
  <2>9. /\ Looped(g, v) /\ Members(v) \cap (al \ {t}) = {}
        /\ g.prev[v[1]] = s.prev[q[1]] /\ v[1] = q[1]
    BY <2>7, <2>8, Zenon DEF AddedToChain
  <2>10. CASE shape = "loopfront"
    <3>1. g.prev[v[1]] = v[1]
      BY <2>1, <2>9, <2>10
    <3>2. Free(g, al \ {t}, v, "loopfront")
      BY <2>9, <3>1, Zenon DEF Free
    <3>3. AddedTwice(q, shape, t, v, "loopfront")
      BY <2>7, <2>10, Zenon DEF AddedTwice
    <3> QED
      BY <1>2, <2>6, <3>2, <3>3, Zenon DEF FreeAdded
  <2>11. CASE shape \in {"proper", "loop"}
    <3>1. g.prev[v[1]] = FREEQ
      BY <2>1, <2>9, <2>11
    <3>2. Free(g, al \ {t}, v, "loop")
      BY <2>9, <3>1, Zenon DEF Free
    <3>3. AddedTwice(q, shape, t, v, "loop")
      BY <2>3, <2>7, <2>11, Zenon DEF AddedTwice
    <3> QED
      BY <1>2, <2>6, <3>2, <3>3, Zenon DEF FreeAdded
  <2> QED
    BY <1>4, <2>10, <2>11
<1>5. CASE shape = "proper" /\ q = <<>>
  <2>1. Ring(s, FREEQ, q) /\ q \in Queue /\ Len(q) = 0
    BY <1>5 DEF Free, Ring
  <2>2. s.next[FREEQ] = FREEQ /\ s.prev[FREEQ] = FREEQ
    <3>1. 0 \in 0 .. Len(q) /\ At(FREEQ, q, 0) = FREEQ /\ At(FREEQ, q, 0 + 1) = FREEQ
      BY <2>1 DEF At
    <3> QED
      BY <2>1, <3>1 DEF Ring
  <2>3. DoubleIn(g, s, t, FREEQ) /\ g \in Heaps /\ Same(g, s, (al \ {t}) \cup {READYQ, WAITQ})
    BY <1>1, <1>3, <2>2
  <2>4. Free(g, al \ {t}, <<t>>, "loopfront")
    <3>1. g.next[FREEQ] = t /\ g.prev[FREEQ] = t /\ g.next[t] = t /\ g.prev[t] = t
      BY <1>1, <2>3 DEF DoubleIn
    <3> QED
      BY <1>1, <3>1, AlonePCB
  <2>5. <<t>> = Append(q, t)
    BY <1>5
  <2>6. AddedTwice(q, shape, t, <<t>>, "loopfront")
    BY <1>5, <2>5, Zenon DEF AddedTwice
  <2> QED
    BY <1>2, <2>3, <2>4, <2>6, Zenon DEF FreeAdded
<1>6. CASE shape \in {"stuck", "stranded"} /\ t = q[1]
  <2>1. q = <<t>> /\ s.next[FREEQ] = t /\ s.prev[FREEQ] \in {t} \cup (Tasks \ al)
    <3>1. CASE shape = "stuck"
      BY <1>6, <3>1 DEF Free
    <3>2. CASE shape = "stranded"
      BY <1>6, <3>2 DEF Free
    <3> QED
      BY <1>6, <3>1, <3>2
  <2>2. PICK last : last = s.prev[FREEQ]
    OBVIOUS
  <2>3. last \in Nodes /\ last \in {FREEQ, t} \cup (Tasks \ al) /\ last # FREEQ
    BY <1>1, <2>1, <2>2
  <2>4. DoubleIn(g, s, t, last) /\ g \in Heaps /\ Same(g, s, (al \ {t}) \cup {READYQ, WAITQ})
    BY <1>3, <2>2, <2>3
  <2>5. Free(g, al \ {t}, <<t>>, "loopfront")
    <3>1. g.next[FREEQ] = t /\ g.prev[FREEQ] = t /\ g.next[t] = t /\ g.prev[t] = t
      BY <1>1, <2>1, <2>3, <2>4 DEF DoubleIn
    <3> QED
      BY <1>1, <3>1, AlonePCB
  <2>6. AddedTwice(q, shape, t, q, "loopfront")
    BY <1>6, Zenon DEF AddedTwice
  <2> QED
    BY <1>2, <2>1, <2>4, <2>5, <2>6, Zenon DEF FreeAdded
<1>7. CASE shape = "stranded" /\ t # q[1]
  <2>1. PICK f \in al : q = <<f>> /\ s.next[FREEQ] = f /\ s.prev[FREEQ] \in Tasks \ al
    BY <1>7 DEF Free
  <2>2. f # t
    BY <1>7, <2>1
  <2>3. PICK last : last = s.prev[FREEQ]
    OBVIOUS
  <2>4. last \in Nodes /\ last \in {FREEQ, t} \cup (Tasks \ al) /\ last # FREEQ
    BY <1>1, <2>1, <2>3
  <2>5. DoubleIn(g, s, t, last) /\ g \in Heaps /\ Same(g, s, (al \ {t}) \cup {READYQ, WAITQ})
    BY <1>3, <2>3, <2>4
  <2>6. g.next[FREEQ] = f /\ g.prev[FREEQ] = t
    BY <1>1, <2>1, <2>4, <2>5 DEF DoubleIn
  <2>7. Free(g, al \ {t}, q, "stranded")
    BY <1>1, <2>1, <2>2, <2>6 DEF Free
  <2>8. AddedTwice(q, shape, t, q, "stranded")
    BY <1>7, Zenon DEF AddedTwice
  <2> QED
    BY <1>2, <2>5, <2>7, <2>8, Zenon DEF FreeAdded
<1>8. shape \in {"proper", "loop", "loopfront", "stuck", "stranded"}
  BY DEF Free
<1> QED
  BY <1>4, <1>5, <1>6, <1>7, <1>8

-----------------------------------------------------------------------------
(* The queues of the live processes.                                       *)

\* The links of the PCBs in use and of the heads of their queues.
LiveNodes(al) == al \cup {READYQ, WAITQ}

LEMMA FreeApart ==
  ASSUME NEW s, NEW al, NEW q, NEW shape, Free(s, al, q, shape), al \in SUBSET Tasks
  PROVE  FreeNodes(q, shape) \subseteq Nodes \ LiveNodes(al)
<1>1. FREEQ \in Nodes \ LiveNodes(al) /\ \A t \in Tasks : t \in Nodes /\ t # READYQ /\ t # WAITQ
  BY Numbers DEF LiveNodes
<1>2. CASE shape \in {"stuck", "stranded"}
  BY <1>1, <1>2 DEF FreeNodes
<1>3. CASE shape \notin {"stuck", "stranded"}
  <2>1. q \in Queue /\ Members(q) \cap al = {}
    BY <1>3 DEF Free, Looped, Chain, Ring
  <2>2. Members(q) \subseteq Tasks
    BY <2>1, QueueType
  <2> QED
    BY <1>1, <1>3, <2>1, <2>2 DEF FreeNodes, LiveNodes
<1> QED
  BY <1>2, <1>3

LEMMA TailIsCut ==
  ASSUME NEW q \in Queue, q # <<>>
  PROVE  1 \in 1 .. Len(q) /\ Head(q) = q[1] /\ Tail(q) = Cut(q, 1)
<1>1. q \in Seq(Tasks) /\ Len(q) \in Nat
  BY QueueType
<1>2. 1 \in 1 .. Len(q)
  BY <1>1
<1>3. PICK v : v = Tail(q)
  OBVIOUS
<1>4. v \in Seq(Tasks) /\ Len(v) = Len(q) - 1 /\ \A j \in 1 .. Len(v) : v[j] = q[j + 1]
  BY <1>1, <1>3
<1>5. PICK c : c = Cut(q, 1)
  OBVIOUS
<1>6. c \in Seq(Tasks) /\ Len(c) = Len(q) - 1 /\ \A j \in 1 .. Len(q) - 1 : c[j] = q[j + 1]
  <2>1. c \in Queue /\ Len(c) = Len(q) - 1 /\ \A j \in 1 .. Len(q) - 1 : c[j] = q[Gap(1, j)]
    BY <1>2, <1>5, CutQueue
  <2>2. \A j \in 1 .. Len(q) - 1 : Gap(1, j) = j + 1
    BY <1>1 DEF Gap
  <2> QED
    BY <2>1, <2>2 DEF Queue
<1>7. v = c
  BY <1>4, <1>6, SeqEqual
<1> QED
  BY <1>1, <1>2, <1>3, <1>5, <1>7

\* No PCB of an empty queue, and the first one of the others.
LEMMA FirstOfRing ==
  ASSUME NEW s, NEW head \in Heads, NEW q, Ring(s, head, q)
  PROVE  /\ list_empty(s, head) <=> q = <<>>
         /\ q # <<>> => /\ 1 \in 1 .. Len(q) /\ list_first(s, head) = q[1]
                        /\ q[1] \in Members(q) /\ q[1] \in Tasks
                        /\ Head(q) = q[1] /\ Tail(q) = Cut(q, 1)
<1>1. q \in Queue /\ s.next[At(head, q, 0)] = At(head, q, 0 + 1)
  <2>1. q \in Queue
    BY DEF Ring
  <2>2. 0 \in 0 .. Len(q)
    BY <2>1, QueueType
  <2> QED
    BY <2>1, <2>2 DEF Ring
<1>2. q \in Seq(Tasks) /\ Len(q) \in Nat /\ head \notin Tasks
      /\ \A i \in 1 .. Len(q) : q[i] \in Tasks /\ q[i] \in Members(q)
  BY <1>1, QueueType, Numbers
<1>3. CASE q = <<>>
  <2>1. At(head, q, 0) = head /\ At(head, q, 0 + 1) = head
    BY <1>3 DEF At
  <2> QED
    BY <1>1, <1>3, <2>1 DEF list_empty
<1>4. CASE q # <<>>
  <2>1. 1 \in 1 .. Len(q)
    BY <1>2, <1>4
  <2>2. At(head, q, 0) = head /\ At(head, q, 0 + 1) = q[1]
    BY <1>2, <2>1 DEF At
  <2>3. Head(q) = q[1] /\ Tail(q) = Cut(q, 1)
    BY <1>1, <1>4, TailIsCut
  <2> QED
    BY <1>1, <1>2, <1>4, <2>1, <2>2, <2>3 DEF list_empty, list_first
<1> QED
  BY <1>3, <1>4

LEMMA PairSwap ==
  ASSUME NEW s, NEW al, NEW st, NEW a, NEW q, NEW b, NEW w, Pair(s, al, st, a, q, b, w)
  PROVE  Pair(s, al, st, b, w, a, q)
BY DEF Pair

\* A store elsewhere.
LEMMA PairKept ==
  ASSUME NEW s, NEW g \in Heaps, NEW al, NEW st, NEW a \in {READYQ, WAITQ}, NEW b \in {READYQ, WAITQ},
         NEW q, NEW w, Pair(s, al, st, a, q, b, w), Same(g, s, LiveNodes(al))
  PROVE  Pair(g, al, st, a, q, b, w)
<1>1. a \in Heads /\ b \in Heads
  BY Numbers
<1>2. Ring(g, a, q)
  <2>1. Same(g, s, Members(q) \cup {a}) /\ Ring(s, a, q)
    BY DEF Pair, Same, LiveNodes
  <2> QED
    BY <1>1, <2>1, RingKept
<1>3. Ring(g, b, w)
  <2>1. Same(g, s, Members(w) \cup {b}) /\ Ring(s, b, w)
    BY DEF Pair, Same, LiveNodes
  <2> QED
    BY <1>1, <2>1, RingKept
<1>4. \A t \in al : Loose(s, t) => Loose(g, t)
  BY DEF Same, LiveNodes, Loose
<1> QED
  BY <1>2, <1>3, <1>4 DEF Pair

\* A PCB without links joins a queue.
PairMoved(g, s, al, st, a, q, b, w) == Pair(g, al, st, a, q, b, w) /\ Same(g, s, Nodes \ LiveNodes(al))

LEMMA Join ==
  ASSUME NEW s, NEW al, NEW st, NEW a \in {READYQ, WAITQ}, NEW b \in {READYQ, WAITQ}, a # b,
         NEW q, NEW w, Pair(s, al, st, a, q, b, w),
         NEW t \in al \ (Members(q) \cup Members(w)), NEW v \in {"READY", "BLOCKED"}
  PROVE  PairMoved(list_add_tail(s, t, a), s, al, [st EXCEPT ![t] = v], a, Append(q, t), b, w)
<1>1. /\ a \in Heads /\ b \in Heads /\ a \in Nodes /\ b \in Nodes
      /\ a \notin Tasks /\ b \notin Tasks /\ Tasks \subseteq Nodes
  BY Numbers
<1>2. /\ s \in Heaps /\ al \subseteq Tasks /\ st \in [Tasks -> States] /\ Ring(s, a, q) /\ Ring(s, b, w)
      /\ Members(q) \subseteq al /\ Members(w) \subseteq al /\ Members(q) \cap Members(w) = {}
      /\ \A x \in al \ (Members(q) \cup Members(w)) : st[x] = "RUN" /\ Loose(s, x)
      /\ \A x \in Members(q) \cup Members(w) : st[x] # "RUN"
  BY DEF Pair
<1>3. t \in Tasks /\ t \notin Members(q) /\ q \in Queue
  BY <1>2 DEF Ring
<1>4. PICK g : g = list_add_tail(s, t, a)
  OBVIOUS
<1>5. Appended(g, s, a, q, t)
  BY <1>1, <1>2, <1>3, <1>4, AddTail, Zenon
<1>6. g \in Heaps /\ Ring(g, a, Append(q, t)) /\ Same(g, s, Nodes \ (Members(q) \cup {a, t}))
  BY <1>5 DEF Appended
<1>7. PICK r : r = Append(q, t)
  OBVIOUS
<1>8. Members(r) = Members(q) \cup {t}
  BY <1>3, <1>7, EndOfQueue, Zenon
<1>9. Ring(g, b, w)
  <2>1. Same(g, s, Members(w) \cup {b})
    BY <1>1, <1>2, <1>6 DEF Same
  <2> QED
    BY <1>1, <1>2, <2>1, RingKept
<1>10. PICK st2 : st2 = [st EXCEPT ![t] = v]
  OBVIOUS
<1>11. /\ st2 \in [Tasks -> States] /\ st2[t] = v
       /\ \A x \in Tasks : x # t => st2[x] = st[x]
  BY <1>2, <1>3, <1>10 DEF States
<1>12. \A x \in al \ (Members(r) \cup Members(w)) : st2[x] = "RUN" /\ Loose(g, x)
  <2> TAKE x \in al \ (Members(r) \cup Members(w))
  <2>1. x \in Tasks /\ x # t /\ x \in al \ (Members(q) \cup Members(w)) /\ x \in Nodes \ (Members(q) \cup {a, t})
    BY <1>1, <1>2, <1>8
  <2>2. st2[x] = "RUN"
    BY <1>2, <1>11, <2>1
  <2>3. Loose(g, x)
    BY <1>2, <1>6, <2>1 DEF Loose, Same
  <2> QED
    BY <2>2, <2>3
<1>13. \A x \in Members(r) \cup Members(w) : st2[x] # "RUN"
  <2> TAKE x \in Members(r) \cup Members(w)
  <2>1. CASE x = t
    BY <1>11, <2>1
  <2>2. CASE x # t
    <3>1. x \in Members(q) \cup Members(w) /\ x \in Tasks
      BY <1>2, <1>8, <2>2
    <3> QED
      BY <1>2, <1>11, <2>2, <3>1
  <2> QED
    BY <2>1, <2>2
<1>14. Members(r) \subseteq al /\ Members(r) \cap Members(w) = {}
  BY <1>2, <1>8
<1>15. Pair(g, al, st2, a, r, b, w)
  BY <1>2, <1>6, <1>7, <1>9, <1>11, <1>12, <1>13, <1>14, Zenon DEF Pair
<1>16. Same(g, s, Nodes \ LiveNodes(al))
  BY <1>2, <1>6 DEF Same, LiveNodes
<1> QED
  BY <1>4, <1>7, <1>10, <1>15, <1>16, Zenon DEF PairMoved

\* And leaves it.
LEMMA Leave ==
  ASSUME NEW s, NEW al, NEW st, NEW a \in {READYQ, WAITQ}, NEW b \in {READYQ, WAITQ}, a # b,
         NEW q, NEW w, Pair(s, al, st, a, q, b, w), NEW k \in 1 .. Len(q)
  PROVE  PairMoved(list_del(s, q[k]), s, al, [st EXCEPT ![q[k]] = "RUN"], a, Cut(q, k), b, w)
<1>1. /\ a \in Heads /\ b \in Heads /\ a \in Nodes /\ b \in Nodes
      /\ a \notin Tasks /\ b \notin Tasks /\ Tasks \subseteq Nodes
  BY Numbers
<1>2. /\ s \in Heaps /\ al \subseteq Tasks /\ st \in [Tasks -> States] /\ Ring(s, a, q) /\ Ring(s, b, w)
      /\ Members(q) \subseteq al /\ Members(w) \subseteq al /\ Members(q) \cap Members(w) = {}
      /\ \A x \in al \ (Members(q) \cup Members(w)) : st[x] = "RUN" /\ Loose(s, x)
      /\ \A x \in Members(q) \cup Members(w) : st[x] # "RUN"
  BY DEF Pair
<1>3. q \in Queue
  BY <1>2 DEF Ring
<1>4. PICK t : t = q[k]
  OBVIOUS
<1>5. t \in Tasks /\ t \in Members(q)
  BY <1>3, <1>4, QueueType
<1>6. PICK g : g = list_del(s, t)
  OBVIOUS
<1>7. TakenOut(g, s, a, q, k)
  BY <1>1, <1>2, <1>4, <1>6, TakeOut, Zenon
<1>8. g \in Heaps /\ Ring(g, a, Cut(q, k)) /\ Loose(g, t) /\ Same(g, s, Nodes \ (Members(q) \cup {a}))
  BY <1>4, <1>7 DEF TakenOut
<1>9. PICK r : r = Cut(q, k)
  OBVIOUS
<1>10. Members(r) = Members(q) \ {t}
  BY <1>3, <1>4, <1>9, CutQueue, Zenon
<1>11. Ring(g, b, w)
  <2>1. Same(g, s, Members(w) \cup {b})
    BY <1>1, <1>2, <1>8 DEF Same
  <2> QED
    BY <1>1, <1>2, <2>1, RingKept
<1>12. PICK st2 : st2 = [st EXCEPT ![t] = "RUN"]
  OBVIOUS
<1>13. /\ st2 \in [Tasks -> States] /\ st2[t] = "RUN"
       /\ \A x \in Tasks : x # t => st2[x] = st[x]
  BY <1>2, <1>5, <1>12 DEF States
<1>14. \A x \in al \ (Members(r) \cup Members(w)) : st2[x] = "RUN" /\ Loose(g, x)
  <2> TAKE x \in al \ (Members(r) \cup Members(w))
  <2>1. CASE x = t
    BY <1>8, <1>13, <2>1
  <2>2. CASE x # t
    <3>1. x \in Tasks /\ x \in al \ (Members(q) \cup Members(w)) /\ x \in Nodes \ (Members(q) \cup {a})
      BY <1>1, <1>2, <1>10, <2>2
    <3>2. st2[x] = "RUN"
      BY <1>2, <1>13, <2>2, <3>1
    <3>3. Loose(g, x)
      BY <1>2, <1>8, <3>1 DEF Loose, Same
    <3> QED
      BY <3>2, <3>3
  <2> QED
    BY <2>1, <2>2
<1>15. \A x \in Members(r) \cup Members(w) : st2[x] # "RUN"
  <2> TAKE x \in Members(r) \cup Members(w)
  <2>1. x # t /\ x \in Tasks /\ x \in Members(q) \cup Members(w)
    BY <1>2, <1>5, <1>10
  <2> QED
    BY <1>2, <1>13, <2>1
<1>16. Members(r) \subseteq al /\ Members(r) \cap Members(w) = {}
  BY <1>2, <1>10
<1>17. Pair(g, al, st2, a, r, b, w)
  BY <1>2, <1>8, <1>9, <1>11, <1>13, <1>14, <1>15, <1>16, Zenon DEF Pair
<1>18. Same(g, s, Nodes \ LiveNodes(al))
  BY <1>2, <1>8 DEF Same, LiveNodes
<1> QED
  BY <1>4, <1>6, <1>9, <1>12, <1>17, <1>18, Zenon DEF PairMoved

-----------------------------------------------------------------------------
(* update_process_state_rr and sched_next_rr.                              *)

\* A free list does not notice what happens among the live processes.
LEMMA LiveMove ==
  ASSUME NEW s, NEW g, NEW al, NEW st, NEW fq, NEW shape, NEW rq, NEW wq,
         NEW st2, NEW rq2, NEW wq2,
         Queues(s, al, st, fq, shape, rq, wq), Live(g, al, st2, rq2, wq2),
         Same(g, s, Nodes \ LiveNodes(al))
  PROVE  Queues(g, al, st2, fq, shape, rq2, wq2)
<1>1. Free(s, al, fq, shape) /\ al \in SUBSET Tasks
  BY DEF Queues, Live, Pair
<1>2. Same(g, s, FreeNodes(fq, shape))
  <2>1. FreeNodes(fq, shape) \subseteq Nodes \ LiveNodes(al)
    BY <1>1, FreeApart
  <2> QED
    BY <2>1 DEF Same
<1>3. Free(g, al, fq, shape)
  BY <1>1, <1>2, FreeKept, Zenon
<1> QED
  BY <1>3 DEF Queues

\* update_process_state_rr(t, &readyqueue) of the running process, or of a
\* PCB that hangs nowhere.
LEMMA ToReady ==
  ASSUME NEW s, NEW al, NEW st, NEW fq, NEW shape, NEW rq, NEW wq,
         Queues(s, al, st, fq, shape, rq, wq), NEW t \in al \ (Members(rq) \cup Members(wq))
  PROVE  Queues(list_add_tail(s, t, READYQ), al, [st EXCEPT ![t] = "READY"], fq, shape, Append(rq, t), wq)
<1>1. Pair(s, al, st, READYQ, rq, WAITQ, wq) /\ idle_task \in al \ Members(wq)
  BY DEF Queues, Live
<1>2. PICK g : g = list_add_tail(s, t, READYQ)
  OBVIOUS
<1>3. PICK st2 : st2 = [st EXCEPT ![t] = "READY"]
  OBVIOUS
<1>4. PairMoved(g, s, al, st2, READYQ, Append(rq, t), WAITQ, wq)
  <2>1. READYQ \in {READYQ, WAITQ} /\ WAITQ \in {READYQ, WAITQ} /\ READYQ # WAITQ
    BY Numbers
  <2>2. "READY" \in {"READY", "BLOCKED"}
    OBVIOUS
  <2> QED
    BY <1>1, <1>2, <1>3, <2>1, <2>2, Join, Zenon
<1>5. Live(g, al, st2, Append(rq, t), wq) /\ Same(g, s, Nodes \ LiveNodes(al))
  BY <1>1, <1>4, Zenon DEF PairMoved, Live
<1>6. Queues(g, al, st2, fq, shape, Append(rq, t), wq)
  BY <1>5, LiveMove, Zenon
<1> QED
  BY <1>2, <1>3, <1>6, Zenon

\* Into the wait queue, which the idle task never enters.
LEMMA ToWait ==
  ASSUME NEW s, NEW al, NEW st, NEW fq, NEW shape, NEW rq, NEW wq,
         Queues(s, al, st, fq, shape, rq, wq), NEW t \in al \ (Members(rq) \cup Members(wq)), t # idle_task
  PROVE  Queues(list_add_tail(s, t, WAITQ), al, [st EXCEPT ![t] = "BLOCKED"], fq, shape, rq, Append(wq, t))
<1>1. Pair(s, al, st, WAITQ, wq, READYQ, rq) /\ idle_task \in al \ Members(wq)
  BY PairSwap, Zenon DEF Queues, Live
<1>2. PICK g : g = list_add_tail(s, t, WAITQ)
  OBVIOUS
<1>3. PICK st2 : st2 = [st EXCEPT ![t] = "BLOCKED"]
  OBVIOUS
<1>4. PairMoved(g, s, al, st2, WAITQ, Append(wq, t), READYQ, rq)
  <2>1. READYQ \in {READYQ, WAITQ} /\ WAITQ \in {READYQ, WAITQ} /\ WAITQ # READYQ
    BY Numbers
  <2>2. "BLOCKED" \in {"READY", "BLOCKED"} /\ t \in al \ (Members(wq) \cup Members(rq))
    OBVIOUS
  <2> QED
    BY <1>1, <1>2, <1>3, <2>1, <2>2, Join, Zenon
<1>5. PICK w : w = Append(wq, t)
  OBVIOUS
<1>6. Members(w) = Members(wq) \cup {t}
  <2>1. wq \in Queue /\ t \in Tasks /\ t \notin Members(wq)
    BY <1>1 DEF Pair, Ring
  <2> QED
    BY <1>5, <2>1, EndOfQueue, Zenon
<1>7. idle_task \in al \ Members(w)
  BY <1>1, <1>6
<1>8. Live(g, al, st2, rq, w) /\ Same(g, s, Nodes \ LiveNodes(al))
  BY <1>4, <1>5, <1>7, PairSwap, Zenon DEF PairMoved, Live
<1>9. Queues(g, al, st2, fq, shape, rq, w)
  BY <1>8, LiveMove, Zenon
<1> QED
  BY <1>2, <1>3, <1>5, <1>9, Zenon

\* Out of the ready queue, and out of the wait queue.
LEMMA FromReady ==
  ASSUME NEW s, NEW al, NEW st, NEW fq, NEW shape, NEW rq, NEW wq,
         Queues(s, al, st, fq, shape, rq, wq), NEW k \in 1 .. Len(rq)
  PROVE  Queues(list_del(s, rq[k]), al, [st EXCEPT ![rq[k]] = "RUN"], fq, shape, Cut(rq, k), wq)
<1>1. Pair(s, al, st, READYQ, rq, WAITQ, wq) /\ idle_task \in al \ Members(wq)
  BY DEF Queues, Live
<1>2. PICK g : g = list_del(s, rq[k])
  OBVIOUS
<1>3. PICK st2 : st2 = [st EXCEPT ![rq[k]] = "RUN"]
  OBVIOUS
<1>4. PairMoved(g, s, al, st2, READYQ, Cut(rq, k), WAITQ, wq)
  <2>1. READYQ \in {READYQ, WAITQ} /\ WAITQ \in {READYQ, WAITQ} /\ READYQ # WAITQ
    BY Numbers
  <2> QED
    BY <1>1, <1>2, <1>3, <2>1, Leave, Zenon
<1>5. Live(g, al, st2, Cut(rq, k), wq) /\ Same(g, s, Nodes \ LiveNodes(al))
  BY <1>1, <1>4, Zenon DEF PairMoved, Live
<1>6. Queues(g, al, st2, fq, shape, Cut(rq, k), wq)
  BY <1>5, LiveMove, Zenon
<1> QED
  BY <1>2, <1>3, <1>6, Zenon

LEMMA FromWait ==
  ASSUME NEW s, NEW al, NEW st, NEW fq, NEW shape, NEW rq, NEW wq,
         Queues(s, al, st, fq, shape, rq, wq), NEW k \in 1 .. Len(wq)
  PROVE  Queues(list_del(s, wq[k]), al, [st EXCEPT ![wq[k]] = "RUN"], fq, shape, rq, Cut(wq, k))
<1>1. Pair(s, al, st, WAITQ, wq, READYQ, rq) /\ idle_task \in al \ Members(wq)
  BY PairSwap, Zenon DEF Queues, Live
<1>2. PICK g : g = list_del(s, wq[k])
  OBVIOUS
<1>3. PICK st2 : st2 = [st EXCEPT ![wq[k]] = "RUN"]
  OBVIOUS
<1>4. PairMoved(g, s, al, st2, WAITQ, Cut(wq, k), READYQ, rq)
  <2>1. READYQ \in {READYQ, WAITQ} /\ WAITQ \in {READYQ, WAITQ} /\ WAITQ # READYQ
    BY Numbers
  <2> QED
    BY <1>1, <1>2, <1>3, <2>1, Leave, Zenon
<1>5. PICK w : w = Cut(wq, k)
  OBVIOUS
<1>6. Members(w) = Members(wq) \ {wq[k]}
  <2>1. wq \in Queue
    BY <1>1 DEF Pair, Ring
  <2> QED
    BY <1>5, <2>1, CutQueue, Zenon
<1>7. idle_task \in al \ Members(w)
  BY <1>1, <1>6
<1>8. Live(g, al, st2, rq, w) /\ Same(g, s, Nodes \ LiveNodes(al))
  BY <1>4, <1>5, <1>7, PairSwap, Zenon DEF PairMoved, Live
<1>9. Queues(g, al, st2, fq, shape, rq, w)
  BY <1>8, LiveMove, Zenon
<1> QED
  BY <1>2, <1>3, <1>5, <1>9, Zenon

\* What is in a queue, and what is not, by its state.
LEMMA StateOfQueued ==
  ASSUME NEW s, NEW al, NEW st, NEW fq, NEW shape, NEW rq, NEW wq,
         Queues(s, al, st, fq, shape, rq, wq)
  PROVE  /\ rq \in Queue /\ wq \in Queue /\ al \subseteq Tasks /\ s \in Heaps /\ st \in [Tasks -> States]
         /\ Ring(s, READYQ, rq) /\ Ring(s, WAITQ, wq) /\ Free(s, al, fq, shape)
         /\ Members(rq) \subseteq al /\ Members(wq) \subseteq al /\ Members(rq) \cap Members(wq) = {}
         /\ idle_task \in al \ Members(wq)
         /\ \A t \in al \ (Members(rq) \cup Members(wq)) : st[t] = "RUN" /\ Loose(s, t)
         /\ \A t \in Members(rq) \cup Members(wq) : st[t] # "RUN"
BY DEF Queues, Live, Pair, Ring

\* The running process is in no queue, so nothing is unlinked.
LEMMA UpdateRunning ==
  ASSUME NEW s, NEW al, NEW st, NEW fq, NEW shape, NEW rq, NEW wq,
         Queues(s, al, st, fq, shape, rq, wq), NEW t \in al \ (Members(rq) \cup Members(wq)),
         NEW r, r = [h |-> s, st |-> st]
  PROVE  /\ update_process_state_rr(r, t, READYQ) =
              [h |-> list_add_tail(s, t, READYQ), st |-> [st EXCEPT ![t] = "READY"]]
         /\ update_process_state_rr(r, t, WAITQ) =
              [h |-> list_add_tail(s, t, WAITQ), st |-> [st EXCEPT ![t] = "BLOCKED"]]
<1>1. st[t] = "RUN"
  <2>1. \A x \in al \ (Members(rq) \cup Members(wq)) : st[x] = "RUN" /\ Loose(s, x)
    BY StateOfQueued, Zenon
  <2> QED
    BY <2>1
<1>2. r.h = s /\ r.st = st
  OBVIOUS
<1>3. Unlink(r, t) = s
  BY <1>1, <1>2 DEF Unlink
<1>4. READYQ # NULL /\ WAITQ # NULL /\ READYQ # WAITQ
  BY DEF READYQ, WAITQ, NULL
<1> QED
  BY <1>2, <1>3, <1>4 DEF update_process_state_rr

\* sched_next_rr: the first ready process, or the idle task, runs.
Dispatched(rq, rq2, cur) ==
  \/ rq = <<>> /\ rq2 = rq /\ cur = idle_task
  \/ rq # <<>> /\ rq2 = Tail(rq) /\ cur = Head(rq)

LEMMA SchedNext ==
  ASSUME NEW s, NEW al, NEW st, NEW fq, NEW shape, NEW rq, NEW wq,
         Queues(s, al, st, fq, shape, rq, wq), NEW r, r = [h |-> s, st |-> st],
         sched_next_rr(r)
  PROVE  \E rq2 : /\ Fits(h', al, estado', current', fq, shape, rq2, wq)
                  /\ Dispatched(rq, rq2, current')
<1>1. r.h = s /\ r.st = st
  OBVIOUS
<1>2. /\ rq \in Queue /\ al \subseteq Tasks /\ Ring(s, READYQ, rq) /\ READYQ \in Heads
      /\ Members(rq) \subseteq al /\ Members(rq) \cap Members(wq) = {}
      /\ idle_task \in al \ Members(wq)
      /\ \A t \in Members(rq) \cup Members(wq) : st[t] # "RUN"
  <2>1. /\ rq \in Queue /\ al \subseteq Tasks /\ Ring(s, READYQ, rq)
        /\ Members(rq) \subseteq al /\ Members(rq) \cap Members(wq) = {}
        /\ idle_task \in al \ Members(wq)
        /\ \A t \in Members(rq) \cup Members(wq) : st[t] # "RUN"
    BY StateOfQueued
  <2> QED
    BY <2>1, Numbers
<1>3. CASE rq = <<>>
  <2>1. list_empty(s, READYQ)
    BY <1>2, <1>3, FirstOfRing, Zenon
  <2>2. h' = s /\ estado' = st /\ current' = idle_task
    BY <1>1, <2>1 DEF sched_next_rr
  <2>3. Members(rq) = {}
    BY <1>3 DEF Members
  <2>4. Fits(s, al, st, idle_task, fq, shape, rq, wq)
    BY <1>2, <2>3 DEF Fits
  <2> QED
    BY <1>3, <2>2, <2>4, Zenon DEF Dispatched
<1>4. CASE rq # <<>>
  <2>1. PICK t : t = rq[1]
    OBVIOUS
  <2>2. /\ ~list_empty(s, READYQ) /\ 1 \in 1 .. Len(rq) /\ list_first(s, READYQ) = t
        /\ t \in Members(rq) /\ Head(rq) = t /\ Tail(rq) = Cut(rq, 1)
    BY <1>2, <1>4, <2>1, FirstOfRing, Zenon
  <2>3. st[t] # "RUN"
    BY <1>2, <2>2
  <2>4. update_process_state_rr(r, t, NULL) = [h |-> list_del(s, t), st |-> [st EXCEPT ![t] = "RUN"]]
    BY <1>1, <2>3 DEF update_process_state_rr, Unlink
  <2>5. h' = list_del(s, t) /\ estado' = [st EXCEPT ![t] = "RUN"] /\ current' = t
    <3>1. PICK r2 : r2 = [h |-> list_del(s, t), st |-> [st EXCEPT ![t] = "RUN"]]
      OBVIOUS
    <3>2. h' = r2.h /\ estado' = r2.st /\ current' = t
      BY <1>1, <2>2, <2>4, <3>1 DEF sched_next_rr
    <3>3. r2.h = list_del(s, t) /\ r2.st = [st EXCEPT ![t] = "RUN"]
      BY <3>1
    <3> QED
      BY <3>2, <3>3
  <2>6. Queues(list_del(s, t), al, [st EXCEPT ![t] = "RUN"], fq, shape, Cut(rq, 1), wq)
    BY <2>1, <2>2, FromReady, Zenon
  <2>7. t \in al \ (Members(Cut(rq, 1)) \cup Members(wq))
    <3>1. Members(Cut(rq, 1)) = Members(rq) \ {rq[1]}
      BY <1>2, <2>2, CutQueue, Zenon
    <3> QED
      BY <1>2, <2>2, <3>1
  <2>8. Fits(list_del(s, t), al, [st EXCEPT ![t] = "RUN"], t, fq, shape, Cut(rq, 1), wq)
    BY <2>6, <2>7, Zenon DEF Fits
  <2> QED
    BY <1>4, <2>2, <2>5, <2>8, Zenon DEF Dispatched
<1> QED
  BY <1>3, <1>4

-----------------------------------------------------------------------------
(* Walks.                                                                  *)

\* The next links lead from head along q and end at e: outside the PCBs, or at
\* the last PCB once more.
Path(s, head, q, e) ==
  /\ q \in Queue
  /\ s.next[head] = IF Len(q) = 0 THEN e ELSE q[1]
  /\ \A i \in 1 .. Len(q) - 1 : s.next[q[i]] = q[i + 1]
  /\ Len(q) > 0 => s.next[q[Len(q)]] = e
  /\ e \notin Tasks \/ (Len(q) > 0 /\ e = q[Len(q)])

\* A queue has no more places than there are PCBs.
LEMMA QueueFits ==
  ASSUME NEW q \in Queue
  PROVE  Len(q) \in 0 .. NR_TASKS
<1>1. /\ Len(q) \in Nat
      /\ \A i \in 1 .. Len(q) : q[i] \in Tasks
      /\ \A i, j \in 1 .. Len(q) : q[i] = q[j] => i = j
  BY QueueType, Zenon
<1>2. PICK f : f = [i \in 1 .. Len(q) |-> q[i]]
  OBVIOUS
<1>3. f \in Injection(1 .. Len(q), Tasks)
  <2>1. f \in [1 .. Len(q) -> Tasks]
    BY <1>1, <1>2
  <2>2. \A i, j \in 1 .. Len(q) : f[i] = f[j] => i = j
    BY <1>1, <1>2
  <2> QED
    BY <2>1, <2>2, Zenon DEF Injection, IsInjective
<1>4. 0 \in Int /\ NR_TASKS - 1 \in Int /\ 1 \in Int /\ Len(q) \in Int
  BY <1>1, Numbers
<1>5. IsFiniteSet(Tasks) /\ Cardinality(Tasks) = NR_TASKS
  <2>1. /\ IsFiniteSet(0 .. NR_TASKS - 1)
        /\ Cardinality(0 .. NR_TASKS - 1) = IF 0 > NR_TASKS - 1 THEN 0 ELSE (NR_TASKS - 1) - 0 + 1
    BY <1>4, FS_Interval, Zenon
  <2> QED
    BY <2>1, Numbers DEF Tasks
<1>6. Cardinality(1 .. Len(q)) = Len(q)
  <2>1. Cardinality(1 .. Len(q)) = IF 1 > Len(q) THEN 0 ELSE Len(q) - 1 + 1
    BY <1>4, FS_Interval, Zenon
  <2> QED
    BY <1>1, <2>1
<1>7. Cardinality(1 .. Len(q)) <= Cardinality(Tasks)
  BY <1>3, <1>5, FS_Injection, Zenon
<1> QED
  BY <1>1, <1>5, <1>6, <1>7, Numbers

\* The nodes a walk meets, and where it goes on after its end.
LEMMA WalkIs ==
  ASSUME NEW s, NEW q, NEW e, NEW head \in Heads, Path(s, head, q, e)
  PROVE  WalkFrom(s.next, head) = q
<1>1. /\ q \in Queue
      /\ s.next[head] = IF Len(q) = 0 THEN e ELSE q[1]
      /\ \A i \in 1 .. Len(q) - 1 : s.next[q[i]] = q[i + 1]
      /\ Len(q) > 0 => s.next[q[Len(q)]] = e
      /\ e \notin Tasks \/ (Len(q) > 0 /\ e = q[Len(q)])
  BY DEF Path
<1>2. PICK n \in Nat : n = Len(q) /\ n <= NR_TASKS
  BY <1>1, QueueFits
<1>3. q \in Seq(Tasks) /\ \A i \in 1 .. n : q[i] \in Tasks
  BY <1>1, <1>2, QueueType
<1>4. \A i, j \in 1 .. n : q[i] = q[j] => i = j
  BY <1>1, <1>2, QueueType
<1>5. PICK N \in Nat : N = NR_TASKS + 1 /\ n + 1 \in 1 .. N
  BY <1>2, Numbers
<1>6. PICK node : node = CHOOSE f : f = [k \in 1 .. NR_TASKS + 1 |->
                    IF k = 1 THEN s.next[head]
                    ELSE LET p == f[k - 1] IN IF p \in Tasks THEN s.next[p] ELSE p]
  OBVIOUS
<1>7. PICK x : x = [k \in 1 .. N |-> IF k <= n THEN q[k] ELSE e]
  OBVIOUS
<1>8. ASSUME NEW k \in 1 .. N, k # 1
      PROVE  x[k] = IF x[k - 1] \in Tasks THEN s.next[x[k - 1]] ELSE x[k - 1]
  <2>1. k - 1 \in 1 .. N
    BY <1>8
  <2>2. CASE k <= n
    <3>1. k - 1 \in 1 .. n /\ k - 1 \in 1 .. Len(q) - 1 /\ (k - 1) + 1 = k
      BY <1>2, <1>8, <2>2
    <3>2. x[k - 1] = q[k - 1] /\ x[k] = q[k]
      BY <1>7, <2>1, <2>2, <3>1
    <3> QED
      BY <1>1, <1>3, <3>1, <3>2
  <2>3. CASE k = n + 1
    <3>1. k - 1 = n /\ n \in 1 .. n /\ Len(q) > 0
      BY <1>2, <1>8, <2>3
    <3>2. x[k - 1] = q[n] /\ x[k] = e
      BY <1>7, <2>1, <2>3, <3>1
    <3> QED
      BY <1>1, <1>2, <1>3, <3>1, <3>2
  <2>4. CASE k > n + 1
    <3>1. x[k - 1] = e /\ x[k] = e
      BY <1>7, <2>1, <2>4
    <3>2. e \in Tasks => s.next[e] = e
      BY <1>1
    <3> QED
      BY <3>1, <3>2
  <2> QED
    BY <2>2, <2>3, <2>4
<1>9. x[1] = s.next[head]
  <2>1. 1 \in 1 .. N
    BY <1>5
  <2>2. CASE n = 0
    BY <1>1, <1>2, <1>7, <2>1, <2>2
  <2>3. CASE n # 0
    BY <1>1, <1>2, <1>7, <2>1, <2>3
  <2> QED
    BY <2>2, <2>3
<1>10. x = [k \in 1 .. NR_TASKS + 1 |->
              IF k = 1 THEN s.next[head] ELSE LET p == x[k - 1] IN IF p \in Tasks THEN s.next[p] ELSE p]
  BY <1>5, <1>7, <1>8, <1>9
<1>11. node = [k \in 1 .. NR_TASKS + 1 |->
                 IF k = 1 THEN s.next[head] ELSE LET p == node[k - 1] IN IF p \in Tasks THEN s.next[p] ELSE p]
  BY <1>6, <1>10, Zenon
<1>12. \A k \in 1 .. N : node[k] = x[k]
  <2>1. PICK T : T = {k \in Nat : k + 1 \in 1 .. N => node[k + 1] = x[k + 1]}
    OBVIOUS
  <2>2. 0 \in T
    BY <1>5, <1>9, <1>11, <2>1
  <2>3. ASSUME NEW k \in Nat, k \in T PROVE k + 1 \in T
    <3> SUFFICES ASSUME (k + 1) + 1 \in 1 .. N PROVE node[(k + 1) + 1] = x[(k + 1) + 1]
      BY <2>1
    <3>1. k + 1 \in 1 .. N /\ ((k + 1) + 1) - 1 = k + 1 /\ (k + 1) + 1 # 1
      OBVIOUS
    <3>2. node[k + 1] = x[k + 1]
      BY <2>1, <2>3, <3>1
    <3> QED
      BY <1>5, <1>8, <1>11, <3>1, <3>2
  <2>4. Nat \subseteq T
    BY <2>2, <2>3, NatSetInduction
  <2> TAKE k \in 1 .. N
  <2>5. k - 1 \in Nat /\ (k - 1) + 1 = k
    OBVIOUS
  <2> QED
    BY <2>1, <2>4, <2>5
<1>13. PICK path : path = [k \in 1 .. NR_TASKS + 1 |-> node[k]]
  OBVIOUS
<1>14. path = x
  BY <1>5, <1>7, <1>12, <1>13
<1>15. PICK end : end = CHOOSE k \in DOMAIN path :
         /\ path[k] \notin Tasks \/ \E j \in 1 .. k - 1 : path[j] = path[k]
         /\ \A j \in 1 .. k - 1 : ~(path[j] \notin Tasks \/ \E i \in 1 .. j - 1 : path[i] = path[j])
  OBVIOUS
<1>16. WalkFrom(s.next, head) = SubSeq(path, 1, end - 1)
  BY <1>6, <1>13, <1>15 DEF WalkFrom
<1>17. DOMAIN path = 1 .. N /\ \A k \in 1 .. n : path[k] = q[k] /\ k \in 1 .. N
  BY <1>5, <1>7, <1>14
<1>18. \A k \in 1 .. n : ~(path[k] \notin Tasks \/ \E j \in 1 .. k - 1 : path[j] = path[k])
  <2> TAKE k \in 1 .. n
  <2>1. \A j \in 1 .. k - 1 : j \in 1 .. n /\ j # k
    OBVIOUS
  <2> QED
    BY <1>3, <1>4, <1>17, <2>1
<1>19. path[n + 1] \notin Tasks \/ \E j \in 1 .. (n + 1) - 1 : path[j] = path[n + 1]
  <2>1. path[n + 1] = e
    BY <1>5, <1>7, <1>14
  <2>2. CASE n > 0 /\ e = q[n]
    <3>1. n \in 1 .. (n + 1) - 1 /\ path[n] = e
      BY <1>17, <2>2
    <3> QED
      BY <2>1, <3>1
  <2> QED
    BY <1>1, <1>2, <2>1, <2>2
<1>20. end = n + 1
  <2>1. /\ n + 1 \in DOMAIN path
        /\ \A j \in 1 .. (n + 1) - 1 : ~(path[j] \notin Tasks \/ \E i \in 1 .. j - 1 : path[i] = path[j])
    BY <1>5, <1>17, <1>18
  <2>2. /\ end \in DOMAIN path
        /\ path[end] \notin Tasks \/ \E j \in 1 .. end - 1 : path[j] = path[end]
        /\ \A j \in 1 .. end - 1 : ~(path[j] \notin Tasks \/ \E i \in 1 .. j - 1 : path[i] = path[j])
    BY <1>15, <1>19, <2>1, Zenon
  <2>3. end \in Nat
    BY <1>17, <2>2
  <2>4. ~(end <= n)
    <3>1. end <= n => end \in 1 .. n
      BY <1>17, <2>2
    <3> QED
      BY <1>18, <2>2, <3>1, Zenon
  <2>5. ~(end > n + 1)
    <3>1. end > n + 1 => n + 1 \in 1 .. end - 1
      BY <2>3
    <3> QED
      BY <1>19, <2>2, <3>1
  <2> QED
    BY <2>3, <2>4, <2>5
<1>21. SubSeq(path, 1, n) = q
  <2>1. PICK S : S = Tasks \cup {e}
    OBVIOUS
  <2>2. path \in Seq(S) /\ Len(path) = N
    <3>1. path \in [1 .. N -> S]
      BY <1>3, <1>7, <1>14, <2>1
    <3> QED
      BY <3>1
  <2>3. 1 \in 1 .. N + 1 /\ n \in 0 .. N /\ q \in Seq(S)
    BY <1>3, <1>5, <2>1
  <2>4. PICK w : w = SubSeq(path, 1, n)
    OBVIOUS
  <2>5. w \in Seq(S) /\ Len(w) = n /\ \A i \in 1 .. n : w[i] = path[i]
    BY <2>2, <2>3, <2>4
  <2>6. w = q
    BY <1>2, <1>17, <2>3, <2>5, SeqEqual
  <2> QED
    BY <2>4, <2>6
<1>22. end - 1 = n
  BY <1>20
<1> QED
  BY <1>16, <1>21, <1>22

\* The walk along a ring, and along a free list of any shape.
LEMMA RingWalk ==
  ASSUME NEW s, NEW head \in Heads, NEW q, Ring(s, head, q)
  PROVE  WalkFrom(s.next, head) = q
<1>1. q \in Queue /\ head \notin Tasks
  BY Numbers DEF Ring
<1>2. Len(q) \in Nat
  BY <1>1, QueueType
<1>3. \A i \in 0 .. Len(q) : s.next[At(head, q, i)] = At(head, q, i + 1)
  BY DEF Ring
<1>4. /\ At(head, q, 0) = head /\ At(head, q, Len(q) + 1) = head
      /\ \A i \in 1 .. Len(q) : At(head, q, i) = q[i]
  BY <1>1, Places
<1>5. s.next[head] = IF Len(q) = 0 THEN head ELSE q[1]
  <2>1. 0 \in 0 .. Len(q) /\ (Len(q) # 0 => 1 \in 1 .. Len(q)) /\ 0 + 1 = 1
    BY <1>2
  <2>2. s.next[head] = At(head, q, 1)
    BY <1>3, <1>4, <2>1
  <2> QED
    BY <1>4, <2>1, <2>2
<1>6. \A i \in 1 .. Len(q) - 1 : s.next[q[i]] = q[i + 1]
  <2> TAKE i \in 1 .. Len(q) - 1
  <2>1. i \in 0 .. Len(q) /\ i \in 1 .. Len(q) /\ i + 1 \in 1 .. Len(q)
    BY <1>2
  <2> QED
    BY <1>3, <1>4, <2>1
<1>7. Len(q) > 0 => s.next[q[Len(q)]] = head
  <2>1. Len(q) > 0 => Len(q) \in 0 .. Len(q) /\ Len(q) \in 1 .. Len(q)
    BY <1>2
  <2> QED
    BY <1>3, <1>4, <2>1
<1>8. Path(s, head, q, head)
  BY <1>1, <1>5, <1>6, <1>7 DEF Path
<1> QED
  BY <1>8, WalkIs, Zenon

FreeWalkOf(s, al) == IF s.next[FREEQ] \in al THEN <<s.next[FREEQ]>> ELSE WalkFrom(s.next, FREEQ)

\* FreeShape's choice, of links s and PCBs in use al.
ShapeOf(s, al, shape) ==
  LET taken == s.next[FREEQ] \in al
      first == s.next[FREEQ]
      last  == s.prev[FREEQ]
  IN  \/ shape = "stuck" /\ taken /\ last = first
      \/ shape = "stranded" /\ taken /\ last # first
      \/ shape = "proper" /\ ~taken /\ s.next[last] = FREEQ
      \/ shape = "loop" /\ ~taken /\ s.next[last] # FREEQ /\ s.next[last] = last /\ s.prev[first] = FREEQ
      \/ shape = "loopfront" /\ ~taken /\ s.next[last] # FREEQ /\ s.prev[first] # FREEQ

LEMMA FreeRead ==
  ASSUME NEW s, NEW al \in SUBSET Tasks, NEW q, NEW shape, Free(s, al, q, shape)
  PROVE  FreeWalkOf(s, al) = q /\ ShapeOf(s, al, shape)
<1>1. FREEQ \in Heads /\ FREEQ \notin Tasks
  BY Numbers
<1>2. CASE shape = "proper"
  <2>1. Ring(s, FREEQ, q) /\ Members(q) \cap al = {} /\ q \in Queue
    BY <1>2 DEF Free, Ring
  <2>2. WalkFrom(s.next, FREEQ) = q
    BY <1>1, <2>1, RingWalk, Zenon
  <2>3. s.next[FREEQ] \in Members(q) \cup {FREEQ} /\ s.next[s.prev[FREEQ]] = FREEQ
    <3>1. /\ Len(q) \in Nat /\ 0 \in 0 .. Len(q) /\ Len(q) \in 0 .. Len(q)
          /\ 0 + 1 \in 0 .. Len(q) + 1
      BY <2>1, QueueType
    <3>2. /\ At(FREEQ, q, 0) = FREEQ /\ At(FREEQ, q, Len(q) + 1) = FREEQ
          /\ At(FREEQ, q, 0 + 1) \in Members(q) \cup {FREEQ}
      BY <1>1, <2>1, <3>1, Places
    <3> QED
      BY <2>1, <3>1, <3>2 DEF Ring
  <2>4. s.next[FREEQ] \notin al
    BY <1>1, <2>1, <2>3
  <2> QED
    BY <1>2, <2>2, <2>3, <2>4 DEF FreeWalkOf, ShapeOf
<1>3. CASE shape \in {"loop", "loopfront"}
  <2>1. Looped(s, q) /\ Members(q) \cap al = {} /\ s.prev[q[1]] = IF shape = "loop" THEN FREEQ ELSE q[1]
    <3>1. CASE shape = "loop"
      BY <3>1 DEF Free
    <3>2. CASE shape = "loopfront"
      BY <3>2 DEF Free
    <3> QED
      BY <1>3, <3>1, <3>2
  <2>2. /\ q \in Queue /\ Len(q) > 0 /\ s.next[FREEQ] = q[1] /\ s.prev[FREEQ] = q[Len(q)]
        /\ \A i \in 1 .. Len(q) - 1 : s.next[q[i]] = q[i + 1]
        /\ s.next[q[Len(q)]] = q[Len(q)]
    BY <2>1 DEF Looped, Chain
  <2>3. Len(q) \in Nat /\ 1 \in 1 .. Len(q) /\ Len(q) \in 1 .. Len(q)
    BY <2>2, QueueType
  <2>4. q[1] \in Tasks /\ q[1] \in Members(q) /\ q[Len(q)] \in Tasks
    BY <2>2, <2>3, QueueType
  <2>5. Path(s, FREEQ, q, q[Len(q)])
    BY <2>2, <2>3 DEF Path
  <2>6. WalkFrom(s.next, FREEQ) = q
    BY <1>1, <2>5, WalkIs, Zenon
  <2>7. s.next[FREEQ] \notin al /\ q[1] # FREEQ /\ q[Len(q)] # FREEQ
    BY <1>1, <2>1, <2>2, <2>4
  <2> QED
    BY <1>3, <2>1, <2>2, <2>6, <2>7 DEF FreeWalkOf, ShapeOf
<1>4. CASE shape = "stuck"
  BY <1>4 DEF Free, FreeWalkOf, ShapeOf
<1>5. CASE shape = "stranded"
  BY <1>5 DEF Free, FreeWalkOf, ShapeOf
<1>6. shape \in {"proper", "loop", "loopfront", "stuck", "stranded"}
  BY DEF Free
<1> QED
  BY <1>2, <1>3, <1>4, <1>5, <1>6

-----------------------------------------------------------------------------
(* The invariant, and the queues of PCBQueues read off the links.          *)

\* Links, a store having gone through a null pointer or not.
Links == [next : [Nodes -> Nodes \cup {NULL}], prev : [Nodes -> Nodes \cup {NULL}], fault : BOOLEAN]

\* The links make up queues; the store that faulted wrote nothing.
PCBInv ==
  /\ h \in Links /\ (halted # "pagefault" => ~h.fault)
  /\ \E fq, shape, rq, wq : Fits([h EXCEPT !.fault = FALSE], alive, estado, current, fq, shape, rq, wq)

LEMMA HeapIsLinks ==
  ASSUME NEW s \in Heaps
  PROVE  s \in Links /\ s.fault = FALSE /\ [s EXCEPT !.fault = FALSE] = s
<1>1. /\ s = [next |-> s.next, prev |-> s.prev, fault |-> FALSE]
      /\ s.next \in [Nodes -> Nodes \cup {NULL}] /\ s.prev \in [Nodes -> Nodes \cup {NULL}]
      /\ s.fault = FALSE
  BY DEF Heaps
<1>2. s \in Links
  BY <1>1, Zenon DEF Links
<1>3. [s EXCEPT !.fault = FALSE] = s
  BY <1>1
<1> QED
  BY <1>1, <1>2, <1>3

LEMMA NoFault ==
  ASSUME NEW s \in Links, s.fault = FALSE
  PROVE  s \in Heaps /\ [s EXCEPT !.fault = FALSE] = s
<1>1. /\ s = [next |-> s.next, prev |-> s.prev, fault |-> FALSE]
      /\ s.next \in [Nodes -> Nodes \cup {NULL}] /\ s.prev \in [Nodes -> Nodes \cup {NULL}]
  BY DEF Links
<1>2. s \in Heaps
  BY <1>1, Zenon DEF Heaps
<1> QED
  BY <1>1, <1>2

LEMMA InvBefore ==
  ASSUME PCBInv, halted = "no"
  PROVE  \E fq, shape, rq, wq : Fits(h, alive, estado, current, fq, shape, rq, wq)
<1>1. h \in Links /\ h.fault = FALSE
  BY DEF PCBInv, Links
<1>2. [h EXCEPT !.fault = FALSE] = h
  BY <1>1, NoFault, Zenon
<1> QED
  BY <1>2 DEF PCBInv

LEMMA InvAfter ==
  ASSUME NEW fq, NEW shape, NEW rq, NEW wq, Fits(h', alive', estado', current', fq, shape, rq, wq)
  PROVE  PCBInv'
<1>1. PICK g : g = h'
  OBVIOUS
<1>2. g \in Heaps
  BY <1>1, StateOfQueued DEF Fits
<1>3. g \in Links /\ g.fault = FALSE /\ [g EXCEPT !.fault = FALSE] = g
  BY <1>2, HeapIsLinks, Zenon
<1> QED
  BY <1>1, <1>3 DEF PCBInv

LEMMA ShapeChoice ==
  ASSUME NEW s, NEW al, NEW shape, ShapeOf(s, al, shape)
  PROVE  shape = CASE s.next[FREEQ] \in al /\ s.prev[FREEQ] = s.next[FREEQ] -> "stuck"
                   [] s.next[FREEQ] \in al /\ s.prev[FREEQ] # s.next[FREEQ] -> "stranded"
                   [] ~(s.next[FREEQ] \in al) /\ s.next[s.prev[FREEQ]] = FREEQ -> "proper"
                   [] ~(s.next[FREEQ] \in al) /\ s.prev[FREEQ] # FREEQ /\ s.next[s.prev[FREEQ]] = s.prev[FREEQ]
                        /\ s.prev[s.next[FREEQ]] = FREEQ -> "loop"
                   [] OTHER -> "loopfront"
<1>1. PICK first : first = s.next[FREEQ]
  OBVIOUS
<1>2. PICK last : last = s.prev[FREEQ]
  OBVIOUS
<1>3. CASE first \in al
  <2>1. \/ shape = "stuck" /\ last = first
        \/ shape = "stranded" /\ last # first
    BY <1>1, <1>2, <1>3, Zenon DEF ShapeOf
  <2> QED
    BY <1>1, <1>2, <1>3, <2>1
<1>4. CASE first \notin al
  <2>1. CASE shape = "proper" /\ s.next[last] = FREEQ
    BY <1>1, <1>2, <1>4, <2>1
  <2>2. CASE shape = "loop" /\ s.next[last] # FREEQ /\ s.next[last] = last /\ s.prev[first] = FREEQ
    BY <1>1, <1>2, <1>4, <2>2
  <2>3. CASE shape = "loopfront" /\ s.next[last] # FREEQ /\ s.prev[first] # FREEQ
    BY <1>1, <1>2, <1>4, <2>3
  <2> QED
    BY <1>1, <1>2, <1>4, <2>1, <2>2, <2>3, Zenon DEF ShapeOf
<1> QED
  BY <1>3, <1>4

LEMMA Reads ==
  ASSUME NEW s, s.next = h.next, s.prev = h.prev,
         NEW st, NEW fq, NEW shape, NEW rq, NEW wq, Queues(s, alive, st, fq, shape, rq, wq)
  PROVE  FreeWalk = fq /\ FreeShape = shape /\ Walk(READYQ) = rq /\ Walk(WAITQ) = wq
<1>1. /\ alive \in SUBSET Tasks /\ Ring(s, READYQ, rq) /\ Ring(s, WAITQ, wq) /\ Free(s, alive, fq, shape)
      /\ READYQ \in Heads /\ WAITQ \in Heads
  <2>1. alive \in SUBSET Tasks /\ Ring(s, READYQ, rq) /\ Ring(s, WAITQ, wq) /\ Free(s, alive, fq, shape)
    BY DEF Queues, Live, Pair
  <2> QED
    BY <2>1, Numbers
<1>2. WalkFrom(s.next, READYQ) = rq /\ WalkFrom(s.next, WAITQ) = wq
  BY <1>1, RingWalk, Zenon
<1>3. FreeWalkOf(s, alive) = fq /\ ShapeOf(s, alive, shape)
  BY <1>1, FreeRead, Zenon
<1>4. FreeShape = shape
  BY <1>3, ShapeChoice DEF FreeShape, FirstIsTaken
<1>5. FreeWalk = fq
  BY <1>3 DEF FreeWalkOf, FreeWalk, FirstIsTaken, Walk
<1> QED
  BY <1>2, <1>4, <1>5 DEF Walk

LEMMA ReadsAfter ==
  ASSUME NEW s, s.next = h'.next, s.prev = h'.prev,
         NEW st, NEW fq, NEW shape, NEW rq, NEW wq, Queues(s, alive', st, fq, shape, rq, wq)
  PROVE  FreeWalk' = fq /\ FreeShape' = shape /\ Walk(READYQ)' = rq /\ Walk(WAITQ)' = wq
<1>1. PICK al : al = alive'
  OBVIOUS
<1>2. /\ al \in SUBSET Tasks /\ Ring(s, READYQ, rq) /\ Ring(s, WAITQ, wq) /\ Free(s, al, fq, shape)
      /\ READYQ \in Heads /\ WAITQ \in Heads
  <2>1. al \in SUBSET Tasks /\ Ring(s, READYQ, rq) /\ Ring(s, WAITQ, wq) /\ Free(s, al, fq, shape)
    BY <1>1 DEF Queues, Live, Pair
  <2> QED
    BY <2>1, Numbers
<1>3. WalkFrom(s.next, READYQ) = rq /\ WalkFrom(s.next, WAITQ) = wq
  BY <1>2, RingWalk, Zenon
<1>4. FreeWalkOf(s, al) = fq /\ ShapeOf(s, al, shape)
  BY <1>2, FreeRead, Zenon
<1>5. FreeShape' = shape
  BY <1>1, <1>4, ShapeChoice DEF FreeShape, FirstIsTaken
<1>6. FreeWalk' = fq
  BY <1>1, <1>4 DEF FreeWalkOf, FreeWalk, FirstIsTaken, Walk
<1> QED
  BY <1>3, <1>5, <1>6 DEF Walk

-----------------------------------------------------------------------------
(* The handlers that leave the free list alone.                            *)

\* A handler that ends in sched_next_rr.
LEMMA SchedStep ==
  ASSUME NEW g, NEW al, al = alive', NEW st, NEW fq, NEW shape, NEW rq, NEW wq,
         Queues(g, al, st, fq, shape, rq, wq),
         NEW r, r = [h |-> g, st |-> st], sched_next_rr(r)
  PROVE  \E rq2 : /\ PCBInv'
                  /\ Dispatched(rq, rq2, current')
                  /\ FreeWalk' = fq /\ FreeShape' = shape /\ Walk(READYQ)' = rq2 /\ Walk(WAITQ)' = wq
<1>1. PICK rq2 : Fits(h', al, estado', current', fq, shape, rq2, wq) /\ Dispatched(rq, rq2, current')
  BY SchedNext, Zenon
<1>2. PCBInv'
  <2>1. Fits(h', alive', estado', current', fq, shape, rq2, wq)
    BY <1>1
  <2> QED
    BY <2>1, InvAfter, Zenon
<1>3. FreeWalk' = fq /\ FreeShape' = shape /\ Walk(READYQ)' = rq2 /\ Walk(WAITQ)' = wq
  <2>1. PICK s : s = h'
    OBVIOUS
  <2>2. PICK st2 : st2 = estado'
    OBVIOUS
  <2>3. Queues(s, alive', st2, fq, shape, rq2, wq)
    BY <1>1, <2>1, <2>2 DEF Fits
  <2>4. s.next = h'.next /\ s.prev = h'.prev
    BY <2>1
  <2> QED
    BY <2>3, <2>4, ReadsAfter, Zenon
<1> QED
  BY <1>1, <1>2, <1>3

LEMMA PreemptStep ==
  ASSUME NEW fq, NEW shape, NEW rq, NEW wq, Fits(h, alive, estado, current, fq, shape, rq, wq), Preempt
  PROVE  PCBInv' /\ PCBQueues!Preempt
<1>1. Queues(h, alive, estado, fq, shape, rq, wq) /\ current \in alive \ (Members(rq) \cup Members(wq))
  BY DEF Fits
<1>2. PICK s : s = h
  OBVIOUS
<1>3. PICK al : al = alive
  OBVIOUS
<1>4. PICK t : t = current
  OBVIOUS
<1>5. PICK st : st = estado
  OBVIOUS
<1>6. Queues(s, al, st, fq, shape, rq, wq) /\ t \in al \ (Members(rq) \cup Members(wq))
  BY <1>1, <1>2, <1>3, <1>4, <1>5
<1>7. PICK g : g = list_add_tail(s, t, READYQ)
  OBVIOUS
<1>8. PICK st2 : st2 = [st EXCEPT ![t] = "READY"]
  OBVIOUS
<1>9. Queues(g, al, st2, fq, shape, Append(rq, t), wq)
  BY <1>6, <1>7, <1>8, ToReady, Zenon
<1>10. PICK r : r = [h |-> g, st |-> st2]
  OBVIOUS
<1>11. update_process_state_rr(Now, current, READYQ) = r
  <2>1. Now = [h |-> s, st |-> st]
    BY <1>2, <1>5 DEF Now
  <2> QED
    BY <1>4, <1>6, <1>7, <1>8, <1>10, <2>1, UpdateRunning
<1>12. sched_next_rr(r)
  BY <1>11 DEF Preempt, sched_next_rr
<1>13. al = alive'
  BY <1>3 DEF Preempt
<1>14. PICK q : q = Append(rq, t)
  OBVIOUS
<1>15. PICK rq2 : /\ PCBInv'
                  /\ Dispatched(q, rq2, current')
                  /\ FreeWalk' = fq /\ FreeShape' = shape /\ Walk(READYQ)' = rq2 /\ Walk(WAITQ)' = wq
  BY <1>9, <1>10, <1>12, <1>13, <1>14, SchedStep, Zenon
<1>16. FreeWalk = fq /\ FreeShape = shape /\ Walk(READYQ) = rq /\ Walk(WAITQ) = wq
  BY <1>1, Reads
<1>17. rq # <<>> /\ halted = "no" /\ halted' = halted
  <2>1. Ring(h, READYQ, rq) /\ READYQ \in Heads
    BY <1>1, Numbers DEF Queues, Live, Pair
  <2> QED
    BY <2>1, FirstOfRing DEF Preempt
<1>18. PCBQueues!Dispatch(Append(Walk(READYQ), current))
  BY <1>4, <1>14, <1>15, <1>16 DEF Dispatched, PCBQueues!Dispatch, PCBQueues!idle_task, idle_task
<1> QED
  BY <1>15, <1>16, <1>17, <1>18 DEF PCBQueues!Preempt, PCBQueues!Running

\* Both ways into the wait queue: at its end, or at the head of the empty one.
LEMMA BlockStep ==
  ASSUME NEW fq, NEW shape, NEW rq, NEW wq, Fits(h, alive, estado, current, fq, shape, rq, wq),
         InUserProcess, UNCHANGED <<alive, halted>>,
         NEW r, r = [h |-> list_add_tail(h, current, WAITQ), st |-> [estado EXCEPT ![current] = "BLOCKED"]],
         sched_next_rr(r)
  PROVE  PCBInv' /\ PCBQueues!Block
<1>1. Queues(h, alive, estado, fq, shape, rq, wq) /\ current \in alive \ (Members(rq) \cup Members(wq))
  BY DEF Fits
<1>2. PICK s : s = h
  OBVIOUS
<1>3. PICK al : al = alive
  OBVIOUS
<1>4. PICK t : t = current
  OBVIOUS
<1>5. PICK st : st = estado
  OBVIOUS
<1>6. Queues(s, al, st, fq, shape, rq, wq) /\ t \in al \ (Members(rq) \cup Members(wq)) /\ t # idle_task
  BY <1>1, <1>2, <1>3, <1>4, <1>5 DEF InUserProcess
<1>7. PICK g : g = list_add_tail(s, t, WAITQ)
  OBVIOUS
<1>8. PICK st2 : st2 = [st EXCEPT ![t] = "BLOCKED"]
  OBVIOUS
<1>9. PICK w : w = Append(wq, t)
  OBVIOUS
<1>10. Queues(g, al, st2, fq, shape, rq, w)
  BY <1>6, <1>7, <1>8, <1>9, ToWait, Zenon
<1>11. r = [h |-> g, st |-> st2] /\ al = alive'
  BY <1>2, <1>3, <1>4, <1>5, <1>7, <1>8
<1>12. PICK rq2 : /\ PCBInv'
                  /\ Dispatched(rq, rq2, current')
                  /\ FreeWalk' = fq /\ FreeShape' = shape /\ Walk(READYQ)' = rq2 /\ Walk(WAITQ)' = w
  BY <1>10, <1>11, SchedStep, Zenon
<1>13. FreeWalk = fq /\ FreeShape = shape /\ Walk(READYQ) = rq /\ Walk(WAITQ) = wq
  BY <1>1, Reads
<1>14. PCBQueues!Dispatch(Walk(READYQ))
  BY <1>12, <1>13 DEF Dispatched, PCBQueues!Dispatch, PCBQueues!idle_task, idle_task
<1>15. PCBQueues!InUserProcess
  BY DEF InUserProcess, PCBQueues!InUserProcess, PCBQueues!Running, PCBQueues!idle_task, idle_task
<1> QED
  BY <1>4, <1>9, <1>12, <1>13, <1>14, <1>15 DEF PCBQueues!Block

LEMMA BlockTailStep ==
  ASSUME NEW fq, NEW shape, NEW rq, NEW wq, Fits(h, alive, estado, current, fq, shape, rq, wq), BlockTail
  PROVE  PCBInv' /\ PCBQueues!Block
<1>1. PICK r : r = [h |-> list_add_tail(h, current, WAITQ), st |-> [estado EXCEPT ![current] = "BLOCKED"]]
  OBVIOUS
<1>2. update_process_state_rr(Now, current, WAITQ) = r
  BY <1>1, UpdateRunning DEF Fits, Now
<1>3. sched_next_rr(r)
  BY <1>2 DEF BlockTail, sched_next_rr
<1>4. InUserProcess /\ UNCHANGED <<alive, halted>>
  BY DEF BlockTail
<1> QED
  BY <1>1, <1>3, <1>4, BlockStep, Zenon

LEMMA BlockFirstStep ==
  ASSUME NEW fq, NEW shape, NEW rq, NEW wq, Fits(h, alive, estado, current, fq, shape, rq, wq), BlockFirst
  PROVE  PCBInv' /\ PCBQueues!Block
<1>1. PICK r : r = [h |-> list_add_tail(h, current, WAITQ), st |-> [estado EXCEPT ![current] = "BLOCKED"]]
  OBVIOUS
<1>2. h.next[WAITQ] = WAITQ /\ h.prev[WAITQ] = WAITQ
  <2>1. Ring(h, WAITQ, wq) /\ WAITQ \in Heads /\ list_empty(h, WAITQ)
    BY Numbers DEF Fits, Queues, Live, Pair, BlockFirst
  <2>2. wq = <<>>
    BY <2>1, FirstOfRing, Zenon
  <2>3. At(WAITQ, wq, 0) = WAITQ /\ At(WAITQ, wq, 0 + 1) = WAITQ /\ 0 \in 0 .. Len(wq)
    BY <2>2 DEF At
  <2> QED
    BY <2>1, <2>3 DEF Ring
<1>3. list_add(h, current, WAITQ) = list_add_tail(h, current, WAITQ)
  BY <1>2, Zenon DEF list_add, list_add_tail
<1>4. sched_next_rr(r)
  BY <1>1, <1>3 DEF BlockFirst, sched_next_rr
<1>5. InUserProcess /\ UNCHANGED <<alive, halted>>
  BY DEF BlockFirst
<1> QED
  BY <1>1, <1>4, <1>5, BlockStep, Zenon

LEMMA PairFields ==
  ASSUME NEW u, NEW g, NEW st, u = [h |-> g, st |-> st]
  PROVE  u.h = g /\ u.st = st
OBVIOUS

\* The first PCB of the wait queue goes to the end of the ready queue.
LEMMA Woken ==
  ASSUME NEW s, NEW al, NEW st, NEW fq, NEW shape, NEW rq, NEW wq,
         Queues(s, al, st, fq, shape, rq, wq), wq # <<>>, NEW r, r = [h |-> s, st |-> st],
         NEW u, u = update_process_state_rr(r, wq[1], READYQ)
  PROVE  /\ Queues(u.h, al, u.st, fq, shape, Append(rq, wq[1]), Cut(wq, 1))
         /\ wq[1] \in Members(wq) /\ wq[1] \notin Members(rq)
<1>1. /\ rq \in Queue /\ wq \in Queue /\ al \subseteq Tasks /\ Ring(s, WAITQ, wq) /\ WAITQ \in Heads
      /\ Members(wq) \subseteq al /\ Members(rq) \cap Members(wq) = {}
      /\ \A x \in Members(rq) \cup Members(wq) : st[x] # "RUN"
      /\ st \in [Tasks -> States]
  <2>1. /\ rq \in Queue /\ wq \in Queue /\ al \subseteq Tasks /\ Ring(s, WAITQ, wq)
        /\ Members(wq) \subseteq al /\ Members(rq) \cap Members(wq) = {}
        /\ \A x \in Members(rq) \cup Members(wq) : st[x] # "RUN"
        /\ st \in [Tasks -> States]
    BY StateOfQueued
  <2> QED
    BY <2>1, Numbers
<1>2. PICK t : t = wq[1]
  OBVIOUS
<1>3. 1 \in 1 .. Len(wq) /\ t \in Members(wq)
  BY <1>1, <1>2, FirstOfRing, Zenon
<1>4. st[t] # "RUN" /\ t \in al /\ t \notin Members(rq) /\ t \in Tasks
  BY <1>1, <1>3
<1>5. PICK g : g = list_del(s, t)
  OBVIOUS
<1>6. PICK st2 : st2 = [st EXCEPT ![t] = "RUN"]
  OBVIOUS
<1>7. PICK w : w = Cut(wq, 1)
  OBVIOUS
<1>8. Queues(g, al, st2, fq, shape, rq, w)
  BY <1>2, <1>3, <1>5, <1>6, <1>7, FromWait, Zenon
<1>9. Members(w) = Members(wq) \ {t}
  BY <1>1, <1>2, <1>3, <1>7, CutQueue, Zenon
<1>10. t \in al \ (Members(rq) \cup Members(w))
  BY <1>4, <1>9
<1>11. Queues(list_add_tail(g, t, READYQ), al, [st2 EXCEPT ![t] = "READY"], fq, shape, Append(rq, t), w)
  BY <1>8, <1>10, ToReady, Zenon
<1>12. [st2 EXCEPT ![t] = "READY"] = [st EXCEPT ![t] = "READY"]
  BY <1>1, <1>4, <1>6
<1>13. PICK g2, st3 : /\ g2 = list_add_tail(g, t, READYQ) /\ st3 = [st EXCEPT ![t] = "READY"]
                      /\ u = [h |-> g2, st |-> st3]
  <2>1. READYQ # NULL
    BY DEF READYQ, NULL
  <2>2. r.h = s /\ r.st = st
    OBVIOUS
  <2>3. Unlink(r, t) = g
    BY <1>4, <1>5, <2>2 DEF Unlink
  <2> QED
    BY <1>2, <2>1, <2>2, <2>3 DEF update_process_state_rr
<1>14. u.h = g2 /\ u.st = st3
  BY <1>13, PairFields, Zenon
<1>15. Queues(u.h, al, u.st, fq, shape, Append(rq, wq[1]), Cut(wq, 1))
  BY <1>2, <1>7, <1>11, <1>12, <1>13, <1>14, Zenon
<1> QED
  BY <1>2, <1>3, <1>4, <1>15

LEMMA WakeStep ==
  ASSUME NEW fq, NEW shape, NEW rq, NEW wq, Fits(h, alive, estado, current, fq, shape, rq, wq), Wake
  PROVE  PCBInv' /\ PCBQueues!Wake
<1>1. Queues(h, alive, estado, fq, shape, rq, wq) /\ current \in alive \ (Members(rq) \cup Members(wq))
  BY DEF Fits
<1>2. PICK t : t = list_first(h, WAITQ)
  OBVIOUS
<1>3. Ring(h, WAITQ, wq) /\ WAITQ \in Heads /\ ~list_empty(h, WAITQ)
  BY <1>1, Numbers DEF Queues, Live, Pair, Wake
<1>4. wq # <<>> /\ t = wq[1] /\ Head(wq) = wq[1] /\ Tail(wq) = Cut(wq, 1) /\ 1 \in 1 .. Len(wq)
  BY <1>2, <1>3, FirstOfRing, Zenon
<1>5. PICK u : u = update_process_state_rr(Now, t, READYQ)
  OBVIOUS
<1>6. PICK r : r = Now /\ r = [h |-> h, st |-> estado]
  BY DEF Now
<1>7. u = update_process_state_rr(r, wq[1], READYQ)
  BY <1>4, <1>5, <1>6
<1>8. PICK rq2 : rq2 = Append(rq, wq[1])
  OBVIOUS
<1>9. PICK wq2 : wq2 = Cut(wq, 1)
  OBVIOUS
<1>10. /\ Queues(u.h, alive, u.st, fq, shape, rq2, wq2)
       /\ wq[1] \in Members(wq) /\ wq[1] \notin Members(rq)
  <2>1. Queues(h, alive, estado, fq, shape, rq, wq) /\ wq # <<>> /\ r = [h |-> h, st |-> estado]
    BY <1>1, <1>4, <1>6
  <2>2. /\ Queues(u.h, alive, u.st, fq, shape, Append(rq, wq[1]), Cut(wq, 1))
        /\ wq[1] \in Members(wq) /\ wq[1] \notin Members(rq)
    BY <1>7, <2>1, Woken
  <2> QED
    BY <1>8, <1>9, <2>2, Zenon
<1>11. h' = u.h /\ estado' = u.st /\ alive' = alive /\ current' = current /\ halted' = halted /\ halted = "no"
  BY <1>2, <1>5 DEF Wake
<1>12. current \in alive \ (Members(rq2) \cup Members(wq2))
  <2>1. rq \in Queue /\ wq \in Queue /\ alive \subseteq Tasks /\ Members(wq) \subseteq alive
    BY <1>1, StateOfQueued
  <2>2. Members(wq2) = Members(wq) \ {wq[1]}
    BY <1>4, <1>9, <2>1, CutQueue, Zenon
  <2>3. Members(rq2) = Members(rq) \cup {wq[1]}
    <3>1. wq[1] \in Tasks
      BY <1>10, <2>1
    <3> QED
      BY <1>8, <1>10, <2>1, <3>1, EndOfQueue, Zenon
  <2> QED
    BY <1>1, <1>10, <2>2, <2>3
<1>13. Fits(h', alive', estado', current', fq, shape, rq2, wq2)
  BY <1>10, <1>11, <1>12 DEF Fits
<1>14. PCBInv'
  BY <1>13, InvAfter, Zenon
<1>15. FreeWalk' = fq /\ FreeShape' = shape /\ Walk(READYQ)' = rq2 /\ Walk(WAITQ)' = wq2
  <2>1. PICK s : s = u.h
    OBVIOUS
  <2>2. PICK st : st = u.st
    OBVIOUS
  <2>3. Queues(s, alive', st, fq, shape, rq2, wq2)
    BY <1>10, <1>11, <2>1, <2>2
  <2>4. s.next = h'.next /\ s.prev = h'.prev
    BY <1>11, <2>1
  <2> QED
    BY <2>3, <2>4, ReadsAfter, Zenon
<1>16. FreeWalk = fq /\ FreeShape = shape /\ Walk(READYQ) = rq /\ Walk(WAITQ) = wq
  BY <1>1, Reads
<1> QED
  BY <1>4, <1>8, <1>9, <1>11, <1>14, <1>15, <1>16 DEF PCBQueues!Wake, PCBQueues!Running

-----------------------------------------------------------------------------
(* The handlers that take from the free list and add to it.                *)

\* The first free PCB, as list_first finds it.
LEMMA FirstFreeIs ==
  ASSUME NEW s, NEW al, al \subseteq Tasks, NEW fq, NEW shape, Free(s, al, fq, shape),
         ~list_empty(s, FREEQ)
  PROVE  /\ fq # <<>> /\ Len(fq) > 0 /\ list_first(s, FREEQ) = fq[1] /\ Head(fq) = fq[1] /\ fq[1] \in Tasks
         /\ fq[1] \in al <=> shape \in {"stuck", "stranded"}
         /\ shape \notin {"stuck", "stranded"} => fq \in Queue /\ fq[1] \in Members(fq)
<1>1. CASE shape = "proper"
  <2>1. Ring(s, FREEQ, fq) /\ Members(fq) \cap al = {} /\ fq \in Queue /\ FREEQ \in Heads
    BY <1>1, Numbers DEF Free, Ring
  <2>2. /\ fq # <<>> /\ 1 \in 1 .. Len(fq) /\ list_first(s, FREEQ) = fq[1] /\ fq[1] \in Members(fq)
        /\ fq[1] \in Tasks /\ Head(fq) = fq[1]
    BY <2>1, FirstOfRing
  <2>3. Len(fq) > 0
    BY <2>1, <2>2, QueueType
  <2> QED
    BY <1>1, <2>1, <2>2, <2>3
<1>2. CASE shape \in {"loop", "loopfront"}
  <2>1. Looped(s, fq) /\ Members(fq) \cap al = {}
    BY <1>2 DEF Free
  <2>2. fq \in Queue /\ Len(fq) > 0 /\ s.next[FREEQ] = fq[1]
    BY <2>1 DEF Looped, Chain
  <2>3. fq \in Seq(Tasks) /\ 1 \in 1 .. Len(fq) /\ fq[1] \in Tasks /\ fq[1] \in Members(fq)
    <3>1. fq \in Seq(Tasks) /\ 1 \in 1 .. Len(fq)
      BY <2>2, QueueType
    <3> QED
      BY <2>2, <3>1, QueueType
  <2>4. Head(fq) = fq[1] /\ fq # <<>>
    BY <2>2, <2>3
  <2> QED
    BY <1>2, <2>1, <2>2, <2>3, <2>4 DEF list_first
<1>3. CASE shape \in {"stuck", "stranded"}
  <2>1. PICK t \in al : fq = <<t>> /\ s.next[FREEQ] = t
    <3>1. CASE shape = "stuck"
      BY <3>1 DEF Free
    <3>2. CASE shape = "stranded"
      BY <3>2 DEF Free
    <3> QED
      BY <1>3, <3>1, <3>2
  <2> QED
    BY <1>3, <2>1 DEF list_first
<1> QED
  BY <1>1, <1>2, <1>3 DEF Free

\* A PCB without links comes into use, and goes out of it.
LEMMA Grow ==
  ASSUME NEW s, NEW g \in Heaps, NEW al, NEW st, NEW rq, NEW wq, Live(s, al, st, rq, wq),
         NEW t \in Tasks \ al, Same(g, s, LiveNodes(al)), Loose(g, t)
  PROVE  Live(g, al \cup {t}, [st EXCEPT ![t] = "RUN"], rq, wq)
<1>1. Pair(g, al, st, READYQ, rq, WAITQ, wq) /\ idle_task \in al \ Members(wq)
  BY PairKept DEF Live
<1>2. PICK st2 : st2 = [st EXCEPT ![t] = "RUN"]
  OBVIOUS
<1>3. st \in [Tasks -> States] /\ al \subseteq Tasks
  BY <1>1 DEF Pair
<1>4. /\ st2 \in [Tasks -> States] /\ st2[t] = "RUN"
      /\ \A x \in Tasks : x # t => st2[x] = st[x]
  BY <1>2, <1>3 DEF States
<1>5. Pair(g, al \cup {t}, st2, READYQ, rq, WAITQ, wq)
  BY <1>1, <1>3, <1>4 DEF Pair
<1> QED
  BY <1>1, <1>2, <1>5 DEF Live

LEMMA Shrink ==
  ASSUME NEW s, NEW g \in Heaps, NEW al, NEW st, NEW rq, NEW wq, Live(s, al, st, rq, wq),
         NEW t \in al \ (Members(rq) \cup Members(wq)), t # idle_task,
         Same(g, s, (al \ {t}) \cup {READYQ, WAITQ})
  PROVE  Live(g, al \ {t}, [st EXCEPT ![t] = "BLOCKED"], rq, wq)
<1>1. Pair(s, al, st, READYQ, rq, WAITQ, wq) /\ idle_task \in al \ Members(wq)
  BY DEF Live
<1>2. Pair(s, al \ {t}, st, READYQ, rq, WAITQ, wq)
  BY <1>1 DEF Pair
<1>3. Pair(g, al \ {t}, st, READYQ, rq, WAITQ, wq)
  <2>1. Same(g, s, LiveNodes(al \ {t})) /\ READYQ \in {READYQ, WAITQ} /\ WAITQ \in {READYQ, WAITQ}
    BY DEF LiveNodes
  <2> QED
    BY <1>2, <2>1, PairKept, Zenon
<1>4. PICK st2 : st2 = [st EXCEPT ![t] = "BLOCKED"]
  OBVIOUS
<1>5. st \in [Tasks -> States] /\ al \subseteq Tasks /\ Members(rq) \subseteq al /\ Members(wq) \subseteq al
  BY <1>1 DEF Pair
<1>6. /\ st2 \in [Tasks -> States]
      /\ \A x \in Tasks : x # t => st2[x] = st[x]
  BY <1>4, <1>5 DEF States
<1>7. Pair(g, al \ {t}, st2, READYQ, rq, WAITQ, wq)
  BY <1>3, <1>5, <1>6 DEF Pair
<1> QED
  BY <1>1, <1>4, <1>7 DEF Live

\* The free list is at a PCB the live processes use: the two insertions of
\* sys_exit would write its links.
LEMMA CorruptWhen ==
  ASSUME NEW s, NEW al, al \subseteq Tasks, NEW fq, NEW shape, Free(s, al, fq, shape), NEW t \in al
  PROVE  (s.prev[FREEQ] \in al \ {t} /\ s.next[FREEQ] = s.prev[FREEQ]) <=> (shape = "stuck" /\ t # fq[1])
<1>1. CASE shape = "proper"
  <2>1. Ring(s, FREEQ, fq) /\ Members(fq) \cap al = {} /\ fq \in Queue /\ FREEQ \in Heads /\ FREEQ \notin Tasks
    BY <1>1, Numbers DEF Free, Ring
  <2>2. Len(fq) \in 0 .. Len(fq) /\ Len(fq) \in 0 .. Len(fq) + 1
    BY <2>1, QueueType
  <2>3. s.prev[FREEQ] \in Members(fq) \cup {FREEQ}
    <3>1. At(FREEQ, fq, Len(fq)) \in Members(fq) \cup {FREEQ} /\ At(FREEQ, fq, Len(fq) + 1) = FREEQ
      BY <2>1, <2>2, Places
    <3> QED
      BY <2>1, <2>2, <3>1 DEF Ring
  <2> QED
    BY <1>1, <2>1, <2>3
<1>2. CASE shape \in {"loop", "loopfront"}
  <2>1. Looped(s, fq) /\ Members(fq) \cap al = {}
    BY <1>2 DEF Free
  <2>2. fq \in Queue /\ Len(fq) > 0 /\ s.prev[FREEQ] = fq[Len(fq)]
    BY <2>1 DEF Looped, Chain
  <2>3. fq[Len(fq)] \in Members(fq)
    <3>1. Len(fq) \in 1 .. Len(fq)
      BY <2>2, QueueType
    <3> QED
      BY <2>2, <3>1, QueueType
  <2> QED
    BY <1>2, <2>1, <2>2, <2>3
<1>3. CASE shape = "stuck"
  BY <1>3 DEF Free
<1>4. CASE shape = "stranded"
  BY <1>4 DEF Free
<1> QED
  BY <1>1, <1>2, <1>3, <1>4 DEF Free

\* sys_exit's two insertions.
LEMMA Died ==
  ASSUME NEW s, NEW al, NEW st, NEW fq, NEW shape, NEW rq, NEW wq,
         Queues(s, al, st, fq, shape, rq, wq), NEW t \in al \ (Members(rq) \cup Members(wq)),
         t # idle_task, ~(shape = "stuck" /\ t # fq[1])
  PROVE  \E fq2, shape2 :
           /\ Queues(AddTailTwice(s, t), al \ {t}, [st EXCEPT ![t] = "BLOCKED"], fq2, shape2, rq, wq)
           /\ AddedTwice(fq, shape, t, fq2, shape2)
<1>1. s \in Heaps /\ al \in SUBSET Tasks /\ Free(s, al, fq, shape) /\ Live(s, al, st, rq, wq) /\ t \in al
  BY DEF Queues, Live, Pair
<1>2. PICK g : g = AddTailTwice(s, t)
  OBVIOUS
<1>3. FreeAdded(g, s, al, fq, shape, t)
  BY <1>1, <1>2, FreeAdd, Zenon
<1>4. PICK fq2, shape2 : Free(g, al \ {t}, fq2, shape2) /\ AddedTwice(fq, shape, t, fq2, shape2)
  BY <1>3 DEF FreeAdded
<1>5. g \in Heaps /\ Same(g, s, (al \ {t}) \cup {READYQ, WAITQ})
  BY <1>3 DEF FreeAdded
<1>6. Live(g, al \ {t}, [st EXCEPT ![t] = "BLOCKED"], rq, wq)
  BY <1>1, <1>5, Shrink, Zenon
<1> QED
  BY <1>2, <1>4, <1>6, Zenon DEF Queues

LEMMA DieStep ==
  ASSUME NEW fq, NEW shape, NEW rq, NEW wq, Fits(h, alive, estado, current, fq, shape, rq, wq), Die
  PROVE  PCBInv' /\ PCBQueues!Die
<1>1. Queues(h, alive, estado, fq, shape, rq, wq) /\ current \in alive \ (Members(rq) \cup Members(wq))
  BY DEF Fits
<1>2. alive \subseteq Tasks /\ Free(h, alive, fq, shape)
  BY <1>1 DEF Queues, Live, Pair
<1>3. FreeWalk = fq /\ FreeShape = shape /\ Walk(READYQ) = rq /\ Walk(WAITQ) = wq
  BY <1>1, Reads
<1>4. PCBQueues!InUserProcess /\ InUserProcess
  BY DEF Die, InUserProcess, PCBQueues!InUserProcess, PCBQueues!Running, PCBQueues!idle_task, idle_task
<1>5. (h.prev[FREEQ] \in alive \ {current} /\ h.next[FREEQ] = h.prev[FREEQ]) <=> (shape = "stuck" /\ current # fq[1])
  BY <1>1, <1>2, CorruptWhen
<1>6. shape \in {"stuck", "stranded"} => Len(fq) > 0 /\ Head(fq) = fq[1]
  <2> SUFFICES ASSUME shape \in {"stuck", "stranded"} PROVE Len(fq) > 0 /\ Head(fq) = fq[1]
    OBVIOUS
  <2>1. PICK t : fq = <<t>>
    BY <1>2 DEF Free
  <2> QED
    BY <2>1
<1>7. CASE shape = "stuck" /\ current # fq[1]
  <2>1. halted' = "corrupt" /\ UNCHANGED <<h, estado, alive, current>>
    BY <1>5, <1>7 DEF Die
  <2>2. Fits(h', alive', estado', current', fq, shape, rq, wq)
    BY <2>1
  <2>3. PCBInv'
    BY <2>2, InvAfter, Zenon
  <2>4. UNCHANGED <<FreeWalk, FreeShape, Walk(READYQ), Walk(WAITQ)>>
    BY <2>1 DEF FreeWalk, FreeShape, FirstIsTaken, Walk
  <2>5. PCBQueues!WouldCorrupt(current)
    BY <1>3, <1>6, <1>7 DEF PCBQueues!WouldCorrupt, PCBQueues!FirstFree
  <2> QED
    BY <1>4, <2>1, <2>3, <2>4, <2>5 DEF PCBQueues!Die
<1>8. CASE ~(shape = "stuck" /\ current # fq[1])
  <2>1. /\ sched_next_rr(update_process_state_rr([Now EXCEPT !.h = list_add_tail(h, current, FREEQ)], current, FREEQ))
        /\ alive' = alive \ {current} /\ UNCHANGED halted
    BY <1>5, <1>8 DEF Die
  <2>2. PICK s : s = h
    OBVIOUS
  <2>3. PICK al : al = alive
    OBVIOUS
  <2>4. PICK t : t = current
    OBVIOUS
  <2>5. PICK st : st = estado
    OBVIOUS
  <2>6. PICK fq2, shape2 :
          /\ Queues(AddTailTwice(s, t), al \ {t}, [st EXCEPT ![t] = "BLOCKED"], fq2, shape2, rq, wq)
          /\ AddedTwice(fq, shape, t, fq2, shape2)
    <3>1. Queues(s, al, st, fq, shape, rq, wq) /\ t \in al \ (Members(rq) \cup Members(wq))
      BY <1>1, <2>2, <2>3, <2>4, <2>5
    <3>2. t # idle_task /\ ~(shape = "stuck" /\ t # fq[1])
      BY <1>4, <1>8, <2>4 DEF InUserProcess
    <3> QED
      BY <3>1, <3>2, Died, Zenon
  <2>7. PICK g : g = AddTailTwice(s, t)
    OBVIOUS
  <2>8. PICK st2 : st2 = [st EXCEPT ![t] = "BLOCKED"]
    OBVIOUS
  <2>9. PICK r : r = [h |-> g, st |-> st2]
    OBVIOUS
  <2>10. update_process_state_rr([Now EXCEPT !.h = list_add_tail(h, current, FREEQ)], current, FREEQ) = r
    <3>1. PICK g1 : g1 = list_add_tail(s, t, FREEQ)
      OBVIOUS
    <3>2. PICK n : n = [Now EXCEPT !.h = list_add_tail(h, current, FREEQ)]
      OBVIOUS
    <3>3. n = [h |-> g1, st |-> st]
      BY <2>2, <2>4, <2>5, <3>1, <3>2 DEF Now
    <3>4. n.h = g1 /\ n.st = st
      BY <3>3, PairFields, Zenon
    <3>5. st[t] = "RUN"
      <4>1. \A x \in alive \ (Members(rq) \cup Members(wq)) : estado[x] = "RUN" /\ Loose(h, x)
        BY <1>1, StateOfQueued
      <4> QED
        BY <1>1, <2>4, <2>5, <4>1
    <3>6. Unlink(n, t) = g1
      BY <3>4, <3>5 DEF Unlink
    <3>7. g = list_add_tail(g1, t, FREEQ)
      BY <2>7, <3>1, Zenon DEF AddTailTwice
    <3>8. FREEQ # NULL /\ FREEQ # READYQ
      BY DEF FREEQ, READYQ, NULL
    <3>9. update_process_state_rr(n, t, FREEQ) = r
      BY <2>8, <2>9, <3>4, <3>6, <3>7, <3>8 DEF update_process_state_rr
    <3> QED
      BY <2>4, <3>2, <3>9
  <2>11. sched_next_rr(r)
    BY <2>1, <2>10 DEF sched_next_rr
  <2>12. PICK al2 : al2 = al \ {t} /\ al2 = alive'
    BY <2>1, <2>3, <2>4
  <2>13. Queues(g, al2, st2, fq2, shape2, rq, wq)
    BY <2>6, <2>7, <2>8, <2>12
  <2>14. PICK rq2 : /\ PCBInv'
                    /\ Dispatched(rq, rq2, current')
                    /\ FreeWalk' = fq2 /\ FreeShape' = shape2 /\ Walk(READYQ)' = rq2 /\ Walk(WAITQ)' = wq
    BY <2>9, <2>11, <2>12, <2>13, SchedStep, Zenon
  <2>15. PCBQueues!Dispatch(Walk(READYQ))
    BY <1>3, <2>14 DEF Dispatched, PCBQueues!Dispatch, PCBQueues!idle_task, idle_task
  <2>16. PCBQueues!AddTwice(current)
    BY <1>3, <1>6, <2>4, <2>6, <2>14
       DEF AddedTwice, PCBQueues!AddTwice, PCBQueues!Exhausted, PCBQueues!FirstFree
  <2> QED
    BY <1>3, <1>4, <2>1, <2>14, <2>15, <2>16 DEF PCBQueues!Die
<1> QED
  BY <1>7, <1>8

LEMMA SameFields ==
  ASSUME NEW g, NEW x, NEW y, NEW z, g = [next |-> x, prev |-> y, fault |-> z]
  PROVE  [g EXCEPT !.next = x] = g /\ [g EXCEPT !.prev = y] = g
OBVIOUS

\* copy_data of a task_struct without links over another one without links.
LEMMA CopyLinks ==
  ASSUME NEW g \in Heaps, NEW n \in Nodes, Loose(g, n), NEW a, Loose(g, a)
  PROVE  [g EXCEPT !.next[n] = g.next[a], !.prev[n] = g.prev[a]] = g
<1>1. PICK x : x = g.next
  OBVIOUS
<1>2. PICK y : y = g.prev
  OBVIOUS
<1>3. /\ g = [next |-> x, prev |-> y, fault |-> FALSE]
      /\ x \in [Nodes -> Nodes \cup {NULL}] /\ y \in [Nodes -> Nodes \cup {NULL}]
  BY <1>1, <1>2 DEF Heaps
<1>4. x[n] = NULL /\ y[n] = NULL /\ g.next[a] = NULL /\ g.prev[a] = NULL
  BY <1>1, <1>2 DEF Loose
<1>5. [x EXCEPT ![n] = NULL] = x /\ [y EXCEPT ![n] = NULL] = y
  BY <1>3, <1>4
<1>6. g = [next |-> x, prev |-> y, fault |-> FALSE]
  BY <1>3
<1>7. [g EXCEPT !.next[n] = NULL, !.prev[n] = NULL] =
        [g EXCEPT !.next = [x EXCEPT ![n] = NULL], !.prev = [y EXCEPT ![n] = NULL]]
  BY <1>6
<1>8. [g EXCEPT !.next = x] = g /\ [g EXCEPT !.prev = y] = g
  BY <1>6, SameFields, Zenon
<1>9. [g EXCEPT !.next = x, !.prev = y] = [[g EXCEPT !.next = x] EXCEPT !.prev = y]
  OBVIOUS
<1> QED
  BY <1>4, <1>5, <1>7, <1>8, <1>9, Zenon

\* list_del of the first free PCB, which nobody uses yet.
LEMMA TakenFree ==
  ASSUME NEW s, NEW al, NEW st, NEW fq, NEW shape, NEW rq, NEW wq,
         Queues(s, al, st, fq, shape, rq, wq), ~list_empty(s, FREEQ), shape \notin {"stuck", "stranded"}
  PROVE  \E fq2, shape2 :
           /\ Queues(list_del(s, fq[1]), al \cup {fq[1]}, [st EXCEPT ![fq[1]] = "RUN"], fq2, shape2, rq, wq)
           /\ TookFirst(fq, shape, fq2, shape2)
<1>1. s \in Heaps /\ al \in SUBSET Tasks /\ Free(s, al, fq, shape) /\ Live(s, al, st, rq, wq)
  BY DEF Queues, Live, Pair
<1>2. /\ Len(fq) > 0 /\ fq[1] \in Tasks /\ fq[1] \notin al
  BY <1>1, FirstFreeIs
<1>3. PICK t \in Tasks \ al : t = fq[1]
  BY <1>2
<1>4. PICK g : g = list_del(s, t)
  OBVIOUS
<1>5. FreeTaken(g, s, al, fq, shape)
  BY <1>1, <1>2, <1>3, <1>4, FreeTake, Zenon
<1>6. PICK fq2, shape2 : Free(g, al \cup {t}, fq2, shape2) /\ TookFirst(fq, shape, fq2, shape2)
  BY <1>3, <1>5 DEF FreeTaken
<1>7. g \in Heaps /\ Loose(g, t) /\ Same(g, s, Nodes \ (Members(fq) \cup {FREEQ}))
  BY <1>3, <1>5 DEF FreeTaken
<1>8. Same(g, s, LiveNodes(al))
  <2>1. FreeNodes(fq, shape) \subseteq Nodes \ LiveNodes(al)
    BY <1>1, FreeApart
  <2>2. FreeNodes(fq, shape) = Members(fq) \cup {FREEQ}
    BY DEF FreeNodes
  <2>3. LiveNodes(al) \subseteq Nodes
    BY <1>1, Numbers DEF LiveNodes
  <2>4. LiveNodes(al) \subseteq Nodes \ (Members(fq) \cup {FREEQ})
    BY <2>1, <2>2, <2>3
  <2> QED
    BY <1>7, <2>4 DEF Same
<1>9. Live(g, al \cup {t}, [st EXCEPT ![t] = "RUN"], rq, wq)
  BY <1>1, <1>7, <1>8, Grow, Zenon
<1> QED
  BY <1>3, <1>4, <1>6, <1>9, Zenon DEF Queues

\* Before the copy: the PCB hangs nowhere, nor does the running one.
LEMMA TakenIs ==
  ASSUME NEW al, NEW st, NEW fq, NEW shape, NEW rq, NEW wq, NEW t, NEW g, g = list_del(h, t),
         Queues(g, al, st, fq, shape, rq, wq),
         t \in al \ (Members(rq) \cup Members(wq)), current \in al \ (Members(rq) \cup Members(wq))
  PROVE  Taken(t) = g /\ ~list_del(h, t).fault
<1>1. /\ g \in Heaps /\ al \subseteq Tasks
      /\ \A x \in al \ (Members(rq) \cup Members(wq)) : st[x] = "RUN" /\ Loose(g, x)
  BY StateOfQueued
<1>2. Loose(g, t) /\ Loose(g, current) /\ t \in Nodes
  BY <1>1, Numbers
<1>3. g.fault = FALSE
  BY <1>1 DEF Heaps
<1>4. PICK c : c = current
  OBVIOUS
<1>5. [g EXCEPT !.next[t] = g.next[c], !.prev[t] = g.prev[c]] = g
  BY <1>1, <1>2, <1>4, CopyLinks, Zenon
<1> QED
  BY <1>3, <1>4, <1>5 DEF Taken

\* The PCB taken is put behind the ready processes.
LEMMA SpawnedReady ==
  ASSUME NEW al, NEW st, NEW fq, NEW shape, NEW rq, NEW wq, NEW t, NEW g, g = list_del(h, t),
         Queues(g, al, [st EXCEPT ![t] = "RUN"], fq, shape, rq, wq), st \in [Tasks -> States], st = estado,
         t \in al \ (Members(rq) \cup Members(wq)), current \in al \ (Members(rq) \cup Members(wq)),
         current # t, al = alive', current' = current,
         h' = list_add_tail(Taken(t), t, READYQ), estado' = [estado EXCEPT ![t] = "READY"]
  PROVE  /\ PCBInv'
         /\ FreeWalk' = fq /\ FreeShape' = shape /\ Walk(READYQ)' = Append(rq, t) /\ Walk(WAITQ)' = wq
<1>1. PICK st1 : st1 = [st EXCEPT ![t] = "RUN"]
  OBVIOUS
<1>2. Queues(g, al, st1, fq, shape, rq, wq) /\ rq \in Queue /\ al \subseteq Tasks
  BY <1>1, StateOfQueued
<1>3. Taken(t) = g
  BY <1>2, TakenIs
<1>4. PICK g2 : g2 = list_add_tail(g, t, READYQ)
  OBVIOUS
<1>5. PICK st2 : st2 = [st1 EXCEPT ![t] = "READY"]
  OBVIOUS
<1>6. PICK q : q = Append(rq, t)
  OBVIOUS
<1>7. Queues(g2, al, st2, fq, shape, q, wq)
  BY <1>2, <1>4, <1>5, <1>6, ToReady, Zenon
<1>8. h' = g2 /\ estado' = st2
  <2>1. st2 = [st EXCEPT ![t] = "READY"]
    BY <1>1, <1>2, <1>5
  <2> QED
    BY <1>3, <1>4, <2>1
<1>9. current \in al \ (Members(q) \cup Members(wq))
  <2>1. Members(q) = Members(rq) \cup {t}
    <3>1. t \in Tasks /\ t \notin Members(rq)
      BY <1>2
    <3> QED
      BY <1>2, <1>6, <3>1, EndOfQueue, Zenon
  <2> QED
    BY <2>1
<1>10. Fits(h', alive', estado', current', fq, shape, q, wq)
  BY <1>7, <1>8, <1>9 DEF Fits
<1>11. PCBInv'
  BY <1>10, InvAfter, Zenon
<1>12. FreeWalk' = fq /\ FreeShape' = shape /\ Walk(READYQ)' = q /\ Walk(WAITQ)' = wq
  <2>1. Queues(g2, alive', st2, fq, shape, q, wq)
    BY <1>7
  <2>2. g2.next = h'.next /\ g2.prev = h'.prev
    BY <1>8
  <2> QED
    BY <2>1, <2>2, ReadsAfter, Zenon
<1> QED
  BY <1>6, <1>11, <1>12

\* PCBQueues' Without is Cut at the PCB's place.
LEMMA WithoutIs ==
  ASSUME NEW q \in Queue, NEW t
  PROVE  /\ t \in Members(q) <=> PCBQueues!InQueue(t, q)
         /\ t \notin Members(q) => PCBQueues!Without(q, t) = q
         /\ \A k \in 1 .. Len(q) : q[k] = t => PCBQueues!Without(q, t) = Cut(q, k)
<1>1. t \in Members(q) <=> PCBQueues!InQueue(t, q)
  BY Zenon DEF Members, PCBQueues!InQueue
<1>2. t \notin Members(q) => PCBQueues!Without(q, t) = q
  BY <1>1, Zenon DEF PCBQueues!Without
<1>3. ASSUME NEW k \in 1 .. Len(q), q[k] = t
      PROVE  PCBQueues!Without(q, t) = Cut(q, k)
  <2>1. DOMAIN q = 1 .. Len(q) /\ \A i, j \in 1 .. Len(q) : q[i] = q[j] => i = j
    BY QueueType
  <2>2. (CHOOSE i \in DOMAIN q : q[i] = t) = k
    <3>1. PICK c : c = CHOOSE i \in DOMAIN q : q[i] = t
      OBVIOUS
    <3>2. c \in DOMAIN q /\ q[c] = t
      BY <1>3, <2>1, <3>1, Zenon
    <3>3. c = k
      BY <1>3, <2>1, <3>2
    <3> QED
      BY <3>1, <3>3
  <2>3. PCBQueues!InQueue(t, q)
    BY <1>3, <2>1, Zenon DEF PCBQueues!InQueue
  <2>4. PCBQueues!Without(q, t) = PCBQueues!Removed(q, k)
    BY <2>2, <2>3, Zenon DEF PCBQueues!Without
  <2>5. PCBQueues!Removed(q, k) = Cut(q, k)
    BY Zenon DEF PCBQueues!Removed, Cut, Gap
  <2> QED
    BY <2>4, <2>5
<1> QED
  BY <1>1, <1>2, <1>3

LEMMA TakeFirstIs ==
  ASSUME NEW fq \in Queue, fq # <<>>, NEW shape, NEW fq2, NEW shape2, TookFirst(fq, shape, fq2, shape2),
         FreeWalk = fq, FreeShape = shape, FreeWalk' = fq2, FreeShape' = shape2
  PROVE  PCBQueues!TakeFirst
<1>1. Head(fq) = fq[1] /\ Tail(fq) = Cut(fq, 1)
  BY TailIsCut
<1> QED
  BY <1>1 DEF TookFirst, PCBQueues!TakeFirst, PCBQueues!OnlyOneFree, PCBQueues!FirstFree

\* fork and clone: a free PCB.
LEMMA SpawnFree ==
  ASSUME NEW fq, NEW shape, NEW rq, NEW wq, Fits(h, alive, estado, current, fq, shape, rq, wq), Spawn,
         shape \notin {"stuck", "stranded"}
  PROVE  PCBInv' /\ PCBQueues!Spawn
<1>1. Queues(h, alive, estado, fq, shape, rq, wq) /\ current \in alive \ (Members(rq) \cup Members(wq))
  BY DEF Fits
<1>2. PICK t : t = fq[1]
  OBVIOUS
<1>3. /\ alive \subseteq Tasks /\ Free(h, alive, fq, shape) /\ estado \in [Tasks -> States]
      /\ Members(rq) \subseteq alive /\ Members(wq) \subseteq alive
  BY <1>1 DEF Queues, Live, Pair
<1>4. /\ fq # <<>> /\ Len(fq) > 0 /\ list_first(h, FREEQ) = t /\ Head(fq) = t /\ t \in Tasks /\ t \notin alive
      /\ fq \in Queue
  <2>1. ~list_empty(h, FREEQ)
    BY DEF Spawn
  <2> QED
    BY <1>2, <1>3, <2>1, FirstFreeIs
<1>5. PICK g : g = list_del(h, t)
  OBVIOUS
<1>6. PICK st : st = estado
  OBVIOUS
<1>7. PICK al : al = alive \cup {t}
  OBVIOUS
<1>8. PICK fq2, shape2 : /\ Queues(g, al, [st EXCEPT ![t] = "RUN"], fq2, shape2, rq, wq)
                         /\ TookFirst(fq, shape, fq2, shape2)
  <2>1. ~list_empty(h, FREEQ)
    BY DEF Spawn
  <2>2. \E q, sh : /\ Queues(list_del(h, fq[1]), alive \cup {fq[1]}, [estado EXCEPT ![fq[1]] = "RUN"], q, sh, rq, wq)
                   /\ TookFirst(fq, shape, q, sh)
    BY <1>1, <2>1, TakenFree
  <2> QED
    BY <1>2, <1>5, <1>6, <1>7, <2>2
<1>9. /\ t \in al \ (Members(rq) \cup Members(wq)) /\ current \in al \ (Members(rq) \cup Members(wq))
      /\ current # t
  BY <1>1, <1>3, <1>4, <1>7
<1>10. ~list_del(h, t).fault
  BY <1>5, <1>8, <1>9, TakenIs
<1>11. /\ h' = list_add_tail(Taken(t), t, READYQ) /\ estado' = [estado EXCEPT ![t] = "READY"]
       /\ al = alive' /\ current' = current /\ halted' = "no" /\ halted = "no"
  BY <1>4, <1>7, <1>10 DEF Spawn, InUserProcess
<1>12. /\ PCBInv'
       /\ FreeWalk' = fq2 /\ FreeShape' = shape2 /\ Walk(READYQ)' = Append(rq, t) /\ Walk(WAITQ)' = wq
  BY <1>3, <1>5, <1>6, <1>8, <1>9, <1>11, SpawnedReady
<1>13. FreeWalk = fq /\ FreeShape = shape /\ Walk(READYQ) = rq /\ Walk(WAITQ) = wq
  BY <1>1, Reads
<1>14. PCBQueues!TakeFirst
  BY <1>4, <1>8, <1>12, <1>13, TakeFirstIs
<1>15. PCBQueues!InUserProcess
  BY DEF Spawn, InUserProcess, PCBQueues!InUserProcess, PCBQueues!Running, PCBQueues!idle_task, idle_task
<1>16. ~PCBQueues!Exhausted /\ PCBQueues!FirstFree = t
  BY <1>4, <1>13 DEF PCBQueues!Exhausted, PCBQueues!FirstFree
<1> QED
  BY <1>11, <1>12, <1>13, <1>14, <1>15, <1>16 DEF PCBQueues!Spawn

\* The PCB of a live process that hangs in a queue is taken out of it.
LEMMA SpawnReused ==
  ASSUME NEW fq, NEW shape, NEW rq, NEW wq, Fits(h, alive, estado, current, fq, shape, rq, wq), Spawn,
         shape \in {"stuck", "stranded"}, fq[1] \in Members(rq) \cup Members(wq)
  PROVE  PCBInv' /\ PCBQueues!Spawn
<1>1. Queues(h, alive, estado, fq, shape, rq, wq) /\ current \in alive \ (Members(rq) \cup Members(wq))
  BY DEF Fits
<1>2. PICK t : t = fq[1]
  OBVIOUS
<1>3. /\ alive \subseteq Tasks /\ Free(h, alive, fq, shape) /\ estado \in [Tasks -> States]
      /\ rq \in Queue /\ wq \in Queue /\ Members(rq) \cap Members(wq) = {}
  BY <1>1 DEF Queues, Live, Pair, Ring
<1>4. fq # <<>> /\ Len(fq) > 0 /\ list_first(h, FREEQ) = t /\ Head(fq) = t /\ t \in Tasks /\ t \in alive
  <2>1. ~list_empty(h, FREEQ)
    BY DEF Spawn
  <2> QED
    BY <1>2, <1>3, <2>1, FirstFreeIs
<1>5. PICK g : g = list_del(h, t)
  OBVIOUS
<1>6. PICK st : st = estado
  OBVIOUS
<1>7. PICK al : al = alive
  OBVIOUS
<1>8. PICK rq1, wq1 :
        /\ Queues(g, al, [st EXCEPT ![t] = "RUN"], fq, shape, rq1, wq1)
        /\ Members(rq1) = Members(rq) \ {t} /\ Members(wq1) = Members(wq) \ {t}
        /\ rq1 = PCBQueues!Without(rq, t) /\ wq1 = PCBQueues!Without(wq, t)
  <2>1. CASE t \in Members(rq)
    <3>1. PICK k \in 1 .. Len(rq) : rq[k] = t
      BY <1>3, <2>1, QueueType
    <3>2. Queues(g, al, [st EXCEPT ![t] = "RUN"], fq, shape, Cut(rq, k), wq)
      <4>1. Queues(h, alive, estado, fq, shape, rq, wq) => 
              Queues(list_del(h, rq[k]), alive, [estado EXCEPT ![rq[k]] = "RUN"], fq, shape, Cut(rq, k), wq)
        BY FromReady, Zenon
      <4> QED
        BY <1>1, <1>5, <1>6, <1>7, <3>1, <4>1
    <3>3. Members(Cut(rq, k)) = Members(rq) \ {t} /\ Members(wq) = Members(wq) \ {t}
      <4>1. Members(Cut(rq, k)) = Members(rq) \ {rq[k]}
        BY <1>3, CutQueue, Zenon
      <4> QED
        BY <1>3, <2>1, <3>1, <4>1
    <3>4. Cut(rq, k) = PCBQueues!Without(rq, t) /\ wq = PCBQueues!Without(wq, t)
      BY <1>3, <2>1, <3>1, WithoutIs
    <3> QED
      BY <3>2, <3>3, <3>4
  <2>2. CASE t \in Members(wq)
    <3>1. PICK k \in 1 .. Len(wq) : wq[k] = t
      BY <1>3, <2>2, QueueType
    <3>2. Queues(g, al, [st EXCEPT ![t] = "RUN"], fq, shape, rq, Cut(wq, k))
      <4>1. Queues(h, alive, estado, fq, shape, rq, wq) =>
              Queues(list_del(h, wq[k]), alive, [estado EXCEPT ![wq[k]] = "RUN"], fq, shape, rq, Cut(wq, k))
        BY FromWait, Zenon
      <4> QED
        BY <1>1, <1>5, <1>6, <1>7, <3>1, <4>1
    <3>3. Members(Cut(wq, k)) = Members(wq) \ {t} /\ Members(rq) = Members(rq) \ {t}
      <4>1. Members(Cut(wq, k)) = Members(wq) \ {wq[k]}
        BY <1>3, CutQueue, Zenon
      <4> QED
        BY <1>3, <2>2, <3>1, <4>1
    <3>4. Cut(wq, k) = PCBQueues!Without(wq, t) /\ rq = PCBQueues!Without(rq, t)
      BY <1>3, <2>2, <3>1, WithoutIs
    <3> QED
      BY <3>2, <3>3, <3>4
  <2> QED
    BY <1>2, <2>1, <2>2
<1>9. /\ t \in al \ (Members(rq1) \cup Members(wq1)) /\ current \in al \ (Members(rq1) \cup Members(wq1))
      /\ current # t
  BY <1>1, <1>2, <1>4, <1>7, <1>8
<1>10. ~list_del(h, t).fault
  BY <1>5, <1>8, <1>9, TakenIs
<1>11. /\ h' = list_add_tail(Taken(t), t, READYQ) /\ estado' = [estado EXCEPT ![t] = "READY"]
       /\ al = alive' /\ current' = current /\ halted' = "reused" /\ halted = "no"
  BY <1>4, <1>7, <1>10 DEF Spawn, InUserProcess
<1>12. /\ PCBInv'
       /\ FreeWalk' = fq /\ FreeShape' = shape /\ Walk(READYQ)' = Append(rq1, t) /\ Walk(WAITQ)' = wq1
  BY <1>3, <1>5, <1>6, <1>8, <1>9, <1>11, SpawnedReady
<1>13. FreeWalk = fq /\ FreeShape = shape /\ Walk(READYQ) = rq /\ Walk(WAITQ) = wq
  BY <1>1, Reads
<1>14. PCBQueues!Exhausted /\ PCBQueues!FirstFree = t
  BY <1>4, <1>13 DEF PCBQueues!Exhausted, PCBQueues!FirstFree
<1>15. PCBQueues!TakeFirst
  BY <1>4, <1>12, <1>13, <1>14 DEF PCBQueues!TakeFirst
<1>16. PCBQueues!InUserProcess
  BY DEF Spawn, InUserProcess, PCBQueues!InUserProcess, PCBQueues!Running, PCBQueues!idle_task, idle_task
<1>17. PCBQueues!InQueue(t, rq) \/ PCBQueues!InQueue(t, wq)
  BY <1>2, <1>3, WithoutIs
<1> QED
  BY <1>8, <1>11, <1>12, <1>13, <1>14, <1>15, <1>16, <1>17 DEF PCBQueues!Spawn

\* It hangs in none: list_del stores through its null links.
LEMMA SpawnFault ==
  ASSUME NEW fq, NEW shape, NEW rq, NEW wq, Fits(h, alive, estado, current, fq, shape, rq, wq), Spawn,
         shape \in {"stuck", "stranded"}, fq[1] \notin Members(rq) \cup Members(wq)
  PROVE  PCBInv' /\ PCBQueues!Spawn
<1>1. Queues(h, alive, estado, fq, shape, rq, wq) /\ current \in alive \ (Members(rq) \cup Members(wq))
  BY DEF Fits
<1>2. PICK t : t = fq[1]
  OBVIOUS
<1>3. /\ alive \subseteq Tasks /\ Free(h, alive, fq, shape) /\ h \in Heaps
      /\ rq \in Queue /\ wq \in Queue
      /\ \A x \in alive \ (Members(rq) \cup Members(wq)) : estado[x] = "RUN" /\ Loose(h, x)
  BY <1>1 DEF Queues, Live, Pair, Ring
<1>4. fq # <<>> /\ Len(fq) > 0 /\ list_first(h, FREEQ) = t /\ Head(fq) = t /\ t \in Tasks /\ t \in alive
  <2>1. ~list_empty(h, FREEQ)
    BY DEF Spawn
  <2> QED
    BY <1>2, <1>3, <2>1, FirstFreeIs
<1>5. PICK s : s = h
  OBVIOUS
<1>6. PICK g : g = [s EXCEPT !.fault = TRUE]
  OBVIOUS
<1>7. list_del(h, t) = g
  <2>1. s \in Heaps /\ Loose(s, t)
    BY <1>2, <1>3, <1>4, <1>5
  <2>2. list_del(s, t) = g
    BY <1>6, <2>1, DeleteLoose, Zenon
  <2> QED
    BY <1>5, <2>2
<1>8. /\ g \in Links /\ g.fault = TRUE /\ [g EXCEPT !.fault = FALSE] = s
      /\ s.next = g.next /\ s.prev = g.prev
  <2>1. /\ s = [next |-> s.next, prev |-> s.prev, fault |-> FALSE]
        /\ s.next \in [Nodes -> Nodes \cup {NULL}] /\ s.prev \in [Nodes -> Nodes \cup {NULL}]
    BY <1>3, <1>5 DEF Heaps
  <2>2. g = [next |-> s.next, prev |-> s.prev, fault |-> TRUE]
    BY <1>6, <2>1
  <2>3. g \in Links
    BY <2>1, <2>2, Zenon DEF Links
  <2>4. [g EXCEPT !.fault = FALSE] = s
    BY <2>1, <2>2
  <2>5. s.next = g.next /\ s.prev = g.prev /\ g.fault = TRUE
    BY <2>2
  <2> QED
    BY <2>3, <2>4, <2>5
<1>9. h' = g /\ halted' = "pagefault" /\ halted = "no" /\ UNCHANGED <<estado, alive, current>>
  BY <1>4, <1>7, <1>8 DEF Spawn, InUserProcess
<1>10. PCBInv'
  <2>1. Fits([h' EXCEPT !.fault = FALSE], alive', estado', current', fq, shape, rq, wq)
    BY <1>5, <1>8, <1>9
  <2> QED
    BY <1>8, <1>9, <2>1 DEF PCBInv
<1>11. FreeWalk' = fq /\ FreeShape' = shape /\ Walk(READYQ)' = rq /\ Walk(WAITQ)' = wq
  <2>1. PICK st : st = estado
    OBVIOUS
  <2>2. Queues(s, alive', st, fq, shape, rq, wq)
    BY <1>1, <1>5, <1>9, <2>1
  <2>3. s.next = h'.next /\ s.prev = h'.prev
    BY <1>8, <1>9
  <2> QED
    BY <2>2, <2>3, ReadsAfter, Zenon
<1>12. FreeWalk = fq /\ FreeShape = shape /\ Walk(READYQ) = rq /\ Walk(WAITQ) = wq
  BY <1>1, Reads
<1>13. PCBQueues!Exhausted /\ PCBQueues!FirstFree = t
  BY <1>4, <1>12 DEF PCBQueues!Exhausted, PCBQueues!FirstFree
<1>14. PCBQueues!TakeFirst
  BY <1>4, <1>11, <1>12, <1>13 DEF PCBQueues!TakeFirst
<1>15. PCBQueues!InUserProcess
  BY DEF Spawn, InUserProcess, PCBQueues!InUserProcess, PCBQueues!Running, PCBQueues!idle_task, idle_task
<1>16. ~PCBQueues!InQueue(t, rq) /\ ~PCBQueues!InQueue(t, wq)
  BY <1>2, <1>3, WithoutIs
<1> QED
  BY <1>9, <1>10, <1>11, <1>12, <1>13, <1>14, <1>15, <1>16 DEF PCBQueues!Spawn

LEMMA SpawnStep ==
  ASSUME NEW fq, NEW shape, NEW rq, NEW wq, Fits(h, alive, estado, current, fq, shape, rq, wq), Spawn
  PROVE  PCBInv' /\ PCBQueues!Spawn
BY SpawnFree, SpawnReused, SpawnFault, Zenon

\* A fork that fails after the PCB was taken.
LEMMA AbortStep ==
  ASSUME NEW fq, NEW shape, NEW rq, NEW wq, Fits(h, alive, estado, current, fq, shape, rq, wq), Abort
  PROVE  PCBInv' /\ PCBQueues!Abort
<1>1. Queues(h, alive, estado, fq, shape, rq, wq) /\ current \in alive \ (Members(rq) \cup Members(wq))
  BY DEF Fits
<1>2. PICK t : t = fq[1]
  OBVIOUS
<1>3. /\ alive \subseteq Tasks /\ Free(h, alive, fq, shape) /\ estado \in [Tasks -> States]
      /\ Members(rq) \subseteq alive /\ Members(wq) \subseteq alive
      /\ \A x \in alive \ (Members(rq) \cup Members(wq)) : estado[x] = "RUN" /\ Loose(h, x)
  BY <1>1 DEF Queues, Live, Pair
<1>4. ~list_empty(h, FREEQ) /\ list_first(h, FREEQ) \notin alive
  BY DEF Abort
<1>5. /\ fq # <<>> /\ Len(fq) > 0 /\ list_first(h, FREEQ) = t /\ Head(fq) = t /\ t \in Tasks /\ t \notin alive
      /\ fq \in Queue /\ shape \notin {"stuck", "stranded"}
  BY <1>2, <1>3, <1>4, FirstFreeIs
<1>6. PICK g : g = list_del(h, t)
  OBVIOUS
<1>7. PICK st2 : st2 = [estado EXCEPT ![t] = "RUN"]
  OBVIOUS
<1>8. PICK al : al = alive \cup {t}
  OBVIOUS
<1>9. PICK fq2, shape2 : /\ Queues(g, al, st2, fq2, shape2, rq, wq)
                         /\ TookFirst(fq, shape, fq2, shape2)
  <2>1. \E q, sh : /\ Queues(list_del(h, fq[1]), alive \cup {fq[1]}, [estado EXCEPT ![fq[1]] = "RUN"], q, sh, rq, wq)
                   /\ TookFirst(fq, shape, q, sh)
    BY <1>1, <1>4, <1>5, TakenFree
  <2> QED
    BY <1>2, <1>6, <1>7, <1>8, <2>1
<1>10. t \in al \ (Members(rq) \cup Members(wq)) /\ current \in al \ (Members(rq) \cup Members(wq))
  BY <1>1, <1>3, <1>5, <1>8
<1>11. Taken(t) = g
  BY <1>6, <1>9, <1>10, TakenIs
<1>12. h' = g /\ estado' = st2 /\ alive' = al /\ current' = current /\ halted' = halted /\ halted = "no"
  <2>1. estado[current] = "RUN"
    BY <1>1, <1>3
  <2> QED
    BY <1>5, <1>7, <1>8, <1>11, <2>1 DEF Abort, InUserProcess
<1>13. Fits(h', alive', estado', current', fq2, shape2, rq, wq)
  BY <1>9, <1>10, <1>12 DEF Fits
<1>14. PCBInv'
  BY <1>13, InvAfter, Zenon
<1>15. FreeWalk' = fq2 /\ FreeShape' = shape2 /\ Walk(READYQ)' = rq /\ Walk(WAITQ)' = wq
  <2>1. Queues(g, alive', st2, fq2, shape2, rq, wq) /\ g.next = h'.next /\ g.prev = h'.prev
    BY <1>9, <1>12
  <2> QED
    BY <2>1, ReadsAfter, Zenon
<1>16. FreeWalk = fq /\ FreeShape = shape /\ Walk(READYQ) = rq /\ Walk(WAITQ) = wq
  BY <1>1, Reads
<1>17. PCBQueues!TakeFirst
  BY <1>5, <1>9, <1>15, <1>16, TakeFirstIs
<1>18. PCBQueues!InUserProcess /\ ~PCBQueues!Exhausted
  BY <1>5, <1>16
     DEF Abort, InUserProcess, PCBQueues!InUserProcess, PCBQueues!Running, PCBQueues!idle_task, idle_task,
         PCBQueues!Exhausted
<1> QED
  BY <1>12, <1>14, <1>15, <1>16, <1>17, <1>18 DEF PCBQueues!Abort

-----------------------------------------------------------------------------
(* Boot.                                                                   *)

\* list_add puts a node before the first one.
Pushes(g, s, head, q, t, v) ==
  g \in Heaps /\ Ring(g, head, v) /\ Same(g, s, Nodes \ (Members(q) \cup {head, t}))

LEMMA PushFront ==
  ASSUME NEW s \in Heaps, NEW head \in Heads, NEW q, Ring(s, head, q),
         NEW t \in Tasks, t \notin Members(q),
         NEW v \in Queue, Len(v) = Len(q) + 1, v[1] = t, \A i \in 1 .. Len(q) : v[i + 1] = q[i]
  PROVE  Pushes(list_add(s, t, head), s, head, q, t, v)
<1>1. /\ q \in Queue
      /\ \A i \in 0 .. Len(q) : s.next[At(head, q, i)] = At(head, q, i + 1)
                              /\ s.prev[At(head, q, i + 1)] = At(head, q, i)
  BY DEF Ring
<1>2. PICK n \in Nat : n = Len(q)
  BY <1>1, QueueType
<1>3. PICK at : at = [i \in 0 .. n + 1 |-> At(head, q, i)]
  OBVIOUS
<1>4. /\ \A i \in 0 .. n + 1 : at[i] = At(head, q, i) /\ at[i] \in Nodes /\ at[i] \in Members(q) \cup {head}
      /\ at[0] = head /\ at[n + 1] = head
  BY <1>1, <1>2, <1>3, Places
<1>5. \A i, j \in 0 .. n + 1 : at[i] = at[j] => i = j \/ (i = 0 /\ j = n + 1) \/ (j = 0 /\ i = n + 1)
  BY <1>1, <1>2, <1>4, Places
<1>6. \A i \in 0 .. n : s.next[at[i]] = at[i + 1] /\ s.prev[at[i + 1]] = at[i]
  <2> TAKE i \in 0 .. n
  <2>1. i \in 0 .. n + 1 /\ i + 1 \in 0 .. n + 1 /\ i \in 0 .. Len(q)
    BY <1>2
  <2> QED
    BY <1>1, <1>4, <2>1
<1>7. head \in Nodes /\ t \in Nodes /\ t # head /\ head \notin Tasks
  BY Numbers
<1>8. PICK first \in Nodes : first = at[1] /\ first = s.next[head] /\ first # t
  <2>1. 1 \in 0 .. n + 1 /\ 0 \in 0 .. n /\ 0 + 1 = 1
    OBVIOUS
  <2>2. at[1] \in Nodes /\ at[1] = s.next[head] /\ at[1] # t
    BY <1>4, <1>6, <1>7, <2>1
  <2> QED
    BY <2>2
<1>9. PICK g : g = list_add(s, t, head)
  OBVIOUS
<1>10. Inserted(g, s, t, head, first)
  <2>1. g = Insert(s, t, head, first)
    BY <1>8, <1>9, Zenon DEF list_add
  <2> QED
    BY <1>7, <2>1, InsertLinks, Zenon
<1>11. /\ At(head, v, 0) = head /\ At(head, v, 1) = t
       /\ \A i \in 2 .. n + 2 : At(head, v, i) = at[i - 1]
  <2>1. At(head, v, 0) = head /\ At(head, v, 1) = t
    BY <1>2 DEF At
  <2>2. ASSUME NEW i \in 2 .. n + 2 PROVE At(head, v, i) = at[i - 1]
    <3>1. CASE i = n + 2
      <4>1. i \notin 1 .. Len(v) /\ i - 1 = n + 1
        BY <1>2, <3>1
      <4> QED
        BY <1>4, <4>1 DEF At
    <3>2. CASE i # n + 2
      <4>1. i \in 1 .. Len(v) /\ i - 1 \in 1 .. Len(q) /\ i - 1 \in 0 .. n + 1 /\ (i - 1) + 1 = i
        BY <1>2, <3>2
      <4>2. At(head, v, i) = q[i - 1]
        BY <4>1 DEF At
      <4>3. at[i - 1] = q[i - 1]
        BY <1>4, <4>1 DEF At
      <4> QED
        BY <4>2, <4>3
    <3> QED
      BY <3>1, <3>2
  <2> QED
    BY <2>1, <2>2
<1>12. ASSUME NEW i \in 0 .. n + 1
       PROVE  g.next[At(head, v, i)] = At(head, v, i + 1) /\ g.prev[At(head, v, i + 1)] = At(head, v, i)
  <2>1. CASE i = 0
    BY <1>7, <1>8, <1>10, <1>11, <2>1 DEF Inserted
  <2>2. CASE i = 1
    <3>1. At(head, v, 1) = t /\ At(head, v, i + 1) = first
      <4>1. i + 1 = 2 /\ 2 \in 2 .. n + 2 /\ 2 - 1 = 1
        BY <2>2
      <4>2. At(head, v, 2) = at[2 - 1]
        BY <1>11, <4>1
      <4> QED
        BY <1>8, <1>11, <4>1, <4>2
    <3> QED
      BY <1>7, <1>8, <1>10, <2>2, <3>1 DEF Inserted
  <2>3. CASE i > 1
    <3>1. i \in 2 .. n + 2 /\ i + 1 \in 2 .. n + 2 /\ (i + 1) - 1 = i
      BY <2>3
    <3>2. At(head, v, i) = at[i - 1] /\ At(head, v, i + 1) = at[i]
      BY <1>11, <3>1
    <3>3. i - 1 \in 0 .. n /\ (i - 1) + 1 = i /\ i - 1 \in 0 .. n + 1 /\ 0 \in 0 .. n + 1 /\ 1 \in 0 .. n + 1
      BY <2>3
    <3>4. at[i - 1] # head /\ at[i] # first
      <4>1. i - 1 # 0 /\ i # 1 /\ i - 1 # n + 1 /\ i # 0 /\ 1 # 0
        BY <2>3, <3>3
      <4>2. at[i - 1] # at[0]
        BY <1>5, <3>3, <4>1
      <4>3. at[i] # at[1]
        BY <1>5, <3>3, <4>1
      <4> QED
        BY <1>4, <1>8, <4>2, <4>3
    <3>5. at[i - 1] # t /\ at[i] # t /\ at[i - 1] \in Nodes /\ at[i] \in Nodes
      BY <1>4, <1>7, <3>3
    <3>6. g.next[at[i - 1]] = s.next[at[i - 1]] /\ g.prev[at[i]] = s.prev[at[i]]
      BY <1>10, <3>4, <3>5 DEF Inserted
    <3>7. s.next[at[i - 1]] = at[i] /\ s.prev[at[i]] = at[i - 1]
      BY <1>6, <3>3
    <3> QED
      BY <3>2, <3>6, <3>7
  <2> QED
    BY <2>1, <2>2, <2>3
<1>13. Ring(g, head, v)
  BY <1>2, <1>12 DEF Ring
<1>14. Same(g, s, Nodes \ (Members(q) \cup {head, t}))
  <2>1. first \in Members(q) \cup {head}
    <3>1. 1 \in 0 .. n + 1
      OBVIOUS
    <3> QED
      BY <1>4, <1>8, <3>1
  <2> QED
    BY <1>10, <2>1 DEF Same, Inserted
<1> QED
  BY <1>9, <1>10, <1>13, <1>14 DEF Pushes, Inserted

\* The PCBs pushed, the last one first.
Down(k) == [i \in 1 .. k |-> k - i]

LEMMA DownType ==
  ASSUME NEW k \in 0 .. NR_TASKS
  PROVE  /\ Down(k) \in Queue /\ Len(Down(k)) = k /\ Members(Down(k)) = 0 .. k - 1
         /\ \A i \in 1 .. k : Down(k)[i] = k - i
<1>1. NR_TASKS \in Nat /\ Tasks = 0 .. NR_TASKS - 1
  BY Numbers DEF Tasks
<1>2. PICK v : v = Down(k)
  OBVIOUS
<1>3. DOMAIN v = 1 .. k /\ \A i \in 1 .. k : v[i] = k - i
  BY <1>2 DEF Down
<1>4. \A i \in 1 .. k : k - i \in Tasks
  BY <1>1
<1>5. v \in Seq(Tasks) /\ Len(v) = k
  <2>1. v \in [1 .. k -> Tasks]
    BY <1>2, <1>4, Zenon DEF Down
  <2> QED
    BY <1>1, <2>1
<1>6. v \in Queue
  <2>1. \A i, j \in DOMAIN v : v[i] = v[j] => i = j
    BY <1>1, <1>3
  <2> QED
    BY <1>5, <2>1, Zenon DEF Queue
<1>7. Members(v) = 0 .. k - 1
  <2>1. \A x \in Members(v) : x \in 0 .. k - 1
    BY <1>1, <1>3 DEF Members
  <2>2. \A x \in 0 .. k - 1 : k - x \in DOMAIN v /\ v[k - x] = x
    BY <1>1, <1>3
  <2> QED
    BY <2>1, <2>2 DEF Members
<1> QED
  BY <1>2, <1>3, <1>5, <1>6, <1>7

\* What Pushed is defined by.
IsPushed(f, n) ==
  f = [k \in 0 .. n |-> IF k = 0 THEN EmptyHeads ELSE list_add(f[k - 1], k - 1, FREEQ)]

LEMMA PushedIs == IsPushed(Pushed, NR_TASKS)
<1>1. PICK T : T = {n \in Nat : \E f : IsPushed(f, n)}
  OBVIOUS
<1>2. 0 \in T
  <2>1. PICK f : f = [k \in 0 .. 0 |-> EmptyHeads]
    OBVIOUS
  <2>2. f = [k \in 0 .. 0 |-> IF k = 0 THEN EmptyHeads ELSE list_add(f[k - 1], k - 1, FREEQ)]
    BY <2>1
  <2> QED
    BY <1>1, <2>2 DEF IsPushed
<1>3. ASSUME NEW n \in Nat, n \in T PROVE n + 1 \in T
  <2>1. PICK f : f = [k \in 0 .. n |-> IF k = 0 THEN EmptyHeads ELSE list_add(f[k - 1], k - 1, FREEQ)]
    BY <1>1, <1>3 DEF IsPushed
  <2>2. PICK g : g = [k \in 0 .. n + 1 |-> IF k = n + 1 THEN list_add(f[n], n, FREEQ) ELSE f[k]]
    OBVIOUS
  <2>3. ASSUME NEW k \in 0 .. n + 1
        PROVE  g[k] = IF k = 0 THEN EmptyHeads ELSE list_add(g[k - 1], k - 1, FREEQ)
    <3>1. CASE k = n + 1
      <4>1. k # 0 /\ k - 1 = n /\ n \in 0 .. n + 1 /\ n # n + 1
        BY <3>1
      <4>2. g[k] = list_add(f[n], n, FREEQ) /\ g[n] = f[n]
        BY <2>2, <3>1, <4>1
      <4> QED
        BY <4>1, <4>2
    <3>2. CASE k # n + 1
      <4>1. k \in 0 .. n /\ (k # 0 => k - 1 \in 0 .. n + 1 /\ k - 1 # n + 1)
        BY <3>2
      <4>2. g[k] = f[k] /\ (k # 0 => g[k - 1] = f[k - 1])
        BY <2>2, <3>2, <4>1
      <4>3. f[k] = IF k = 0 THEN EmptyHeads ELSE list_add(f[k - 1], k - 1, FREEQ)
        BY <2>1, <4>1
      <4> QED
        BY <4>2, <4>3
    <3> QED
      BY <3>1, <3>2
  <2>4. IsPushed(g, n + 1)
    BY <2>2, <2>3 DEF IsPushed
  <2> QED
    BY <1>1, <2>4
<1>4. NR_TASKS \in T
  BY <1>2, <1>3, NatSetInduction, Numbers
<1>5. \E f : IsPushed(f, NR_TASKS)
  BY <1>1, <1>4
<1>6. Pushed = CHOOSE f : f = [k \in 0 .. NR_TASKS |-> IF k = 0 THEN EmptyHeads ELSE list_add(f[k - 1], k - 1, FREEQ)]
  BY Zenon DEF Pushed
<1> QED
  BY <1>5, <1>6, Zenon DEF IsPushed

\* A head linked to itself.
HeadSet(g, s, a) ==
  /\ g \in Heaps
  /\ \A x \in Nodes : /\ g.next[x] = IF x = a THEN a ELSE s.next[x]
                     /\ g.prev[x] = IF x = a THEN a ELSE s.prev[x]

LEMMA InitHead ==
  ASSUME NEW s \in Heaps, NEW a \in Nodes
  PROVE  HeadSet(INIT_LIST_HEAD(s, a), s, a)
<1>0. PICK g : g = INIT_LIST_HEAD(s, a)
  OBVIOUS
<1>1. PICK b : b = SetNext(s, a, a)
  OBVIOUS
<1>2. NextStored(b, s, a, a)
  BY <1>1, StoreNext
<1>3. b \in Heaps /\ a \in Nodes \cup {NULL}
  BY <1>2 DEF NextStored
<1>4. g = SetPrev(b, a, a)
  BY <1>0, <1>1 DEF INIT_LIST_HEAD
<1>5. PrevStored(g, b, a, a)
  BY <1>3, <1>4, StorePrev
<1> QED
  BY <1>0, <1>2, <1>5 DEF HeadSet, NextStored, PrevStored

\* A head that is its own neighbour is an empty ring.
LEMMA EmptyRing ==
  ASSUME NEW s, NEW head, s.next[head] = head, s.prev[head] = head
  PROVE  Ring(s, head, <<>>)
<1>1. PICK q : q = <<>>
  OBVIOUS
<1>2. q \in Seq(Tasks) /\ Len(q) = 0 /\ DOMAIN q = {}
  BY <1>1
<1>3. q \in Queue
  BY <1>2 DEF Queue
<1>4. ASSUME NEW i \in 0 .. Len(q)
      PROVE  s.next[At(head, q, i)] = At(head, q, i + 1) /\ s.prev[At(head, q, i + 1)] = At(head, q, i)
  <2>1. i \notin 1 .. Len(q) /\ i + 1 \notin 1 .. Len(q)
    BY <1>2
  <2>2. At(head, q, i) = head /\ At(head, q, i + 1) = head
    BY <2>1 DEF At
  <2> QED
    BY <2>2
<1> QED
  BY <1>1, <1>3, <1>4 DEF Ring

\* The heap before task[0] is pushed.
LEMMA EmptyHeadsAre ==
  /\ EmptyHeads \in Heaps
  /\ \A x \in Heads : EmptyHeads.next[x] = x /\ EmptyHeads.prev[x] = x
  /\ \A t \in Tasks : Loose(EmptyHeads, t)
<1>1. PICK z : z = [n \in Nodes |-> NULL]
  OBVIOUS
<1>2. z \in [Nodes -> Nodes \cup {NULL}] /\ \A x \in Nodes : z[x] = NULL
  BY <1>1
<1>3. PICK a : a = [next |-> z, prev |-> z, fault |-> FALSE]
  OBVIOUS
<1>4. a \in Heaps
  BY <1>2, <1>3, Zenon DEF Heaps
<1>5. a.next = z /\ a.prev = z
  BY <1>3
<1>6. /\ FREEQ \in Nodes /\ READYQ \in Nodes /\ WAITQ \in Nodes
      /\ Heads = {FREEQ, READYQ, WAITQ} /\ \A t \in Tasks : t \in Nodes /\ t \notin Heads
  BY Numbers, Zenon DEF Heads
<1>7. PICK b : b = INIT_LIST_HEAD(a, WAITQ)
  OBVIOUS
<1>8. PICK c : c = INIT_LIST_HEAD(b, FREEQ)
  OBVIOUS
<1>9. PICK d : d = INIT_LIST_HEAD(c, READYQ)
  OBVIOUS
<1>10. EmptyHeads = d
  <2>1. EmptyHeads = INIT_LIST_HEAD(INIT_LIST_HEAD(INIT_LIST_HEAD(a, WAITQ), FREEQ), READYQ)
    BY <1>1, <1>3, Zenon DEF EmptyHeads
  <2> QED
    BY <1>7, <1>8, <1>9, <2>1
<1>11. HeadSet(b, a, WAITQ)
  BY <1>4, <1>6, <1>7, InitHead
<1>12. HeadSet(c, b, FREEQ)
  <2>1. b \in Heaps
    BY <1>11 DEF HeadSet
  <2> QED
    BY <1>6, <1>8, <2>1, InitHead
<1>13. HeadSet(d, c, READYQ)
  <2>1. c \in Heaps
    BY <1>12 DEF HeadSet
  <2> QED
    BY <1>6, <1>9, <2>1, InitHead
<1>14. \A x \in Heads : d.next[x] = x /\ d.prev[x] = x
  BY <1>6, <1>11, <1>12, <1>13 DEF HeadSet
<1>15. \A t \in Tasks : d.next[t] = NULL /\ d.prev[t] = NULL
  BY <1>2, <1>5, <1>6, <1>11, <1>12, <1>13 DEF HeadSet
<1> QED
  BY <1>10, <1>13, <1>14, <1>15 DEF Loose, HeadSet

\* task[0 .. k-1] pushed.
PushedFits(s, k) ==
  s \in Heaps /\ Ring(s, FREEQ, Down(k)) /\ Same(s, EmptyHeads, Nodes \ ((0 .. k - 1) \cup {FREEQ}))

LEMMA PushOne ==
  ASSUME NEW k \in 0 .. NR_TASKS - 1, NEW s, PushedFits(s, k)
  PROVE  PushedFits(list_add(s, k, FREEQ), k + 1)
<1>1. /\ s \in Heaps /\ Ring(s, FREEQ, Down(k))
      /\ Same(s, EmptyHeads, Nodes \ ((0 .. k - 1) \cup {FREEQ}))
  BY DEF PushedFits
<1>2. NR_TASKS \in Nat /\ Tasks = 0 .. NR_TASKS - 1 /\ FREEQ \in Heads
  BY Numbers DEF Tasks
<1>3. k \in 0 .. NR_TASKS /\ k + 1 \in 0 .. NR_TASKS /\ k \in Tasks /\ (k + 1) - 1 = k /\ k \notin 0 .. k - 1
  BY <1>2
<1>4. PICK q : q = Down(k)
  OBVIOUS
<1>5. PICK v : v = Down(k + 1)
  OBVIOUS
<1>6. q \in Queue /\ Len(q) = k /\ Members(q) = 0 .. k - 1 /\ \A i \in 1 .. k : q[i] = k - i
  BY <1>3, <1>4, DownType, Zenon
<1>7. v \in Queue /\ Len(v) = k + 1 /\ \A i \in 1 .. k + 1 : v[i] = (k + 1) - i
  BY <1>3, <1>5, DownType, Zenon
<1>8. v[1] = k /\ \A i \in 1 .. k : v[i + 1] = k - i
  <2>1. 1 \in 1 .. k + 1 /\ \A i \in 1 .. k : i + 1 \in 1 .. k + 1 /\ (k + 1) - (i + 1) = k - i
    BY <1>3
  <2> QED
    BY <1>3, <1>7, <2>1
<1>9. PICK g : g = list_add(s, k, FREEQ)
  OBVIOUS
<1>10. Pushes(g, s, FREEQ, q, k, v)
  <2>1. /\ Ring(s, FREEQ, q) /\ k \notin Members(q) /\ Len(v) = Len(q) + 1
        /\ \A i \in 1 .. Len(q) : v[i + 1] = q[i]
    BY <1>1, <1>3, <1>4, <1>6, <1>7, <1>8
  <2> QED
    BY <1>1, <1>2, <1>3, <1>7, <1>8, <1>9, <2>1, PushFront, Zenon
<1>11. Same(g, EmptyHeads, Nodes \ ((0 .. k) \cup {FREEQ}))
  <2> SUFFICES ASSUME NEW x \in Nodes \ ((0 .. k) \cup {FREEQ})
               PROVE  g.next[x] = EmptyHeads.next[x] /\ g.prev[x] = EmptyHeads.prev[x]
    BY DEF Same
  <2>1. x \notin 0 .. k - 1 /\ x # k
    BY <1>3
  <2> QED
    BY <1>1, <1>6, <1>10, <2>1 DEF Same, Pushes
<1> QED
  BY <1>3, <1>5, <1>9, <1>10, <1>11 DEF PushedFits, Pushes

LEMMA AllPushed == PushedFits(Pushed[NR_TASKS], NR_TASKS)
<1>1. PICK p : p = Pushed
  OBVIOUS
<1>2. p = [k \in 0 .. NR_TASKS |-> IF k = 0 THEN EmptyHeads ELSE list_add(p[k - 1], k - 1, FREEQ)]
  BY <1>1, PushedIs, Zenon DEF IsPushed
<1>3. NR_TASKS \in Nat
  BY Numbers
<1>4. PICK T : T = {k \in Nat : k \in 0 .. NR_TASKS => PushedFits(p[k], k)}
  OBVIOUS
<1>5. 0 \in T
  <2>1. 0 \in 0 .. NR_TASKS /\ 0 .. 0 - 1 = {}
    BY <1>3
  <2>2. p[0] = EmptyHeads
    BY <1>2, <2>1
  <2>3. Down(0) = <<>>
    BY DEF Down
  <2>4. EmptyHeads \in Heaps /\ Ring(EmptyHeads, FREEQ, Down(0))
    BY <2>3, EmptyHeadsAre, EmptyRing, Numbers
  <2>5. PushedFits(p[0], 0)
    BY <2>2, <2>4 DEF PushedFits, Same
  <2> QED
    BY <1>4, <2>5
<1>6. ASSUME NEW n \in Nat, n \in T PROVE n + 1 \in T
  <2> SUFFICES ASSUME n + 1 \in 0 .. NR_TASKS PROVE PushedFits(p[n + 1], n + 1)
    BY <1>4
  <2>1. n \in 0 .. NR_TASKS /\ n \in 0 .. NR_TASKS - 1 /\ n + 1 # 0 /\ (n + 1) - 1 = n
    BY <1>3
  <2>2. PushedFits(p[n], n)
    BY <1>4, <1>6, <2>1
  <2>3. p[n + 1] = list_add(p[n], n, FREEQ)
    BY <1>2, <2>1
  <2> QED
    BY <2>1, <2>2, <2>3, PushOne
<1>7. NR_TASKS \in T /\ NR_TASKS \in 0 .. NR_TASKS
  BY <1>3, <1>5, <1>6, NatSetInduction
<1> QED
  BY <1>1, <1>4, <1>7

\* init_idle and init_task1 take the first free PCB.
LEMMA TakeLast ==
  ASSUME NEW k \in 1 .. NR_TASKS, NEW s \in Heaps, Ring(s, FREEQ, Down(k)),
         NEW g, g = list_del(s, list_first(s, FREEQ))
  PROVE  /\ g \in Heaps /\ Ring(g, FREEQ, Down(k - 1)) /\ Loose(g, k - 1)
         /\ Same(g, s, Nodes \ ((0 .. k - 1) \cup {FREEQ}))
<1>1. NR_TASKS \in Nat /\ FREEQ \in Heads
  BY Numbers
<1>2. k \in 0 .. NR_TASKS /\ k - 1 \in 0 .. NR_TASKS /\ 1 \in 1 .. k
  BY <1>1
<1>3. PICK q : q = Down(k)
  OBVIOUS
<1>4. q \in Queue /\ Len(q) = k /\ Members(q) = 0 .. k - 1 /\ \A i \in 1 .. k : q[i] = k - i
  BY <1>2, <1>3, DownType, Zenon
<1>5. 1 \in 1 .. Len(q) /\ q[1] = k - 1 /\ q # <<>>
  BY <1>2, <1>4
<1>6. list_first(s, FREEQ) = q[1]
  BY <1>1, <1>3, <1>5, FirstOfRing
<1>7. TakenOut(g, s, FREEQ, q, 1)
  BY <1>1, <1>3, <1>5, <1>6, TakeOut
<1>8. Cut(q, 1) = Down(k - 1)
  <2>1. \A j \in 1 .. k - 1 : Gap(1, j) = j + 1 /\ j + 1 \in 1 .. k /\ k - (j + 1) = (k - 1) - j
    BY DEF Gap
  <2>2. \A j \in 1 .. k - 1 : q[Gap(1, j)] = (k - 1) - j
    BY <1>4, <2>1
  <2>3. Cut(q, 1) = [j \in 1 .. k - 1 |-> q[Gap(1, j)]]
    BY <1>4 DEF Cut
  <2>4. Down(k - 1) = [j \in 1 .. k - 1 |-> (k - 1) - j]
    BY DEF Down
  <2> QED
    BY <2>2, <2>3, <2>4
<1> QED
  BY <1>4, <1>5, <1>7, <1>8 DEF TakenOut

LEMMA BootFits ==
  ASSUME Init
  PROVE  Fits(h, alive, estado, current, Down(NR_TASKS - 2), "proper", <<>>, <<>>)
<1>1. NR_TASKS \in Nat /\ NR_TASKS > 2 /\ Tasks = 0 .. NR_TASKS - 1
  BY Numbers DEF Tasks
<1>2. PICK n : n = NR_TASKS
  OBVIOUS
<1>3. /\ n \in 1 .. NR_TASKS /\ n - 1 \in 1 .. NR_TASKS /\ n - 2 \in 0 .. NR_TASKS
      /\ (n - 1) - 1 = n - 2 /\ n - 1 \in Tasks /\ n - 2 \in Tasks /\ n - 1 # n - 2
      /\ n - 1 \notin 0 .. n - 2 /\ n - 1 \notin 0 .. (n - 2) - 1 /\ n - 2 \notin 0 .. (n - 2) - 1
  BY <1>1, <1>2
<1>4. PICK s0 : s0 = Pushed[NR_TASKS]
  OBVIOUS
<1>5. /\ s0 \in Heaps /\ Ring(s0, FREEQ, Down(n))
      /\ Same(s0, EmptyHeads, Nodes \ ((0 .. n - 1) \cup {FREEQ}))
  BY <1>2, <1>4, AllPushed DEF PushedFits
<1>6. PICK s1 : s1 = list_del(s0, list_first(s0, FREEQ))
  OBVIOUS
<1>7. /\ s1 \in Heaps /\ Ring(s1, FREEQ, Down(n - 1)) /\ Loose(s1, n - 1)
      /\ Same(s1, s0, Nodes \ ((0 .. n - 1) \cup {FREEQ}))
  BY <1>3, <1>5, <1>6, TakeLast, Zenon
<1>8. PICK s2 : s2 = list_del(s1, list_first(s1, FREEQ))
  OBVIOUS
<1>9. /\ s2 \in Heaps /\ Ring(s2, FREEQ, Down((n - 1) - 1)) /\ Loose(s2, (n - 1) - 1)
      /\ Same(s2, s1, Nodes \ ((0 .. (n - 1) - 1) \cup {FREEQ}))
  BY <1>3, <1>7, <1>8, TakeLast, Zenon
<1>10. h = s2
  <2>1. Booted = s2
    BY <1>4, <1>6, <1>8 DEF Booted
  <2> QED
    BY <2>1 DEF Init
<1>11. /\ FREEQ \in Nodes \ Tasks /\ READYQ \in Nodes \ Tasks /\ WAITQ \in Nodes \ Tasks
       /\ READYQ # FREEQ /\ WAITQ # FREEQ /\ READYQ \in Heads /\ WAITQ \in Heads
       /\ \A t \in Tasks : t \in Nodes /\ t # FREEQ
  BY Numbers, Zenon
<1>12. Ring(s2, READYQ, <<>>) /\ Ring(s2, WAITQ, <<>>)
  <2>1. ASSUME NEW x \in {READYQ, WAITQ} PROVE s2.next[x] = x /\ s2.prev[x] = x
    <3>1. x \in Nodes /\ x \notin Tasks /\ x # FREEQ /\ x \in Heads
      BY <1>11
    <3>2. x \notin 0 .. n - 1 /\ x \notin 0 .. (n - 1) - 1
      BY <1>1, <1>2, <3>1
    <3>3. EmptyHeads.next[x] = x /\ EmptyHeads.prev[x] = x
      BY <3>1, EmptyHeadsAre
    <3> QED
      BY <1>5, <1>7, <1>9, <3>1, <3>2, <3>3 DEF Same
  <2>2. /\ s2.next[READYQ] = READYQ /\ s2.prev[READYQ] = READYQ
        /\ s2.next[WAITQ] = WAITQ /\ s2.prev[WAITQ] = WAITQ
    BY <2>1
  <2> QED
    BY <2>2, EmptyRing
<1>13. Loose(s2, n - 1) /\ Loose(s2, n - 2)
  <2>1. n - 1 \in Nodes /\ n - 1 # FREEQ
    BY <1>3, <1>11
  <2>2. s2.next[n - 1] = s1.next[n - 1] /\ s2.prev[n - 1] = s1.prev[n - 1]
    BY <1>3, <1>9, <2>1 DEF Same
  <2> QED
    BY <1>3, <1>7, <1>9, <2>2 DEF Loose
<1>14. PICK al : al = alive /\ al = {n - 1, n - 2} /\ idle_task = n - 1 /\ init_task = n - 2
  BY <1>2 DEF Init, idle_task, init_task
<1>15. PICK st : st = estado /\ st = [t \in Tasks |-> "RUN"]
  BY DEF Init
<1>16. PICK e : e = <<>>
  OBVIOUS
<1>17. Members(e) = {}
  BY <1>16 DEF Members
<1>18. Live(s2, al, st, e, e)
  <2>1. al \in SUBSET Tasks
    BY <1>3, <1>14
  <2>2. st \in [Tasks -> States] /\ \A t \in al : st[t] = "RUN" /\ Loose(s2, t)
    BY <1>13, <1>14, <1>15, <2>1 DEF States
  <2>3. Pair(s2, al, st, READYQ, e, WAITQ, e)
    BY <1>9, <1>12, <1>16, <1>17, <2>1, <2>2 DEF Pair
  <2> QED
    BY <1>14, <1>17, <2>3 DEF Live
<1>19. Free(s2, al, Down(n - 2), "proper")
  <2>1. PICK d : d = Down(n - 2)
    OBVIOUS
  <2>2. Members(d) = 0 .. (n - 2) - 1
    BY <1>3, <2>1, DownType, Zenon
  <2>3. Members(d) \cap al = {}
    BY <1>3, <1>14, <2>2
  <2>4. Ring(s2, FREEQ, d)
    BY <1>3, <1>9, <2>1
  <2> QED
    BY <2>1, <2>3, <2>4 DEF Free
<1>20. PICK cur : cur = current /\ cur = n - 2
  BY <1>14 DEF Init
<1>21. Fits(s2, al, st, cur, Down(n - 2), "proper", e, e)
  BY <1>14, <1>17, <1>18, <1>19, <1>20 DEF Fits, Queues
<1> QED
  BY <1>2, <1>10, <1>14, <1>15, <1>16, <1>20, <1>21

LEMMA InitStep ==
  ASSUME Init
  PROVE  PCBInv /\ PCBQueues!Init
<1>1. PICK e : e = <<>>
  OBVIOUS
<1>2. PICK d : d = Down(NR_TASKS - 2)
  OBVIOUS
<1>3. Fits(h, alive, estado, current, d, "proper", e, e)
  BY <1>1, <1>2, BootFits
<1>4. PICK s : s = h
  OBVIOUS
<1>5. s \in Heaps
  BY <1>3, <1>4 DEF Fits, Queues, Live, Pair
<1>6. s \in Links /\ s.fault = FALSE /\ [s EXCEPT !.fault = FALSE] = s
  BY <1>5, HeapIsLinks, Zenon
<1>7. PCBInv
  BY <1>3, <1>4, <1>6 DEF PCBInv
<1>8. FreeWalk = d /\ FreeShape = "proper" /\ Walk(READYQ) = e /\ Walk(WAITQ) = e
  <2>1. Queues(s, alive, estado, d, "proper", e, e)
    BY <1>3, <1>4 DEF Fits
  <2> QED
    BY <1>4, <2>1, Reads
<1>9. PCBQueues!BootFreeQueue = d
  BY <1>2 DEF PCBQueues!BootFreeQueue, Down
<1>10. PCBQueues!FreeListInit(PCBQueues!BootFreeQueue)
  BY <1>8, <1>9 DEF PCBQueues!FreeListInit
<1>11. current = PCBQueues!init_task /\ halted = "no"
  BY DEF Init, PCBQueues!init_task, init_task
<1> QED
  BY <1>1, <1>7, <1>8, <1>10, <1>11 DEF PCBQueues!Init

-----------------------------------------------------------------------------
(* The specification.                                                      *)

LEMMA NextStep ==
  ASSUME PCBInv, Next
  PROVE  PCBInv' /\ PCBQueues!Next
<1>1. halted = "no"
  <2>1. CASE Spawn
    BY <2>1 DEF Spawn, InUserProcess
  <2>2. CASE Abort
    BY <2>2 DEF Abort, InUserProcess
  <2>3. CASE Die
    BY <2>3 DEF Die, InUserProcess
  <2>4. CASE Preempt
    BY <2>4 DEF Preempt
  <2>5. CASE BlockTail
    BY <2>5 DEF BlockTail, InUserProcess
  <2>6. CASE BlockFirst
    BY <2>6 DEF BlockFirst, InUserProcess
  <2>7. CASE Wake
    BY <2>7 DEF Wake
  <2> QED
    BY <2>1, <2>2, <2>3, <2>4, <2>5, <2>6, <2>7, Zenon DEF Next
<1>2. PICK fq, shape, rq, wq : Fits(h, alive, estado, current, fq, shape, rq, wq)
  BY <1>1, InvBefore, Zenon
<1>3. CASE Spawn
  <2>1. PCBInv' /\ PCBQueues!Spawn
    BY <1>2, <1>3, SpawnStep, Zenon
  <2> QED
    BY <2>1, Zenon DEF PCBQueues!Next
<1>4. CASE Abort
  <2>1. PCBInv' /\ PCBQueues!Abort
    BY <1>2, <1>4, AbortStep, Zenon
  <2> QED
    BY <2>1, Zenon DEF PCBQueues!Next
<1>5. CASE Die
  <2>1. PCBInv' /\ PCBQueues!Die
    BY <1>2, <1>5, DieStep, Zenon
  <2> QED
    BY <2>1, Zenon DEF PCBQueues!Next
<1>6. CASE Preempt
  <2>1. PCBInv' /\ PCBQueues!Preempt
    BY <1>2, <1>6, PreemptStep, Zenon
  <2> QED
    BY <2>1, Zenon DEF PCBQueues!Next
<1>7. CASE BlockTail
  <2>1. PCBInv' /\ PCBQueues!Block
    BY <1>2, <1>7, BlockTailStep, Zenon
  <2> QED
    BY <2>1, Zenon DEF PCBQueues!Next
<1>8. CASE BlockFirst
  <2>1. PCBInv' /\ PCBQueues!Block
    BY <1>2, <1>8, BlockFirstStep, Zenon
  <2> QED
    BY <2>1, Zenon DEF PCBQueues!Next
<1>9. CASE Wake
  <2>1. PCBInv' /\ PCBQueues!Wake
    BY <1>2, <1>9, WakeStep, Zenon
  <2> QED
    BY <2>1, Zenon DEF PCBQueues!Next
<1> QED
  BY <1>3, <1>4, <1>5, <1>6, <1>7, <1>8, <1>9, Zenon DEF Next

LEMMA Stutters ==
  ASSUME PCBInv, UNCHANGED vars
  PROVE  PCBInv' /\ UNCHANGED PCBQueues!vars
<1>1. h' = h /\ estado' = estado /\ alive' = alive /\ current' = current /\ halted' = halted
  BY DEF vars
<1>2. PCBInv'
  BY <1>1 DEF PCBInv
<1>3. Walk(READYQ)' = Walk(READYQ) /\ Walk(WAITQ)' = Walk(WAITQ)
  BY <1>1 DEF Walk
<1>4. FreeWalk' = FreeWalk
  BY <1>1 DEF FreeWalk, FirstIsTaken, Walk
<1>5. FreeShape' = FreeShape
  BY <1>1 DEF FreeShape, FirstIsTaken
<1> QED
  BY <1>1, <1>2, <1>3, <1>4, <1>5 DEF PCBQueues!vars

\* The pointers of every list spell out a queue: whatever the handlers do, in
\* whatever order, and however often sys_exit inserts a PCB twice.
THEOREM PointersMakeQueues == Spec => []PCBInv
<1>1. Init => PCBInv
  BY InitStep, Zenon
<1>2. PCBInv /\ [Next]_vars => PCBInv'
  BY NextStep, Stutters, Zenon
<1> QED
  BY <1>1, <1>2, PTL DEF Spec

LEMMA RingRead ==
  ASSUME NEW s, s.next = h.next, s.prev = h.prev, NEW head, NEW q, Ring(s, head, q), Walk(head) = q
  PROVE  IsRing(head)
<1>1. /\ q \in Queue
      /\ \A i \in 0 .. Len(q) : h.next[At(head, q, i)] = At(head, q, i + 1)
                              /\ h.prev[At(head, q, i + 1)] = At(head, q, i)
  BY DEF Ring
<1>2. Len(q) \in Nat /\ DOMAIN q = 1 .. Len(q)
  BY <1>1, QueueType
<1>3. PICK at : at = [i \in 0 .. Len(q) + 1 |-> IF i \in DOMAIN q THEN q[i] ELSE head]
  OBVIOUS
<1>4. \A i \in 0 .. Len(q) + 1 : at[i] = At(head, q, i)
  BY <1>2, <1>3 DEF At
<1>5. \A i \in 0 .. Len(q) : i \in 0 .. Len(q) + 1 /\ i + 1 \in 0 .. Len(q) + 1
  BY <1>2
<1>6. \A i \in 0 .. Len(q) : h.next[at[i]] = at[i + 1] /\ h.prev[at[i + 1]] = at[i]
  BY <1>1, <1>4, <1>5
<1> QED
  BY <1>3, <1>6 DEF IsRing

LEMMA InvRings ==
  ASSUME PCBInv
  PROVE  LiveQueuesAreRings
<1>1. PICK s : s = [h EXCEPT !.fault = FALSE]
  OBVIOUS
<1>2. s.next = h.next /\ s.prev = h.prev
  BY <1>1 DEF PCBInv, Links
<1>3. PICK fq, shape, rq, wq : Fits(s, alive, estado, current, fq, shape, rq, wq)
  BY <1>1 DEF PCBInv
<1>4. /\ Queues(s, alive, estado, fq, shape, rq, wq)
      /\ current \in alive \ (Members(rq) \cup Members(wq))
  BY <1>3 DEF Fits
<1>5. /\ Ring(s, READYQ, rq) /\ Ring(s, WAITQ, wq) /\ Members(rq) \cap Members(wq) = {}
      /\ \A t \in alive \ (Members(rq) \cup Members(wq)) : Loose(s, t)
  BY <1>4 DEF Queues, Live, Pair
<1>6. Walk(READYQ) = rq /\ Walk(WAITQ) = wq
  BY <1>2, <1>4, Reads
<1>7. IsRing(READYQ) /\ IsRing(WAITQ)
  BY <1>2, <1>5, <1>6, RingRead, Zenon
<1>8. \A i \in DOMAIN rq : \A j \in DOMAIN wq : rq[i] # wq[j]
  BY <1>5 DEF Members
<1>9. h.next[current] = NULL /\ h.prev[current] = NULL
  BY <1>2, <1>4, <1>5 DEF Loose
<1> QED
  BY <1>6, <1>7, <1>8, <1>9 DEF LiveQueuesAreRings

\* The ready queue and the wait queue stay rings that share no PCB, and the
\* running PCB is in none, while sys_exit ruins the free list beside them.
THEOREM RingsStay == Spec => []LiveQueuesAreRings
<1>1. PCBInv => LiveQueuesAreRings
  BY InvRings, Zenon
<1> QED
  BY <1>1, PointersMakeQueues, PTL

\* What list.c and the handlers do with pointers is what PCBQueues says of the
\* queues: every step of theirs is one of its steps.
THEOREM PointersImplementQueues == Spec => ImplementsQueues
<1>1. Init => PCBQueues!Init
  BY InitStep, Zenon
<1>2. PCBInv /\ [Next]_vars => [PCBQueues!Next]_(PCBQueues!vars)
  BY NextStep, Stutters, Zenon
<1> QED
  BY <1>1, <1>2, PointersMakeQueues, PTL DEF Spec, ImplementsQueues, PCBQueues!Spec

=============================================================================
