------------------------------ MODULE CopyData ------------------------------
(***************************************************************************)
(* copy_data, copy_from_user and copy_to_user (utils.c), three times the   *)
(* same two loops: words of four bytes first, the rest byte by byte.  One  *)
(* step is one turn of a loop.  In Spec the routines are given two areas   *)
(* that do not overlap, as fork and the boot give them: a PCB and another, *)
(* a page and another frame.  Module UserCopies has the callers that pass  *)
(* on what a program gives them.                                           *)
(***************************************************************************)
EXTENDS Integers

CONSTANT Size      \* of the memory

ASSUME CopyDataAssumption == Size \in Nat

Cells == 0 .. Size - 1

VARIABLES
  mem,
  before,            \* history: the memory when the routine was called
  from, to, count,   \* the parameters
  p, q, size         \* the pointers the loops move, and what is left

params == <<before, from, to, count>>
vars   == <<mem, params, p, q, size>>

Area(a, n) == a .. a + n - 1

Init ==
  /\ before \in [Cells -> 0 .. 255] /\ mem = before
  /\ from \in Cells /\ to \in Cells /\ count \in 0 .. Size
  /\ Area(from, count) \subseteq Cells /\ Area(to, count) \subseteq Cells
  /\ Area(from, count) \cap Area(to, count) = {}
  /\ p = from /\ q = to /\ size = count

\* n bytes are read, then written.
Moved(n) == [a \in Cells |-> IF a \in Area(q, n) THEN mem[p + (a - q)] ELSE mem[a]]

\* Variant: the loop over words goes on while anything is left.
MoreWords_Any == size > 0

MoreWords == size > 4

CopyWord ==
  /\ MoreWords
  /\ mem' = Moved(4)
  /\ p' = p + 4 /\ q' = q + 4 /\ size' = size - 4
  /\ UNCHANGED params

\* Variant: the last byte is left.
CopyByte_NotLast ==
  /\ ~MoreWords /\ size > 1
  /\ mem' = Moved(1)
  /\ p' = p + 1 /\ q' = q + 1 /\ size' = size - 1
  /\ UNCHANGED params

CopyByte ==
  /\ ~MoreWords /\ size > 0
  /\ mem' = Moved(1)
  /\ p' = p + 1 /\ q' = q + 1 /\ size' = size - 1
  /\ UNCHANGED params

Next == CopyWord \/ CopyByte
Spec == Init /\ [][Next]_vars

Copied ==
  [a \in Cells |-> IF a \in Area(to, count) THEN before[from + (a - to)] ELSE before[a]]

\* When the loops are through, count bytes have come over as they were, and no
\* byte before or behind the destination has changed: no word is written over
\* the end, and none of the last four bytes is left out.
CopyExact == size <= 0 => mem = Copied

\* What holds in the middle of it: the bytes passed have come over.
CopyInv ==
  /\ before \in [Cells -> 0 .. 255]
  /\ mem = [a \in Cells |-> IF a \in Area(to, count - size) THEN before[from + (a - to)] ELSE before[a]]
  /\ size \in 0 .. count
  /\ p = from + (count - size) /\ q = to + (count - size)
  /\ from \in Cells /\ to \in Cells /\ count \in 0 .. Size
  /\ Area(from, count) \subseteq Cells /\ Area(to, count) \subseteq Cells
  /\ Area(from, count) \cap Area(to, count) = {}

=============================================================================
