------------------------------ MODULE CirBuffer ------------------------------
(***************************************************************************)
(* cirBuffer.c: the keyboard's ring buffer, as operators on a record of    *)
(* its two positions and the full flag.  The characters are left out: what *)
(* a key is never decides anything.                                        *)
(***************************************************************************)
EXTENDS Integers

CONSTANT CIRBUFFER_SIZE
ASSUME CirBufferAssumption == CIRBUFFER_SIZE \in Nat \ {0}

EmptyCirBuffer == [writePos |-> 0, readPos |-> 0, full |-> FALSE]

\* Variant: the position wraps one step late.
Wrapped_Late(w) == IF w > CIRBUFFER_SIZE THEN 0 ELSE w

Wrapped(w) == IF w >= CIRBUFFER_SIZE THEN 0 ELSE w

cirBuffWrite(b) ==
  LET w == Wrapped(b.writePos + 1)
  IN  IF b.full THEN b ELSE [b EXCEPT !.writePos = w, !.full = (w = b.readPos)]

\* The read position is never wrapped.
cirBuffRead(b) ==
  LET r == b.readPos + 1
  IN  [b EXCEPT !.readPos = r, !.full = IF r = b.writePos THEN FALSE ELSE b.full]

cirBuffFull(b) == b.full

\* Variant: one too few once the write position has wrapped.
cirBuffLenght_OneLess(b) ==
  CASE b.writePos > b.readPos -> b.writePos - b.readPos
    [] b.writePos = b.readPos -> IF b.full THEN CIRBUFFER_SIZE ELSE 0
    [] OTHER -> CIRBUFFER_SIZE - 1 - b.readPos + b.writePos

cirBuffLenght(b) ==
  CASE b.writePos > b.readPos -> b.writePos - b.readPos
    [] b.writePos = b.readPos -> IF b.full THEN CIRBUFFER_SIZE ELSE 0
    [] OTHER -> CIRBUFFER_SIZE - b.readPos + b.writePos

=============================================================================
