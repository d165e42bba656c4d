----------------------------- MODULE KeyBuffer -----------------------------
(***************************************************************************)
(* The ring buffer of cirBuffer.c with the characters in it, written by    *)
(* the keyboard interrupt and read by sys_read_keyboard, which reads only  *)
(* what cirBuffLenght says is there; compared with BoundedQueue.  That the *)
(* first key delivered halts the kernel (ReadReturns) is left aside here.  *)
(***************************************************************************)
EXTENDS CirBuffer, Sequences

CONSTANTS
  Keys,
  NoKey,        \* what a byte of the buffer is before it is written
  MaxReadPos    \* bound: reads are followed up to this position

ASSUME KeyBufferAssumption == NoKey \notin Keys /\ MaxReadPos \in Nat

VARIABLES
  keyboardBuff,   \* the positions and the full flag
  buffer,         \* the characters
  got             \* what cirBuffRead returned last

bufferVars == <<keyboardBuff, buffer, got>>

BufferInit ==
  /\ keyboardBuff = EmptyCirBuffer
  /\ buffer = [i \in 0 .. CIRBUFFER_SIZE - 1 |-> NoKey]
  /\ got = NoKey

Write(key) ==
  /\ keyboardBuff' = cirBuffWrite(keyboardBuff)
  /\ buffer' = IF keyboardBuff.full THEN buffer ELSE [buffer EXCEPT ![keyboardBuff.writePos] = key]
  /\ UNCHANGED got

\* Behind the end of buffer[] there is anything.
Read ==
  /\ cirBuffLenght(keyboardBuff) > 0
  /\ keyboardBuff.readPos < MaxReadPos
  /\ keyboardBuff' = cirBuffRead(keyboardBuff)
  /\ \/ keyboardBuff.readPos < CIRBUFFER_SIZE /\ got' = buffer[keyboardBuff.readPos]
     \/ keyboardBuff.readPos >= CIRBUFFER_SIZE /\ got' \in Keys \cup {NoKey}
  /\ UNCHANGED buffer

-----------------------------------------------------------------------------
\* The keys in the buffer, oldest first.
Contents ==
  [i \in 1 .. cirBuffLenght(keyboardBuff) |->
     buffer[(keyboardBuff.readPos + i - 1) % CIRBUFFER_SIZE]]

Queue == INSTANCE BoundedQueue WITH queue <- Contents, Capacity <- CIRBUFFER_SIZE

\* The read position is in the buffer, and no read has found the buffer full:
\* that leaves the flag set.
FirstLap ==
  /\ keyboardBuff.readPos < CIRBUFFER_SIZE
  /\ keyboardBuff.full => keyboardBuff.readPos = keyboardBuff.writePos

\* Up to the first read of a full buffer, and to the end of the first lap, the
\* positions, the flag and the array behave as a bounded queue, whatever the
\* order of keys and reads: no key is lost, doubled or overtaken.
FirstLapIsQueue ==
  Queue!Init /\ [][FirstLap /\ FirstLap' => [Queue!Next]_(Queue!vars)]_bufferVars

\* What the documentation asks for: the same for ever.
AlwaysQueue == [][[Queue!Next]_(Queue!vars)]_bufferVars

=============================================================================
