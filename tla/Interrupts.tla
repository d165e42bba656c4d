----------------------------- MODULE Interrupts -----------------------------
(***************************************************************************)
(* interrupt.c and devices.c: the clock interrupt, the keyboard interrupt  *)
(* and read() from the keyboard.                                           *)
(*                                                                         *)
(* A process blocked in sys_read_keyboard sleeps inside the kernel: when   *)
(* it is given the CPU, the same handler step goes on in its loop.  There  *)
(* the first key it takes goes through copy_to_user(key, ...), which uses  *)
(* the character as an address, in page 0: the kernel halts.               *)
(***************************************************************************)
EXTENDS Sched, CirBuffer

CONSTANTS
  ReadSizes,   \* the sizes passed to read()
  MinQLeft     \* bound: where the model stops counting qLeft down below zero

ASSUME InterruptsAssumption == ReadSizes \subseteq Nat /\ MinQLeft \in Int

VARIABLES
  keyboardqueue,   \* PCBs blocked in a read
  missingKeys,     \* requiredKeys - readKeys of the read a PCB sleeps in; -1: in none
  keyboardBuff     \* the positions of the ring buffer

kbVars == <<keyboardqueue, missingKeys, keyboardBuff>>

\* Nobody reads yet, but keys may have been pressed since enable_int: the
\* buffer is empty or holds what some writes left in it.
KeyboardInit ==
  /\ keyboardqueue = <<>>
  /\ missingKeys = [t \in Tasks |-> -1]
  /\ keyboardBuff \in [writePos : 0 .. CIRBUFFER_SIZE - 1, readPos : {0}, full : BOOLEAN]
  /\ keyboardBuff.full => keyboardBuff.writePos = 0

\* The loop of sys_read_keyboard has keys to copy, or a full buffer to empty.
EnoughKeys(b, n) == cirBuffLenght(b) >= n \/ cirBuffFull(b)

(***************************************************************************)
(* sched_next_rr and what the process it switches to still has to do in    *)
(* the kernel: a reader goes on in its loop; one that waits for 0 keys     *)
(* returns to user mode, any other takes a key.  That the keys are there   *)
(* whenever a reader is dispatched is ReadersWokenWithKeys, so the loop is *)
(* never seen to block a second time.                                      *)
(* mk is missingKeys with the handler's update.                            *)
(***************************************************************************)
Dispatch(rq, st, mk) ==
  LET next == NextTask(rq) IN
  /\ sched_next_rr(rq, st)
  /\ fault' = IF mk[next] > 0 THEN "pagefault" ELSE "none"
  /\ missingKeys' = IF mk[next] = 0 THEN [mk EXCEPT ![next] = -1] ELSE mk
  /\ keyboardBuff' = IF mk[next] > 0 THEN cirBuffRead(keyboardBuff) ELSE keyboardBuff

-----------------------------------------------------------------------------
(* clock_rutine: schedule().                                               *)

ClockTick ==
  /\ TurnGoesOn
  /\ qLeft' = qLeft - 1
  /\ UNCHANGED <<readyqueue, estado, current, fault, missingKeys, keyboardBuff>>

ClockRenew ==
  /\ TurnRenewed
  /\ qLeft' = get_quantum(current)
  /\ UNCHANGED <<readyqueue, estado, current, fault, missingKeys, keyboardBuff>>

\* The idle task is appended to the ready queue like any other.
ClockSwitch ==
  /\ TurnOver
  /\ Dispatch(Append(readyqueue, current), exitRunCurrent("READY"), missingKeys)

\* A turn that starts with 0 ticks never ends: qLeft runs below zero.
Clock ==
  /\ KernelRuns /\ qLeft > MinQLeft
  /\ ClockTick \/ ClockRenew \/ ClockSwitch
  /\ UNCHANGED <<freequeue, freelinks, PID, quantum, keyboardqueue>>

-----------------------------------------------------------------------------
(* keyboard_rutine, for a key pressed; a key released does nothing.        *)

FirstReader == Head(keyboardqueue)

\* Variant: any key wakes the reader.
KeyWakes_AnyKey(b) == keyboardqueue # <<>>

KeyWakes(b) == keyboardqueue # <<>> /\ EnoughKeys(b, missingKeys[FirstReader])

Key ==
  /\ KernelRuns
  /\ keyboardBuff' = cirBuffWrite(keyboardBuff)
  /\ \/ /\ KeyWakes(keyboardBuff')
        /\ keyboardqueue' = Tail(keyboardqueue)
        /\ readyqueue' = Append(readyqueue, FirstReader)
        /\ estado' = [estado EXCEPT ![FirstReader] = "READY"]
     \/ /\ ~KeyWakes(keyboardBuff')
        /\ UNCHANGED <<keyboardqueue, readyqueue, estado>>
  /\ UNCHANGED <<freequeue, freelinks, PID, quantum, current, qLeft, fault, missingKeys>>

-----------------------------------------------------------------------------
(* sys_read_keyboard, the arguments being valid.                           *)

\* Somebody is waiting: queue behind them, whatever is in the buffer.
ReadBehindOthers(n) ==
  /\ keyboardqueue # <<>>
  /\ keyboardqueue' = Append(keyboardqueue, current)
  /\ Dispatch(readyqueue, exitRunCurrent("BLOCKED"), [missingKeys EXCEPT ![current] = n])

\* Nobody is, and the buffer has what is asked for, or is full: take a key.
ReadAtOnce(n) ==
  /\ keyboardqueue = <<>> /\ n > 0 /\ EnoughKeys(keyboardBuff, n)
  /\ keyboardBuff' = cirBuffRead(keyboardBuff)
  /\ fault' = "pagefault"
  /\ UNCHANGED <<readyqueue, estado, current, qLeft, keyboardqueue, missingKeys>>

ReadBlocks(n) ==
  /\ keyboardqueue = <<>> /\ ~EnoughKeys(keyboardBuff, n)
  /\ keyboardqueue' = <<current>> \o keyboardqueue
  /\ Dispatch(readyqueue, exitRunCurrent("BLOCKED"), [missingKeys EXCEPT ![current] = n])

Read(n) ==
  /\ InUserProcess
  /\ ReadBehindOthers(n) \/ ReadAtOnce(n) \/ ReadBlocks(n)
  /\ UNCHANGED <<freequeue, freelinks, PID, quantum>>

KeyboardTypeOK ==
  /\ keyboardqueue \in Seq(Tasks)
  /\ missingKeys \in [Tasks -> Nat \cup {-1}]
  /\ keyboardBuff \in [writePos : 0 .. CIRBUFFER_SIZE - 1, readPos : Nat, full : BOOLEAN]

=============================================================================
