----------------------------- MODULE UserCopies -----------------------------
(***************************************************************************)
(* get_stats and write from the checks of their parameters to the copies   *)
(* they ask for, in one memory: the pages of the kernel, which hold the    *)
(* counters of a PCB and the buffer of sys_write, and those of the         *)
(* program.  A behaviour is one call: the checks keep nothing.             *)
(***************************************************************************)
EXTENDS UserMemory, CopyData, Sequences

CONSTANTS
  Content,        \* what the memory holds before
  KernelStats,    \* &task[i].task.estadisticas
  KernelBuffer,   \* buff, on the kernel's stack
  TAMWRITE,
  QLeft           \* a byte of qLeft

KernelBytes == PAGE_SIZE .. USER_FIRST_PAGE * PAGE_SIZE - 1     \* page 0 is not mapped
MappedBytes == PAGE_SIZE .. EndOfUser * PAGE_SIZE - 1

ASSUME UserCopiesAssumption ==
  /\ Size = Word /\ Content \in [Cells -> 0 .. 255] /\ QLeft \in 0 .. 255
  /\ TAMWRITE \in Nat \ {0} /\ StatsSize > 4 /\ KernelStats \in Nat /\ KernelBuffer \in Nat
  /\ Area(KernelStats, StatsSize) \cup Area(KernelBuffer, TAMWRITE) \subseteq KernelBytes
  /\ Area(KernelStats, StatsSize) \cap Area(KernelBuffer, TAMWRITE) = {}

VARIABLES
  call,      \* none yet; write or get_stats, copying; over
  left,      \* size in sys_write
  printed    \* the bytes sys_write_console was given

callVars == <<answer, asked, touched>>
userVars == <<vars, callVars, call, left, printed>>

UserInit ==
  /\ answer = 0 /\ asked = {} /\ touched = {}
  /\ call = "none" /\ left = 0 /\ printed = <<>>
  /\ mem = Content /\ before = Content
  /\ from = KernelStats /\ to = KernelBuffer /\ count = 0
  /\ p = from /\ q = to /\ size = 0

\* A copy routine is called.
Begin(f, t, n) ==
  /\ mem' = mem /\ before' = mem
  /\ from' = f /\ to' = t /\ count' = n
  /\ p' = f /\ q' = t /\ size' = n

-----------------------------------------------------------------------------
Over == call' = "over" /\ UNCHANGED <<vars, left, printed>>

\* The copy meets no page that is not mapped: the page fault handler does not
\* return.
Reachable(a, n) == Area(a, n) \subseteq MappedBytes

Piece(n) == IF n >= TAMWRITE THEN TAMWRITE ELSE n

EnterStats(found, pid, st) ==
  /\ sys_get_stats(found, pid, st)
  /\ \/ answer' # 0 /\ Over
     \/ /\ answer' = 0 /\ Reachable(st, StatsSize)
        /\ call' = "get_stats" /\ Begin(KernelStats, st, StatsSize)
        /\ UNCHANGED <<left, printed>>

EnterWrite(fd, buffer, n) ==
  /\ sys_write(fd, buffer, n)
  /\ \/ (answer' # 0 \/ n = 0) /\ Over
     \/ /\ answer' = 0 /\ n > 0 /\ Reachable(buffer, n)
        /\ call' = "write" /\ left' = n /\ UNCHANGED printed
        /\ Begin(buffer, KernelBuffer, Piece(n))

Enter ==
  /\ call = "none"
  /\ \E a \in Pointers :
       \/ \E fd \in 0 .. 2, n \in Counts : EnterWrite(fd, a, n) \/ (sys_read(fd, a, n) /\ Over)
       \/ \E found \in BOOLEAN, pid \in {-1, 1} : EnterStats(found, pid, a)
       \/ \E b \in Pointers : sys_clone(a, b) /\ Over

Turn == Next /\ UNCHANGED <<callVars, call, left, printed>>

\* Variant: the last piece is taken from where the one before was.
Advanced_Not(n) == from

Advanced(n) == from + n

\* A piece is in buff: it is printed; after a whole one there is another, that
\* may be empty.
PrintPiece ==
  /\ call = "write" /\ size = 0
  /\ printed' = printed \o [i \in 1 .. count |-> mem[KernelBuffer + i - 1]]
  /\ left' = left - count
  /\ \/ /\ count = TAMWRITE /\ call' = call
        /\ Begin(Advanced(count), KernelBuffer, Piece(left'))
     \/ count < TAMWRITE /\ call' = "over" /\ UNCHANGED vars
  /\ UNCHANGED callVars

\* The last word of the struct is remaining_ticks, which is qLeft for everybody.
SetRemaining ==
  /\ call = "get_stats" /\ size = 0 /\ call' = "over"
  /\ mem' = [a \in Cells |-> IF a \in Area(to + StatsSize - 4, 4) THEN QLeft ELSE mem[a]]
  /\ before' = mem' /\ count' = 0 /\ p' = from /\ q' = to
  /\ UNCHANGED <<from, to, size, callVars, left, printed>>

UserNext == Enter \/ Turn \/ PrintPiece \/ SetRemaining

\* The handler goes on; the program need not call.
UserSpec == UserInit /\ [][UserNext]_userVars /\ WF_userVars(Turn \/ PrintPiece \/ SetRemaining)

-----------------------------------------------------------------------------
\* The block asked about.
Asked(type) == CHOOSE b \in asked : b[1] = type

\* Whatever pointers and sizes a program passes, these calls write to the
\* kernel's memory nowhere but in the buffer of sys_write.
KernelKept ==
  \A a \in KernelBytes \ Area(KernelBuffer, TAMWRITE) : mem[a] = Content[a]

\* What write prints is the user's buffer, every byte once and in its order,
\* however its size falls into pieces and words, unless that buffer takes in a
\* part of the kernel's own, which write does not ask.
TextPrinted ==
  printed # <<>> /\ call = "over" =>
    LET b == Asked("VERIFY_READ")
    IN  Area(b[2], b[3]) \cap Area(KernelBuffer, TAMWRITE) = {} =>
          printed = [i \in 1 .. b[3] |-> Content[b[2] + i - 1]]

\* The copy that is under way, or was the last, is between two areas.
Separate == Area(from, count) \cap Area(to, count) = {}

\* get_stats copies exactly what it asks for, whatever it is passed: its test
\* of the address keeps the two areas apart.  A piece of write comes over
\* exactly where the program's buffer and the kernel's are apart.
CallsExact == to # KernelBuffer \/ Separate => CopyExact

\* A call whose blocks can be reached comes to its end.
CallsEnd == (call \in {"write", "get_stats"}) ~> (call = "over")

=============================================================================
