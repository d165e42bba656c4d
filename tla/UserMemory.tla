----------------------------- MODULE UserMemory -----------------------------
(***************************************************************************)
(* What the kernel checks of the parameters a system call gets from a      *)
(* program before it touches the program's memory: access_ok, check_fd,    *)
(* and the order of the checks in read, write, get_stats and clone.        *)
(***************************************************************************)
EXTENDS Integers

CONSTANTS
  PAGE_SIZE,
  USER_FIRST_PAGE, NUM_PAG_CODE, NUM_PAG_DATA,   \* mm_address.h
  Word,        \* addresses are unsigned longs: arithmetic modulo Word
  StatsSize,   \* sizeof(struct stats)
  Counts       \* sizes passed to read and write

ASSUME UserMemoryAssumption ==
  /\ PAGE_SIZE \in Nat \ {0} /\ USER_FIRST_PAGE \in Nat \ {0}
  /\ NUM_PAG_CODE \in Nat \ {0} /\ NUM_PAG_DATA \in Nat \ {0}
  /\ (USER_FIRST_PAGE + NUM_PAG_CODE + NUM_PAG_DATA + 1) * PAGE_SIZE <= Word \div 2
  /\ StatsSize \in 1 .. Word \div 2
  /\ Counts \subseteq Int /\ \A n \in Counts : -(Word \div 2) <= n /\ n < Word \div 2     \* an int

Pointers  == 0 .. Word - 1
NULL      == 0
FirstData == USER_FIRST_PAGE + NUM_PAG_CODE
EndOfUser == FirstData + NUM_PAG_DATA        \* the page after the last one

ESRCH == 3  EBADF == 9  EACCES == 13  EFAULT == 14  EINVAL == 22

Page(a) == a \div PAGE_SIZE

\* The page of the first byte, and of the one after the last.
Ini(addr)       == Page(addr)
Fin(addr, size) == Page((addr + size) % Word)

\* Variant: the block may not end where the user's pages end.
EndsInUser_Strict(addr, size) == Fin(addr, size) < EndOfUser

EndsInUser(addr, size) == Fin(addr, size) <= EndOfUser

\* Variant: a block may begin anywhere.
access_ok_FromAnywhere(type, addr, size) == Fin(addr, size) >= Ini(addr) /\ EndsInUser(addr, size)

\* Variant: no test for a sum beyond the last address.
access_ok_NoOverflow(type, addr, size) ==
  \/ type = "VERIFY_WRITE" /\ Ini(addr) >= FirstData /\ EndsInUser(addr, size)
  \/ Ini(addr) >= USER_FIRST_PAGE /\ EndsInUser(addr, size)

\* A block refused for writing goes on to the test for reading.
access_ok(type, addr, size) ==
  /\ Fin(addr, size) >= Ini(addr)
  /\ \/ type = "VERIFY_WRITE" /\ Ini(addr) >= FirstData /\ EndsInUser(addr, size)
     \/ Ini(addr) >= USER_FIRST_PAGE /\ EndsInUser(addr, size)

check_fd(fd, permissions) ==
  CASE fd \notin {0, 1} -> -EBADF
    [] fd = 1 /\ permissions # "ESCRIPTURA" -> -EACCES
    [] fd = 0 /\ permissions # "LECTURA" -> -EACCES
    [] OTHER -> 0

-----------------------------------------------------------------------------
VARIABLES
  answer,    \* an error, or 0 when the call goes on
  asked,     \* the blocks <<type, addr, size>> the program passed
  touched    \* those the kernel goes on to use

\* The call is about the blocks bs; it fails with code, or goes on.
Answered(bs, code) ==
  /\ answer' = code
  /\ asked' = bs
  /\ touched' = IF code = 0 THEN bs ELSE {}

sys_read(fd, buf, count) ==
  Answered({<<"VERIFY_WRITE", buf, count>>},
    CASE buf = NULL -> -EFAULT
      [] buf # NULL /\ count < 0 -> -EINVAL
      [] buf # NULL /\ count >= 0 /\ check_fd(fd, "LECTURA") < 0 -> -EBADF
      [] buf # NULL /\ count >= 0 /\ check_fd(fd, "LECTURA") = 0 ->
           IF access_ok("VERIFY_WRITE", buf, count) THEN 0 ELSE -EFAULT)

\* write asks no access_ok.
sys_write(fd, buffer, size) ==
  Answered({<<"VERIFY_READ", buffer, size>>},
    LET bad == check_fd(fd, "ESCRIPTURA")
    IN  IF bad # 0 THEN bad
        ELSE IF buffer = NULL THEN -EFAULT ELSE IF size < 0 THEN -EINVAL ELSE 0)

sys_get_stats(found, pid, st) ==
  Answered({<<"VERIFY_WRITE", st, StatsSize>>},
    IF pid < 0 THEN -EINVAL
    ELSE IF ~access_ok("VERIFY_WRITE", st, StatsSize) THEN -EFAULT
    ELSE IF found THEN 0 ELSE -ESRCH)

\* Up to the look at the free list: a word of the stack, a word of code.
sys_clone(function, stack) ==
  Answered({<<"VERIFY_WRITE", stack, 4>>, <<"VERIFY_READ", function, 4>>},
    IF access_ok("VERIFY_WRITE", stack, 4) /\ access_ok("VERIFY_READ", function, 4)
    THEN 0 ELSE -EFAULT)

-----------------------------------------------------------------------------
\* The pages a program may use in a way, by the layout of mm_address.h.
PagesFor(type) ==
  (IF type = "VERIFY_WRITE" THEN FirstData ELSE USER_FIRST_PAGE) .. EndOfUser - 1

Bytes(b) == b[2] .. b[2] + b[3] - 1

\* No program is refused memory of its own: where the call answers EFAULT, some
\* block has a byte outside of the pages it may use so, or none.  A block that
\* ends with the last page has its end in the page after it.
OwnMemoryAccepted ==
  answer = -EFAULT =>
    \E b \in asked : Bytes(b) = {} \/ \E x \in Bytes(b) : Page(x) \notin PagesFor(b[1])

\* What access_ok lets pass begins in the pages of the user and ends in them,
\* or in the one page after them: sums beyond the last address are noticed,
\* for every size an int can have.
WrittenNearby ==
  \A b \in touched : b[1] = "VERIFY_WRITE" =>
    \A x \in Bytes(b) : Page(x) \in USER_FIRST_PAGE .. EndOfUser

\* What the comment in access_ok says: code is not written.  The case for
\* writing falls through to the one for reading.
CodeNotWritten ==
  \A b \in touched : b[1] = "VERIFY_WRITE" => \A x \in Bytes(b) : Page(x) >= FirstData

=============================================================================
