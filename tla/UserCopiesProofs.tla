-------------------------- MODULE UserCopiesProofs --------------------------
(***************************************************************************)
(* The copy loops of utils.c for memories of every size; the checks of the *)
(* blocks a program passes, for every layout of the pages and every width  *)
(* of an address; and the two calls that go from the checks to the copies: *)
(* they change nothing of the kernel's, and print what they were given.    *)
(***************************************************************************)
EXTENDS UserCopies, TLAPS, SequenceTheorems

-----------------------------------------------------------------------------
(* The copy loops.                                                         *)

\* The loops start with nothing copied.
LEMMA CopyStart == Init => CopyInv
<1> SUFFICES ASSUME Init PROVE CopyInv
  OBVIOUS
<1>1. size = count /\ count \in Nat /\ to \in Nat /\ from \in Nat /\ Size \in Nat
  BY CopyDataAssumption DEF Init, Cells
<1>2. count - size = 0 /\ p = from + (count - size) /\ q = to + (count - size) /\ size \in 0 .. count
  BY <1>1 DEF Init
<1>3. Area(to, 0) = {}
  BY <1>1 DEF Area
<1>4. mem = [a \in Cells |-> before[a]]
  BY CopyDataAssumption DEF Init
<1>5. mem = [a \in Cells |-> IF a \in Area(to, count - size)
                                THEN before[from + (a - to)] ELSE before[a]]
  BY <1>2, <1>3, <1>4
<1> QED
  BY <1>2, <1>5 DEF Init, CopyInv

\* A turn of either loop, moving n bytes: the source lies outside of what has
\* been written.
LEMMA CopyTurn ==
  ASSUME CopyInv, NEW n \in Nat \ {0}, n <= size,
         mem' = Moved(n), p' = p + n, q' = q + n, size' = size - n, UNCHANGED params
  PROVE  CopyInv'
<1> DEFINE done == count - size
<1> USE CopyDataAssumption DEF Area, Cells
<1>1. /\ size \in Nat /\ count \in Nat /\ from \in Nat /\ to \in Nat /\ Size \in Nat
      /\ size <= count /\ done \in Nat /\ count' - size' = done + n
      /\ before' = before /\ from' = from /\ to' = to /\ count' = count
  BY DEF CopyInv, params
<1>2. ASSUME NEW a \in Cells
      PROVE  mem'[a] = IF a \in Area(to, done + n) THEN before[from + (a - to)] ELSE before[a]
  <2>1. CASE a \in Area(q, n)
    <3> DEFINE b == p + (a - q)
    <3>1. a \in Area(to, count) /\ b \in Area(from, count) /\ b = from + (a - to)
      BY <1>1, <2>1 DEF CopyInv
    <3>2. b \in Cells /\ b \notin Area(to, count)
      BY <3>1 DEF CopyInv
    <3>3. b \notin Area(to, done)
      BY <1>1, <3>2
    <3>4. mem[b] = before[b]
      BY <3>2, <3>3 DEF CopyInv
    <3>5. mem'[a] = mem[b]
      BY <2>1 DEF Moved
    <3>6. a \in Area(to, done + n)
      BY <1>1, <2>1 DEF CopyInv
    <3> QED
      BY <3>1, <3>4, <3>5, <3>6
  <2>2. CASE a \notin Area(q, n)
    <3>1. mem'[a] = mem[a]
      BY <2>2 DEF Moved
    <3>2. a \in Area(to, done + n) <=> a \in Area(to, done)
      BY <1>1, <2>2 DEF CopyInv
    <3> QED
      BY <3>1, <3>2 DEF CopyInv
  <2> QED
    BY <2>1, <2>2
<1>3. mem' = [a \in Cells |-> IF a \in Area(to, done + n)
                                 THEN before[from + (a - to)] ELSE before[a]]
  <2>1. mem' = [a \in Cells |-> mem'[a]]
    BY DEF Moved
  <2> HIDE DEF done
  <2> QED
    BY <1>2, <2>1
<1>4. size' \in 0 .. count' /\ p' = from' + (count' - size') /\ q' = to' + (count' - size')
  BY <1>1 DEF CopyInv
<1> QED
  BY <1>1, <1>3, <1>4 DEF CopyInv

LEMMA CopyStep == CopyInv /\ [Next]_vars => CopyInv'
<1> SUFFICES ASSUME CopyInv, [Next]_vars PROVE CopyInv'
  OBVIOUS
<1>1. size \in Nat
  BY CopyDataAssumption DEF CopyInv
<1>2. CASE CopyWord
  BY <1>1, <1>2, CopyTurn DEF CopyWord, MoreWords
<1>3. CASE CopyByte
  BY <1>1, <1>3, CopyTurn DEF CopyByte
<1>4. CASE UNCHANGED vars
  BY <1>4 DEF vars, params, CopyInv
<1> QED
  BY <1>2, <1>3, <1>4 DEF Next

\* copy_data and its two copies copy exactly, for every size and every pair of
\* areas that do not overlap.
THEOREM CopiesExactly == Spec => []CopyExact
<1>1. CopyInv => CopyExact
  <2> SUFFICES ASSUME CopyInv, size <= 0 PROVE mem = Copied
    BY DEF CopyExact
  <2>1. size = 0 /\ count - size = count
    BY CopyDataAssumption DEF CopyInv
  <2> QED
    BY <2>1 DEF CopyInv, Copied
<1> QED
  BY <1>1, CopyStart, CopyStep, PTL DEF Spec

-----------------------------------------------------------------------------
(* The checks of blocks.                                                   *)

\* An address in a page from U on lies behind the pages before it.
LEMMA BehindPages ==
  ASSUME NEW a \in Nat, NEW P \in Nat \ {0}, NEW U \in Nat, U <= a \div P
  PROVE  U * P <= a
  BY SMTT(30)

LEMMA InPages ==
  ASSUME NEW a \in Nat, NEW P \in Nat \ {0}, NEW U \in Nat, U * P <= a
  PROVE  U <= a \div P
  BY SMTT(30)

\* Pages and the addresses in them.
LEMMA PageOf ==
  ASSUME NEW a \in Nat
  PROVE  /\ Page(a) \in Nat
         /\ \A u \in Nat : u <= Page(a) <=> u * PAGE_SIZE <= a
         /\ a < Page(a) * PAGE_SIZE + PAGE_SIZE /\ Page(a) * PAGE_SIZE <= a
         /\ \A b \in Nat : a <= b => Page(a) <= Page(b)
<1>1. PAGE_SIZE \in Nat \ {0}
  BY UserMemoryAssumption
<1>2. a \div PAGE_SIZE \in Nat
  BY <1>1, SMTT(30)
<1>3. ASSUME NEW u \in Nat PROVE u <= a \div PAGE_SIZE => u * PAGE_SIZE <= a
  BY <1>1, BehindPages
<1>4. ASSUME NEW u \in Nat PROVE u * PAGE_SIZE <= a => u <= a \div PAGE_SIZE
  BY <1>1, InPages
<1>5. a < (a \div PAGE_SIZE) * PAGE_SIZE + PAGE_SIZE /\ (a \div PAGE_SIZE) * PAGE_SIZE <= a
  BY <1>1, SMTT(30)
<1>6. ASSUME NEW b \in Nat, a <= b PROVE a \div PAGE_SIZE <= b \div PAGE_SIZE
  BY <1>1, <1>6, SMTT(30)
<1> QED
  BY <1>2, <1>3, <1>4, <1>5, <1>6 DEF Page

\* A sum of an address and a size wraps around once at most.
LEMMA SumWraps ==
  ASSUME NEW a \in Nat, a < 2 * Word
  PROVE  a % Word = IF a < Word THEN a ELSE a - Word
<1>1. Word \in Nat
  BY CopyDataAssumption, UserCopiesAssumption
<1>2. CASE a < Word
  BY <1>1, <1>2, SMTT(30)
<1>3. CASE Word <= a
  BY <1>1, <1>3, SMTT(30)
<1> QED
  BY <1>1, <1>2, <1>3

LEMMA LayoutPages ==
  /\ Word \in Nat /\ PAGE_SIZE \in Nat \ {0} /\ USER_FIRST_PAGE \in Nat \ {0}
  /\ FirstData \in Nat /\ EndOfUser \in Nat
  /\ USER_FIRST_PAGE < FirstData /\ FirstData < EndOfUser
<1>1. /\ Word \in Nat /\ PAGE_SIZE \in Nat \ {0} /\ USER_FIRST_PAGE \in Nat \ {0}
      /\ NUM_PAG_CODE \in Nat \ {0} /\ NUM_PAG_DATA \in Nat \ {0}
  BY CopyDataAssumption, UserCopiesAssumption, UserMemoryAssumption
<1> QED
  BY <1>1 DEF FirstData, EndOfUser

LEMMA Layout ==
  /\ Word \in Nat /\ PAGE_SIZE \in Nat \ {0} /\ USER_FIRST_PAGE \in Nat \ {0}
  /\ FirstData \in Nat /\ EndOfUser \in Nat
  /\ USER_FIRST_PAGE < FirstData /\ FirstData < EndOfUser
  /\ Word \div 2 \in Nat /\ (Word \div 2) + (Word \div 2) <= Word
  /\ EndOfUser * PAGE_SIZE \in Nat
  /\ EndOfUser * PAGE_SIZE + PAGE_SIZE <= Word \div 2
<1>1. /\ Word \in Nat /\ PAGE_SIZE \in Nat \ {0} /\ USER_FIRST_PAGE \in Nat \ {0}
      /\ NUM_PAG_CODE \in Nat \ {0} /\ NUM_PAG_DATA \in Nat \ {0}
  BY CopyDataAssumption, UserCopiesAssumption, UserMemoryAssumption
<1>2. /\ FirstData \in Nat /\ EndOfUser \in Nat
      /\ USER_FIRST_PAGE < FirstData /\ FirstData < EndOfUser
  BY <1>1 DEF FirstData, EndOfUser
<1>3. Word \div 2 \in Nat /\ (Word \div 2) + (Word \div 2) <= Word
  BY <1>1, SMTT(30)
<1>4. (EndOfUser + 1) * PAGE_SIZE <= Word \div 2
  BY <1>1, UserMemoryAssumption DEF FirstData, EndOfUser
<1>5. (EndOfUser + 1) * PAGE_SIZE = EndOfUser * PAGE_SIZE + PAGE_SIZE /\ EndOfUser * PAGE_SIZE \in Nat
  BY <1>1, <1>2, SMTT(30)
<1> QED
  BY <1>1, <1>2, <1>3, <1>4, <1>5

\* A block that is refused has a byte outside of the pages it may use.
LEMMA BlockRefused ==
  ASSUME NEW type \in {"VERIFY_READ", "VERIFY_WRITE"}, NEW addr \in Pointers,
         NEW n \in Nat \ {0}, ~access_ok(type, addr, n)
  PROVE  \E x \in addr .. addr + n - 1 : Page(x) \notin PagesFor(type)
<1> SUFFICES ASSUME \A x \in addr .. addr + n - 1 : Page(x) \in PagesFor(type)
             PROVE  FALSE
  OBVIOUS
<1>1. addr \in Nat /\ addr + n - 1 \in Nat /\ addr + n \in Nat
  BY Layout DEF Pointers
<1>2. addr \in addr .. addr + n - 1 /\ addr + n - 1 \in addr .. addr + n - 1
  BY <1>1
<1>3. Page(addr) \in PagesFor(type) /\ Page(addr + n - 1) \in PagesFor(type)
  BY <1>2
<1>4. /\ USER_FIRST_PAGE <= Page(addr) /\ (type = "VERIFY_WRITE" => FirstData <= Page(addr))
      /\ Page(addr + n - 1) \in Nat /\ Page(addr + n - 1) <= EndOfUser - 1
  <2>1. Page(addr) \in Nat /\ Page(addr + n - 1) \in Nat
    BY <1>1, PageOf
  <2> QED
    BY <1>3, <2>1, LayoutPages DEF PagesFor
<1>5. addr + n <= EndOfUser * PAGE_SIZE
  <2>1. ~(EndOfUser <= Page(addr + n - 1))
    BY <1>4, Layout
  <2>2. ~(EndOfUser * PAGE_SIZE <= addr + n - 1)
    BY <1>1, <2>1, PageOf, Layout
  <2> QED
    BY <1>1, <2>2, Layout
<1>6. (addr + n) % Word = addr + n
  <2>1. addr + n < Word /\ addr + n < 2 * Word
    BY <1>1, <1>5, Layout
  <2> QED
    BY <1>1, <2>1, SumWraps
<1>7. Page(addr) <= Page(addr + n) /\ Page(addr + n) <= EndOfUser
  <2>1. Page(addr) <= Page(addr + n)
    <3>1. addr <= addr + n
      BY <1>1
    <3> QED
      BY <1>1, <3>1, PageOf
  <2>2. CASE EndOfUser + 1 <= Page(addr + n)
    <3>1. (EndOfUser + 1) * PAGE_SIZE <= addr + n
      BY <1>1, <2>2, PageOf, Layout
    <3>2. (EndOfUser + 1) * PAGE_SIZE = EndOfUser * PAGE_SIZE + PAGE_SIZE
      BY Layout, SMTT(30)
    <3> QED
      BY <1>1, <1>5, <3>1, <3>2, Layout
  <2>3. Page(addr + n) \in Nat
    BY <1>1, PageOf
  <2> QED
    BY <2>1, <2>2, <2>3, Layout
<1>8. access_ok(type, addr, n)
  BY <1>4, <1>6, <1>7 DEF access_ok, Fin, Ini, EndsInUser
<1> QED
  BY <1>8

\* A block that passes lies in the pages of the user and the one behind them.
LEMMA BlockPassed ==
  ASSUME NEW type, NEW addr \in Pointers, NEW n \in Nat, n <= Word \div 2,
         access_ok(type, addr, n), NEW x \in addr .. addr + n - 1
  PROVE  x \in Nat /\ Page(x) \in USER_FIRST_PAGE .. EndOfUser
<1>1. addr \in Nat /\ addr < Word /\ x \in Nat /\ addr <= x /\ x < addr + n /\ addr + n \in Nat
  BY Layout DEF Pointers
<1>2. PICK e : e = (addr + n) % Word
  OBVIOUS
<1>3. e = IF addr + n < Word THEN addr + n ELSE addr + n - Word
  <2>1. addr + n < 2 * Word
    BY <1>1, Layout
  <2>2. (addr + n) % Word = IF addr + n < Word THEN addr + n ELSE (addr + n) - Word
    BY <1>1, <2>1, SumWraps
  <2> QED
    BY <1>1, <1>2, <2>2, LayoutPages
<1>4. e \in Nat
  BY <1>1, <1>3, Layout
<1>5. USER_FIRST_PAGE <= Page(addr) /\ Page(addr) <= Page(e) /\ Page(e) <= EndOfUser
  <2>1. Page(addr) \in Nat /\ Page(e) \in Nat
    BY <1>1, <1>4, PageOf
  <2>2. Page(e) >= Page(addr) /\ Page(e) <= EndOfUser
    BY <1>2 DEF access_ok, Ini, Fin, EndsInUser
  <2>3. Page(addr) >= FirstData \/ Page(addr) >= USER_FIRST_PAGE
    BY DEF access_ok, Ini
  <2> QED
    BY <2>1, <2>2, <2>3, LayoutPages
<1>6. addr + n < Word
  <2> SUFFICES ASSUME Word <= addr + n PROVE FALSE
    BY <1>1, Layout
  <2>1. e = addr + n - Word
    BY <1>1, <1>3, Layout
  <2>2. e < Page(e) * PAGE_SIZE + PAGE_SIZE /\ Page(e) * PAGE_SIZE <= e
    BY <1>4, PageOf
  <2>3. Page(addr) * PAGE_SIZE <= addr /\ addr < Page(addr) * PAGE_SIZE + PAGE_SIZE
    BY <1>1, PageOf
  <2>4. Page(e) = Page(addr)
    <3>1. e <= addr
      BY <1>1, <2>1, Layout
    <3>2. Page(e) <= Page(addr) /\ Page(e) \in Nat /\ Page(addr) \in Nat
      BY <1>1, <1>4, <3>1, PageOf
    <3> QED
      BY <1>5, <3>2
  <2>5. addr - e < PAGE_SIZE
    <3>1. PICK m \in Int : m = Page(addr) * PAGE_SIZE
      BY <1>1, PageOf, Layout
    <3> QED
      BY <1>1, <1>4, <2>2, <2>3, <2>4, <3>1, Layout
  <2>6. addr - e >= Word \div 2 /\ PAGE_SIZE <= Word \div 2
    BY <1>1, <2>1, Layout
  <2> QED
    BY <1>1, <1>4, <2>5, <2>6, Layout
<1>7. e = addr + n /\ x <= e
  BY <1>1, <1>3, <1>6
<1>8. Page(addr) <= Page(x) /\ Page(x) <= Page(e) /\ Page(x) \in Nat /\ Page(addr) \in Nat /\ Page(e) \in Nat
  BY <1>1, <1>4, <1>7, PageOf
<1> QED
  BY <1>1, <1>5, <1>8, Layout

ChecksInv == OwnMemoryAccepted /\ WrittenNearby

\* The sizes programs can pass.
LEMMA BlockSizes ==
  /\ \A n \in Counts : n \in Int /\ n <= Word \div 2
  /\ StatsSize \in Nat \ {0} /\ StatsSize <= Word \div 2 /\ 4 <= Word \div 2
<1>1. /\ Counts \subseteq Int /\ \A n \in Counts : n < Word \div 2
      /\ StatsSize \in 1 .. Word \div 2 /\ StatsSize > 4
  BY UserMemoryAssumption, UserCopiesAssumption
<1> QED
  BY <1>1, Layout

\* One block, checked as the calls check it.
LEMMA BlockChecked ==
  ASSUME NEW type \in {"VERIFY_READ", "VERIFY_WRITE"}, NEW addr \in Pointers, NEW n \in Int,
         n <= Word \div 2
  PROVE  /\ ~access_ok(type, addr, n) =>
              Bytes(<<type, addr, n>>) = {} \/
              \E x \in Bytes(<<type, addr, n>>) : Page(x) \notin PagesFor(<<type, addr, n>>[1])
         /\ access_ok(type, addr, n) =>
              \A x \in Bytes(<<type, addr, n>>) : Page(x) \in USER_FIRST_PAGE .. EndOfUser
<1>1. Bytes(<<type, addr, n>>) = addr .. addr + n - 1 /\ <<type, addr, n>>[1] = type
  BY DEF Bytes
<1>2. addr \in Nat
  BY Layout DEF Pointers
<1>3. CASE n <= 0
  <2>1. addr .. addr + n - 1 = {}
    BY <1>2, <1>3
  <2> QED
    BY <1>1, <2>1
<1>4. CASE n > 0
  <2>1. n \in Nat \ {0} /\ n \in Nat
    BY <1>4
  <2> QED
    BY <1>1, <2>1, BlockRefused, BlockPassed
<1> QED
  BY <1>3, <1>4

\* No page for programs is the one NULL points to.
LEMMA NullRefused ==
  ASSUME NEW type \in {"VERIFY_READ", "VERIFY_WRITE"}, NEW n \in Int
  PROVE  Bytes(<<type, NULL, n>>) = {} \/
         \E x \in Bytes(<<type, NULL, n>>) : Page(x) \notin PagesFor(<<type, NULL, n>>[1])
<1>1. Bytes(<<type, NULL, n>>) = 0 .. n - 1 /\ <<type, NULL, n>>[1] = type
  <2>1. 0 + n - 1 = n - 1
    OBVIOUS
  <2> QED
    BY <2>1 DEF Bytes, NULL
<1>2. Page(0) \notin PagesFor(type)
  <2>1. Page(0) \in Nat /\ Page(0) * PAGE_SIZE <= 0
    BY PageOf
  <2>2. ~(USER_FIRST_PAGE <= Page(0))
    <3>1. ~(USER_FIRST_PAGE * PAGE_SIZE <= 0)
      <4>1. USER_FIRST_PAGE \in Nat \ {0} /\ PAGE_SIZE \in Nat \ {0}
        BY LayoutPages
      <4> QED
        BY <4>1, SMTT(30)
    <3> QED
      BY <3>1, PageOf, LayoutPages
  <2> QED
    BY <2>1, <2>2, LayoutPages DEF PagesFor
<1>3. 0 .. n - 1 = {} \/ 0 \in 0 .. n - 1
  OBVIOUS
<1> QED
  BY <1>1, <1>2, <1>3

LEMMA ReadChecked ==
  ASSUME NEW fd, NEW a \in Pointers, NEW n \in Counts, sys_read(fd, a, n)
  PROVE  ChecksInv'
<1>1. n \in Int /\ n <= Word \div 2
  BY BlockSizes
<1>2. asked' = {<<"VERIFY_WRITE", a, n>>} /\ touched' = IF answer' = 0 THEN asked' ELSE {}
  BY DEF sys_read, Answered
<1>3. PICK bad : bad = check_fd(fd, "LECTURA")
  OBVIOUS
<1>4. bad \in {0, -EBADF, -EACCES}
  BY <1>3 DEF check_fd
<1>5. PICK ok \in BOOLEAN : ok <=> access_ok("VERIFY_WRITE", a, n)
  OBVIOUS
<1>6. answer' = CASE a = NULL -> -EFAULT
                  [] a # NULL /\ n < 0 -> -EINVAL
                  [] a # NULL /\ n >= 0 /\ bad < 0 -> -EBADF
                  [] a # NULL /\ n >= 0 /\ bad = 0 -> IF ok THEN 0 ELSE -EFAULT
  BY <1>3, <1>5 DEF sys_read, Answered
<1>7. (answer' = -EFAULT => a = NULL \/ ~ok) /\ (answer' = 0 => ok)
  BY <1>1, <1>4, <1>6 DEF EFAULT, EINVAL, EBADF, EACCES
<1>8. OwnMemoryAccepted'
  BY <1>1, <1>2, <1>5, <1>7, BlockChecked, NullRefused DEF OwnMemoryAccepted
<1>9. WrittenNearby'
  BY <1>1, <1>2, <1>5, <1>7, BlockChecked DEF WrittenNearby
<1> QED
  BY <1>8, <1>9 DEF ChecksInv

LEMMA WriteChecked ==
  ASSUME NEW fd, NEW a \in Pointers, NEW n \in Counts, sys_write(fd, a, n)
  PROVE  ChecksInv'
<1>1. n \in Int
  BY BlockSizes
<1>2. asked' = {<<"VERIFY_READ", a, n>>} /\ touched' \subseteq asked'
  BY DEF sys_write, Answered
<1>3. answer' = -EFAULT => a = NULL
  BY DEF sys_write, Answered, check_fd, EFAULT, EINVAL, EBADF, EACCES
<1>4. OwnMemoryAccepted'
  BY <1>1, <1>2, <1>3, NullRefused DEF OwnMemoryAccepted
<1>5. WrittenNearby'
  BY <1>2 DEF WrittenNearby
<1> QED
  BY <1>4, <1>5 DEF ChecksInv

LEMMA StatsChecked ==
  ASSUME NEW found, NEW pid, NEW a \in Pointers, sys_get_stats(found, pid, a)
  PROVE  ChecksInv'
<1>1. StatsSize \in Int /\ StatsSize <= Word \div 2
  BY BlockSizes
<1>2. asked' = {<<"VERIFY_WRITE", a, StatsSize>>} /\ touched' = IF answer' = 0 THEN asked' ELSE {}
  BY DEF sys_get_stats, Answered
<1>3. /\ answer' = -EFAULT => ~access_ok("VERIFY_WRITE", a, StatsSize)
      /\ answer' = 0 => access_ok("VERIFY_WRITE", a, StatsSize)
  BY DEF sys_get_stats, Answered, EFAULT, EINVAL, ESRCH
<1>4. OwnMemoryAccepted'
  BY <1>1, <1>2, <1>3, BlockChecked DEF OwnMemoryAccepted
<1>5. WrittenNearby'
  BY <1>1, <1>2, <1>3, BlockChecked DEF WrittenNearby
<1> QED
  BY <1>4, <1>5 DEF ChecksInv

LEMMA CloneChecked ==
  ASSUME NEW f \in Pointers, NEW s \in Pointers, sys_clone(f, s)
  PROVE  ChecksInv'
<1>1. 4 <= Word \div 2
  BY BlockSizes
<1>2. /\ asked' = {<<"VERIFY_WRITE", s, 4>>, <<"VERIFY_READ", f, 4>>}
      /\ touched' = IF answer' = 0 THEN asked' ELSE {}
  BY DEF sys_clone, Answered
<1>3. /\ answer' = -EFAULT => ~access_ok("VERIFY_WRITE", s, 4) \/ ~access_ok("VERIFY_READ", f, 4)
      /\ answer' = 0 => access_ok("VERIFY_WRITE", s, 4)
  BY DEF sys_clone, Answered, EFAULT
<1>4. OwnMemoryAccepted'
  BY <1>1, <1>2, <1>3, BlockChecked DEF OwnMemoryAccepted
<1>5. WrittenNearby'
  BY <1>1, <1>2, <1>3, BlockChecked DEF WrittenNearby
<1> QED
  BY <1>4, <1>5 DEF ChecksInv

LEMMA ChecksStart == UserInit => ChecksInv
  BY DEF UserInit, ChecksInv, OwnMemoryAccepted, WrittenNearby, EFAULT

LEMMA ChecksStep == ChecksInv /\ [UserNext]_userVars => ChecksInv'
<1> SUFFICES ASSUME ChecksInv, [UserNext]_userVars PROVE ChecksInv'
  OBVIOUS
<1>1. CASE Enter
  BY <1>1, ReadChecked, WriteChecked, StatsChecked, CloneChecked DEF Enter, EnterStats, EnterWrite
<1>2. CASE UNCHANGED callVars
  BY <1>2 DEF ChecksInv, OwnMemoryAccepted, WrittenNearby, callVars
<1> QED
  BY <1>1, <1>2 DEF UserNext, Turn, PrintPiece, SetRemaining, userVars

\* No program is refused memory of its own, wherever its pages lie and however
\* long its blocks are: what access_ok counts past the last page is allowed for.
THEOREM OwnMemoryIsAccepted == UserSpec => []OwnMemoryAccepted
<1>1. ChecksInv => OwnMemoryAccepted
  BY DEF ChecksInv
<1> QED
  BY <1>1, ChecksStart, ChecksStep, PTL DEF UserSpec

\* What access_ok lets pass for writing lies in the pages of the user and the one
\* behind them: a sum beyond the last address does not come round to the front.
THEOREM WritesStayNearby == UserSpec => []WrittenNearby
<1>1. ChecksInv => WrittenNearby
  BY DEF ChecksInv
<1> QED
  BY <1>1, ChecksStart, ChecksStep, PTL DEF UserSpec

-----------------------------------------------------------------------------
(* The kernel's memory.                                                    *)

USE DEF Cells, Area, KernelBytes

\* The bytes that are to stay as they are.
KeptBytes == KernelBytes \ Area(KernelBuffer, TAMWRITE)

\* Where a call may write while it copies: write in the kernel's buffer,
\* get_stats in the pages of the user; the loop is inside of its block.
KeptInv ==
  /\ size \in Nat /\ count \in Nat /\ to \in Nat /\ q \in Nat
  /\ to <= q /\ q + size = to + count
  /\ call \in {"none", "over"} => size = 0
  /\ call = "write" => to = KernelBuffer /\ left \in Nat /\ count = Piece(left)
  /\ call = "get_stats" => USER_FIRST_PAGE * PAGE_SIZE <= to
  /\ call \in {"none", "write", "get_stats", "over"}
  /\ KernelKept

-----------------------------------------------------------------------------
\* The kernel's pages lie in the memory.
LEMMA KernelInMemory == KernelBytes \subseteq Cells
<1> DEFINE pages == USER_FIRST_PAGE + NUM_PAG_CODE + NUM_PAG_DATA + 1
<1>1. Size = Word /\ Size \in Nat /\ pages \in Nat /\ PAGE_SIZE \in Nat
  BY CopyDataAssumption, UserCopiesAssumption, UserMemoryAssumption
<1>2. USER_FIRST_PAGE \in Nat /\ USER_FIRST_PAGE <= pages
  BY UserMemoryAssumption
<1>3. pages * PAGE_SIZE <= Word \div 2 /\ Word \div 2 <= Word
  BY <1>1, UserMemoryAssumption
<1>4. USER_FIRST_PAGE * PAGE_SIZE <= pages * PAGE_SIZE
  <2> HIDE DEF pages
  <2> QED BY <1>1, <1>2, SMTT(30)
<1> HIDE DEF pages
<1> QED
  BY <1>1, <1>2, <1>3, <1>4

\* What the check of get_stats lets pass begins behind the kernel.
LEMMA StatsBehindKernel ==
  ASSUME NEW found, NEW pid, NEW st \in Pointers,
         sys_get_stats(found, pid, st), answer' = 0
  PROVE  st \in Nat /\ USER_FIRST_PAGE * PAGE_SIZE <= st
<1>1. st \in Nat /\ Word \in Nat
  BY CopyDataAssumption, UserCopiesAssumption DEF Pointers
<1>2. access_ok("VERIFY_WRITE", st, StatsSize)
  BY DEF sys_get_stats, Answered, EINVAL, EFAULT, ESRCH
<1>3. USER_FIRST_PAGE <= st \div PAGE_SIZE
  BY <1>2, <1>1, UserMemoryAssumption DEF access_ok, Ini, Page, FirstData
<1> QED
  BY <1>1, <1>3, BehindPages, UserMemoryAssumption

LEMMA PieceSize ==
  ASSUME NEW n \in Nat
  PROVE  Piece(n) \in Nat /\ Piece(n) <= n /\ Piece(n) <= TAMWRITE
  BY UserCopiesAssumption DEF Piece

-----------------------------------------------------------------------------
LEMMA KeptStart == UserInit => KeptInv
  BY UserCopiesAssumption DEF UserInit, KeptInv, KernelKept

\* Over leaves the memory and the loops as they are.
LEMMA KeptOver == KeptInv /\ call = "none" /\ Over => KeptInv'
  BY DEF KeptInv, KernelKept, Over, vars, params

LEMMA KeptStats ==
  ASSUME KeptInv, call = "none", NEW found, NEW pid, NEW st \in Pointers,
         EnterStats(found, pid, st)
  PROVE  KeptInv'
<1>1. CASE answer' # 0
  BY <1>1, KeptOver DEF EnterStats
<1>2. CASE answer' = 0
  <2>1. call' = "get_stats" /\ Begin(KernelStats, st, StatsSize)
    BY <1>2 DEF EnterStats
  <2>2. st \in Nat /\ USER_FIRST_PAGE * PAGE_SIZE <= st
    BY <1>2, StatsBehindKernel DEF EnterStats
  <2>3. StatsSize \in Nat
    BY UserMemoryAssumption, UserCopiesAssumption, CopyDataAssumption
  <2> QED
    BY <2>1, <2>2, <2>3 DEF KeptInv, KernelKept, Begin
<1> QED
  BY <1>1, <1>2

LEMMA KeptWrite ==
  ASSUME KeptInv, call = "none", NEW fd, NEW a \in Pointers, NEW n \in Counts,
         EnterWrite(fd, a, n)
  PROVE  KeptInv'
<1>1. CASE Over
  BY <1>1, KeptOver
<1>2. CASE n > 0 /\ call' = "write" /\ left' = n /\ Begin(a, KernelBuffer, Piece(n))
  <2>1. n \in Nat /\ Piece(n) \in Nat
    BY <1>2, PieceSize, UserMemoryAssumption
  <2> QED
    BY <1>2, <2>1, UserCopiesAssumption DEF KeptInv, KernelKept, Begin, Piece
<1> QED
  BY <1>1, <1>2 DEF EnterWrite

\* A turn writes inside of the block of its call.
LEMMA KeptTurn == KeptInv /\ Turn => KeptInv'
<1> SUFFICES ASSUME KeptInv, Turn PROVE KeptInv'
  OBVIOUS
<1>1. PICK n \in 1 .. 4 : n <= size /\ mem' = Moved(n) /\ q' = q + n /\ size' = size - n
  BY DEF Turn, Next, CopyWord, CopyByte, MoreWords, KeptInv
<1>2. UNCHANGED <<params, call, left>>
  BY DEF Turn, Next, CopyWord, CopyByte
<1>3. ASSUME NEW a \in KeptBytes PROVE a \notin Area(q, n)
  <2>1. CASE call = "write"
    <3>1. left \in Nat /\ count = Piece(left) /\ to = KernelBuffer
      BY <2>1 DEF KeptInv
    <3>2. count <= TAMWRITE
      BY <3>1, PieceSize
    <3>3. KernelBuffer <= q /\ q + n <= KernelBuffer + TAMWRITE
      BY <1>1, <3>1, <3>2, UserCopiesAssumption DEF KeptInv
    <3>4. a \in Int /\ q \in Int /\ TAMWRITE \in Int /\ KernelBuffer \in Int
      BY UserMemoryAssumption, UserCopiesAssumption DEF KeptInv, KeptBytes
    <3> QED
      BY <3>3, <3>4 DEF KeptBytes
  <2>2. CASE call = "get_stats"
    BY <1>1, <2>2, UserMemoryAssumption DEF KeptInv, KeptBytes
  <2> QED
    BY <1>1, <2>1, <2>2 DEF KeptInv
<1>4. KernelKept'
  BY <1>1, <1>3, KernelInMemory DEF KeptInv, KernelKept, KeptBytes, Moved
<1>5. call \notin {"none", "over"}
  BY <1>1 DEF KeptInv
<1> QED
  BY <1>1, <1>2, <1>4, <1>5 DEF KeptInv, params, Piece

LEMMA KeptPiece == KeptInv /\ PrintPiece => KeptInv'
<1> SUFFICES ASSUME KeptInv, PrintPiece PROVE KeptInv'
  OBVIOUS
<1>1. left \in Nat /\ count \in Nat /\ left' \in Nat /\ TAMWRITE \in Nat \ {0}
  <2>1. left \in Nat /\ count = Piece(left) /\ left' = left - count
    BY DEF KeptInv, PrintPiece
  <2>2. Piece(left) \in Nat /\ Piece(left) <= left
    BY <2>1, PieceSize
  <2> QED
    BY <2>1, <2>2, UserCopiesAssumption
<1>2. CASE count = TAMWRITE /\ call' = call /\ Begin(Advanced(count), KernelBuffer, Piece(left'))
  <2>1. Piece(left') \in Nat
    BY <1>1, PieceSize
  <2> QED
    BY <1>1, <1>2, <2>1, UserCopiesAssumption DEF KeptInv, KernelKept, Begin, PrintPiece, Piece
<1>3. CASE call' = "over" /\ UNCHANGED vars
  BY <1>3 DEF KeptInv, KernelKept, vars, params, PrintPiece
<1> QED
  BY <1>2, <1>3 DEF PrintPiece

LEMMA KeptRemaining == KeptInv /\ SetRemaining => KeptInv'
<1> SUFFICES ASSUME KeptInv, SetRemaining PROVE KeptInv'
  OBVIOUS
<1>1. StatsSize \in Nat /\ StatsSize > 4
  BY UserMemoryAssumption, UserCopiesAssumption, CopyDataAssumption
<1>2. ASSUME NEW a \in KeptBytes PROVE a \notin Area(to + StatsSize - 4, 4)
  BY <1>1, UserMemoryAssumption DEF KeptInv, KeptBytes, SetRemaining
<1>3. KernelKept'
  BY <1>2, KernelInMemory DEF KeptInv, KernelKept, KeptBytes, SetRemaining
<1> QED
  BY <1>3 DEF KeptInv, SetRemaining

LEMMA KeptStep == KeptInv /\ [UserNext]_userVars => KeptInv'
<1> SUFFICES ASSUME KeptInv, [UserNext]_userVars PROVE KeptInv'
  OBVIOUS
<1>1. CASE Enter
  BY <1>1, KeptOver, KeptStats, KeptWrite DEF Enter
<1>2. CASE Turn
  BY <1>2, KeptTurn
<1>3. CASE PrintPiece
  BY <1>3, KeptPiece
<1>4. CASE SetRemaining
  BY <1>4, KeptRemaining
<1>5. CASE UNCHANGED userVars
  BY <1>5 DEF KeptInv, KernelKept, userVars, vars, params
<1> QED
  BY <1>1, <1>2, <1>3, <1>4, <1>5 DEF UserNext

\* Whatever pointer and size a program passes to get_stats or write, the handler
\* writes nothing in the kernel's pages but in its own buffer.
THEOREM KernelIsKept == UserSpec => []KernelKept
<1>1. KeptInv => KernelKept
  BY DEF KeptInv
<1> QED
  BY <1>1, KeptStart, KeptStep, PTL DEF UserSpec

-----------------------------------------------------------------------------
(* What write prints.                                                      *)

HIDE DEF Cells, Area, KernelBytes

\* The first n bytes of the user's buffer at a.
TextOf(a, n) == [i \in 1 .. n |-> Content[a + i - 1]]

\* The loops are inside of their areas, whether these overlap or not; where they
\* do not, the bytes passed have come over.
CopyShape ==
  /\ before \in [Cells -> 0 .. 255] /\ mem \in [Cells -> 0 .. 255]
  /\ size \in 0 .. count
  /\ p = from + (count - size) /\ q = to + (count - size)
  /\ from \in Cells /\ to \in Cells /\ count \in 0 .. Size
  /\ Area(from, count) \subseteq Cells /\ Area(to, count) \subseteq Cells

CallInv == CopyShape /\ (Separate => CopyInv)

\* The user's block is apart from the kernel's buffer.
OffBuffer(a, n) == Area(a, n) \cap Area(KernelBuffer, TAMWRITE) = {}

\* Between two pieces: what has been printed, what is being copied and what is
\* left make up the user's buffer, which no copy has written to.
PieceOf(a, n) ==
  /\ n > 0 /\ asked = {<<"VERIFY_READ", a, n>>}
  /\ left \in 0 .. n /\ count = Piece(left)
  /\ from = a + (n - left) /\ to = KernelBuffer
  /\ Area(a, n) \subseteq MappedBytes
  /\ OffBuffer(a, n) =>
       /\ \A x \in Cells \ Area(KernelBuffer, TAMWRITE) : before[x] = Content[x]
       /\ printed = TextOf(a, n - left)

WriteInv == \E a \in Pointers, n \in Counts : PieceOf(a, n)

Printed(a, n) == asked = {<<"VERIFY_READ", a, n>>} /\ (OffBuffer(a, n) => printed = TextOf(a, n))

TextInv ==
  /\ CallInv
  /\ to # KernelBuffer => Separate
  /\ call \in {"none", "write", "get_stats", "over"}
  /\ call = "none" => size = 0 /\ mem = Content
  /\ call \in {"none", "get_stats"} => printed = <<>>
  /\ call = "write" => WriteInv
  /\ call = "over" => printed = <<>> \/ \E a \in Pointers, n \in Counts : Printed(a, n)

LEMMA FunctionIsSeq ==
  ASSUME NEW S, NEW m \in Nat, NEW f \in [1 .. m -> S]
  PROVE  f \in Seq(S) /\ Len(f) = m
  OBVIOUS

LEMMA Joined ==
  ASSUME NEW s \in Seq(0 .. 255), NEW t \in Seq(0 .. 255)
  PROVE  /\ s \o t \in Seq(0 .. 255) /\ Len(s \o t) = Len(s) + Len(t)
         /\ \A i \in 1 .. Len(s) + Len(t) : (s \o t)[i] = IF i <= Len(s) THEN s[i] ELSE t[i - Len(s)]
  BY ConcatProperties

LEMMA TextContinues ==
  ASSUME NEW a \in Nat, NEW m \in Nat, NEW k \in Nat, Area(a, m + k) \subseteq Cells
  PROVE  TextOf(a, m) \o [i \in 1 .. k |-> Content[a + m + i - 1]] = TextOf(a, m + k)
<1>1. Content \in [Cells -> 0 .. 255]
  BY UserCopiesAssumption
<1>2. ASSUME NEW i \in 1 .. m + k PROVE Content[a + i - 1] \in 0 .. 255
  <2>1. a + i - 1 \in Area(a, m + k)
    BY DEF Area
  <2> QED
    BY <1>1, <2>1
<1>3. PICK s : s = TextOf(a, m)
  OBVIOUS
<1>4. PICK t : t = [i \in 1 .. k |-> Content[a + m + i - 1]]
  OBVIOUS
<1>5. PICK u : u = TextOf(a, m + k)
  OBVIOUS
<1>6. s \in [1 .. m -> 0 .. 255] /\ \A i \in 1 .. m : s[i] = Content[a + i - 1]
  <2>1. \A i \in 1 .. m : Content[a + i - 1] \in 0 .. 255
    <3>1. \A i \in 1 .. m : i \in 1 .. m + k
      OBVIOUS
    <3> QED
      BY <1>2, <3>1, Zenon
  <2> QED
    BY <1>3, <2>1, Zenon DEF TextOf
<1>7. t \in [1 .. k -> 0 .. 255] /\ \A i \in 1 .. k : t[i] = Content[a + m + i - 1]
  <2>1. ASSUME NEW i \in 1 .. k PROVE Content[a + m + i - 1] \in 0 .. 255
    <3>1. m + i \in 1 .. m + k /\ a + (m + i) - 1 = a + m + i - 1
      OBVIOUS
    <3>2. Content[a + (m + i) - 1] \in 0 .. 255
      BY <1>2, <3>1, Zenon
    <3> QED
      BY <3>1, <3>2, Zenon
  <2> QED
    BY <1>4, <2>1, Zenon
<1>8. m + k \in Nat /\ u \in [1 .. m + k -> 0 .. 255] /\ \A i \in 1 .. m + k : u[i] = Content[a + i - 1]
  <2>1. m + k \in Nat
    OBVIOUS
  <2> QED
    BY <1>2, <1>5, <2>1, Zenon DEF TextOf
<1>9. /\ s \in Seq(0 .. 255) /\ Len(s) = m /\ t \in Seq(0 .. 255) /\ Len(t) = k
      /\ u \in Seq(0 .. 255) /\ Len(u) = m + k
  BY <1>6, <1>7, <1>8, FunctionIsSeq
<1>10. /\ s \o t \in Seq(0 .. 255) /\ Len(s \o t) = Len(s) + Len(t)
       /\ \A i \in 1 .. Len(s) + Len(t) : (s \o t)[i] = IF i <= Len(s) THEN s[i] ELSE t[i - Len(s)]
  <2>1. s \in Seq(0 .. 255) /\ t \in Seq(0 .. 255)
    BY <1>9
  <2> QED
    BY <2>1, Joined, Zenon
<1>11. ASSUME NEW i \in 1 .. m + k PROVE (s \o t)[i] = u[i]
  <2>1. (s \o t)[i] = IF i <= m THEN s[i] ELSE t[i - m]
    BY <1>9, <1>10
  <2>2. CASE i <= m
    <3>1. i \in 1 .. m
      BY <2>2
    <3>2. s[i] = Content[a + i - 1] /\ u[i] = Content[a + i - 1]
      BY <1>6, <1>8, <3>1, Zenon
    <3> QED
      BY <2>1, <2>2, <3>2, Zenon
  <2>3. CASE ~(i <= m)
    <3>1. i - m \in 1 .. k /\ a + m + (i - m) - 1 = a + i - 1
      BY <2>3
    <3>2. t[i - m] = Content[a + m + (i - m) - 1] /\ u[i] = Content[a + i - 1]
      BY <1>7, <1>8, <3>1, Zenon
    <3> QED
      BY <2>1, <2>3, <3>1, <3>2, Zenon
  <2> QED
    BY <2>2, <2>3
<1>12. s \o t = u
  <2>1. Len(s \o t) = Len(u) /\ \A i \in 1 .. Len(s \o t) : (s \o t)[i] = u[i]
    BY <1>9, <1>10, <1>11
  <2> QED
    BY <1>9, <1>10, <2>1, SeqEqual, Zenon
<1> QED
  BY <1>3, <1>4, <1>5, <1>12

\* The areas the calls use lie in the memory.
LEMMA AreasInMemory ==
  /\ Size = Word /\ Size \in Nat /\ MappedBytes \subseteq Cells
  /\ Area(KernelStats, StatsSize) \subseteq Cells /\ Area(KernelBuffer, TAMWRITE) \subseteq Cells
  /\ KernelStats \in Cells /\ KernelBuffer \in Cells
<1>1. Size = Word /\ Size \in Nat
  BY CopyDataAssumption, UserCopiesAssumption
<1>2. MappedBytes \subseteq Cells
  BY <1>1, Layout DEF MappedBytes, Cells
<1>3. Area(KernelStats, StatsSize) \subseteq Cells /\ Area(KernelBuffer, TAMWRITE) \subseteq Cells
  BY UserCopiesAssumption, KernelInMemory
<1>4. KernelStats \in Area(KernelStats, StatsSize) /\ KernelBuffer \in Area(KernelBuffer, TAMWRITE)
  <2>1. StatsSize \in Nat \ {0} /\ TAMWRITE \in Nat \ {0} /\ KernelStats \in Nat /\ KernelBuffer \in Nat
    BY BlockSizes, UserCopiesAssumption
  <2> QED
    BY <2>1 DEF Area
<1> QED
  BY <1>1, <1>2, <1>3, <1>4

\* A copy that is called starts with nothing copied.
LEMMA CopyBegins ==
  ASSUME mem \in [Cells -> 0 .. 255], NEW f \in Cells, NEW t \in Cells, NEW n \in 0 .. Size,
         Begin(f, t, n), Area(f, n) \subseteq Cells, Area(t, n) \subseteq Cells
  PROVE  CallInv'
<1>1. CopyShape'
  <2>1. n \in Nat /\ n - n = 0 /\ f + 0 = f /\ t + 0 = t /\ n \in 0 .. n
    BY DEF Cells
  <2> QED
    BY <2>1 DEF CopyShape, Begin, Cells, Area
<1>2. ASSUME Area(f, n) \cap Area(t, n) = {} PROVE CopyInv'
  <2>1. Init'
    BY <1>2 DEF Init, Begin, Cells, Area
  <2>2. Init' => CopyInv'
    BY CopyStart, PTL
  <2> QED
    BY <2>1, <2>2
<1>3. Separate' => Area(f, n) \cap Area(t, n) = {}
  BY DEF Separate, Begin, Area
<1> QED
  BY <1>1, <1>2, <1>3 DEF CallInv

\* A turn of a loop keeps all that.
LEMMA CallTurn ==
  ASSUME CallInv, Next
  PROVE  CallInv' /\ (Separate' <=> Separate) /\ size > 0
<1>1. PICK n \in 1 .. 4 : n <= size /\ mem' = Moved(n) /\ p' = p + n /\ q' = q + n /\ size' = size - n
  BY CopyDataAssumption DEF Next, CopyWord, CopyByte, MoreWords, CallInv, CopyShape
<1>2. UNCHANGED params
  BY DEF Next, CopyWord, CopyByte
<1>3. Separate' <=> Separate
  BY <1>2 DEF Separate, params, Area
<1>4. mem' \in [Cells -> 0 .. 255]
  <2>1. ASSUME NEW a \in Area(q, n) PROVE p + (a - q) \in Cells
    <3>1. /\ size \in Nat /\ count \in Nat /\ size <= count /\ from \in Nat /\ to \in Nat
          /\ q = to + (count - size) /\ p = from + (count - size)
      BY CopyDataAssumption DEF CallInv, CopyShape, Cells
    <3>2. p + (a - q) \in Area(from, count)
      BY <1>1, <2>1, <3>1 DEF Area
    <3> QED
      BY <3>2 DEF CallInv, CopyShape
  <2>2. mem \in [Cells -> 0 .. 255]
    BY DEF CallInv, CopyShape
  <2> QED
    BY <1>1, <2>1, <2>2 DEF Moved
<1>5. CopyShape'
  <2>1. /\ size \in Nat /\ count \in Nat /\ size <= count /\ from \in Nat /\ to \in Nat
        /\ q = to + (count - size) /\ p = from + (count - size)
    BY CopyDataAssumption DEF CallInv, CopyShape, Cells
  <2>2. size' \in 0 .. count /\ p' = from + (count - size') /\ q' = to + (count - size')
    BY <1>1, <2>1
  <2> QED
    BY <1>2, <1>4, <2>2 DEF CallInv, CopyShape, params, Cells, Area
<1>6. Separate => CopyInv'
  BY CopyStep DEF CallInv
<1>7. size > 0
  BY <1>1 DEF CallInv, CopyShape
<1> QED
  BY <1>3, <1>5, <1>6, <1>7 DEF CallInv

\* The memory while it is copied, and when it has been.
LEMMA CopiedBytes ==
  ASSUME CopyInv
  PROVE  /\ mem \in [Cells -> 0 .. 255]
         /\ \A x \in Cells \ Area(to, count) : mem[x] = before[x]
         /\ size = 0 => \A i \in 1 .. count : mem[to + i - 1] = before[from + i - 1]
<1>1. /\ Size \in Nat /\ size \in Nat /\ count \in Nat /\ size <= count
      /\ from \in Nat /\ to \in Nat
      /\ Area(from, count) \subseteq Cells /\ Area(to, count) \subseteq Cells
  BY CopyDataAssumption DEF CopyInv, Cells
<1>2. /\ before \in [Cells -> 0 .. 255]
      /\ mem = [a \in Cells |-> IF a \in Area(to, count - size) THEN before[from + (a - to)] ELSE before[a]]
  BY DEF CopyInv
<1>3. ASSUME NEW x \in Area(to, count - size) PROVE from + (x - to) \in Cells
  BY <1>1 DEF Area
<1>4. mem \in [Cells -> 0 .. 255]
  BY <1>2, <1>3
<1>5. ASSUME NEW x \in Cells \ Area(to, count) PROVE mem[x] = before[x]
  <2>1. x \notin Area(to, count - size)
    BY <1>1 DEF Area, Cells
  <2> QED
    BY <1>2, <2>1
<1>6. ASSUME size = 0, NEW i \in 1 .. count PROVE mem[to + i - 1] = before[from + i - 1]
  <2>1. to + i - 1 \in Area(to, count - size) /\ from + ((to + i - 1) - to) = from + i - 1
    BY <1>1, <1>6 DEF Area
  <2>2. to + i - 1 \in Cells
    BY <1>1, <1>6, <2>1 DEF Area
  <2> QED
    BY <1>2, <2>1, <2>2
<1> QED
  BY <1>4, <1>5, <1>6

LEMMA TextStart == UserInit => TextInv
<1> SUFFICES ASSUME UserInit PROVE TextInv
  OBVIOUS
<1>1. KernelStats \in Nat /\ KernelBuffer \in Nat /\ Content \in [Cells -> 0 .. 255]
  BY UserCopiesAssumption
<1>2. Area(KernelStats, 0) = {} /\ Area(KernelBuffer, 0) = {} /\ 0 \in 0 .. Size
  BY <1>1, AreasInMemory DEF Area
<1>3. CopyShape
  <2>1. 0 - 0 = 0 /\ KernelStats + 0 = KernelStats /\ KernelBuffer + 0 = KernelBuffer /\ 0 \in 0 .. 0
    BY <1>1
  <2> QED
    BY <1>1, <1>2, <2>1, AreasInMemory DEF UserInit, CopyShape
<1>4. CopyInv
  <2>1. Init
    BY <1>1, <1>2, AreasInMemory DEF UserInit, Init
  <2> QED
    BY <2>1, CopyStart
<1> QED
  BY <1>3, <1>4 DEF TextInv, CallInv, UserInit

\* A piece of the user's buffer is copied, the last one perhaps empty.
LEMMA PieceBegins ==
  ASSUME mem \in [Cells -> 0 .. 255], NEW a \in Pointers, NEW n \in Counts, n > 0,
         Area(a, n) \subseteq MappedBytes,
         NEW m \in 0 .. n, Begin(a + (n - m), KernelBuffer, Piece(m))
  PROVE  CallInv'
<1>1. a \in Nat /\ n \in Nat /\ n <= Word \div 2 /\ m \in Nat /\ m <= n /\ a + n - 1 \in Area(a, n)
  <2>1. a \in Nat
    BY Layout DEF Pointers
  <2>2. n \in Int /\ n <= Word \div 2
    BY BlockSizes
  <2> QED
    BY <2>1, <2>2 DEF Area
<1>2. /\ TAMWRITE \in Nat \ {0} /\ KernelBuffer \in Nat
      /\ Piece(m) \in Nat /\ Piece(m) <= m /\ Piece(m) <= TAMWRITE
  BY <1>1, PieceSize, UserCopiesAssumption
<1>3. a + (n - m) \in Cells
  <2>1. a + n - 1 \in MappedBytes
    BY <1>1
  <2>2. a + n <= EndOfUser * PAGE_SIZE
    BY <1>1, <2>1, Layout DEF MappedBytes
  <2>3. a + n < Word
    BY <1>1, <2>2, Layout
  <2> QED
    BY <1>1, <2>3, AreasInMemory DEF Cells
<1>4. Piece(m) \in 0 .. Size
  BY <1>1, <1>2, Layout, AreasInMemory
<1>5. Area(a + (n - m), Piece(m)) \subseteq Area(a, n)
  BY <1>1, <1>2 DEF Area
<1>6. Area(KernelBuffer, Piece(m)) \subseteq Area(KernelBuffer, TAMWRITE)
  BY <1>2 DEF Area
<1>7. Area(a + (n - m), Piece(m)) \subseteq Cells /\ Area(KernelBuffer, Piece(m)) \subseteq Cells
  BY <1>5, <1>6, AreasInMemory
<1>8. KernelBuffer \in Cells
  BY AreasInMemory
<1> QED
  BY <1>3, <1>4, <1>7, <1>8, CopyBegins

\* Over leaves the memory and the loops as they are.
LEMMA CallKept ==
  ASSUME CallInv, UNCHANGED vars
  PROVE  CallInv' /\ (Separate' <=> Separate)
<1>1. CopyShape'
  BY DEF CallInv, CopyShape, vars, params, Cells, Area
<1>2. Separate' <=> Separate
  BY DEF Separate, vars, params, Area
<1>3. Separate => CopyInv'
  BY CopyStep DEF CallInv
<1> QED
  BY <1>1, <1>2, <1>3 DEF CallInv

LEMMA TextOver ==
  ASSUME TextInv, call = "none", Over
  PROVE  TextInv'
<1>1. CallInv' /\ (Separate' <=> Separate) /\ to' = to
  BY CallKept DEF TextInv, Over, vars, params
<1> QED
  BY <1>1 DEF TextInv, Over

\* The counters lie in the kernel's pages, and what the check lets pass does not.
LEMMA TextStats ==
  ASSUME TextInv, call = "none", NEW found, NEW pid, NEW st \in Pointers,
         EnterStats(found, pid, st)
  PROVE  TextInv'
<1>1. CASE Over
  BY <1>1, TextOver
<1>2. CASE /\ answer' = 0 /\ Reachable(st, StatsSize)
           /\ call' = "get_stats" /\ Begin(KernelStats, st, StatsSize) /\ UNCHANGED <<left, printed>>
  <2>1. mem \in [Cells -> 0 .. 255]
    BY DEF TextInv, CallInv, CopyShape
  <2>2. Area(st, StatsSize) \subseteq Cells
    BY <1>2, AreasInMemory DEF Reachable
  <2>3. StatsSize \in 0 .. Size /\ st \in Cells
    <3>1. StatsSize \in 0 .. Size
      BY BlockSizes, AreasInMemory, Layout
    <3> QED
      BY <3>1, AreasInMemory DEF Pointers, Cells
  <2>4. CallInv'
    BY <1>2, <2>1, <2>2, <2>3, AreasInMemory, CopyBegins
  <2>5. Area(KernelStats, StatsSize) \cap Area(st, StatsSize) = {}
    <3>1. st \in Nat /\ USER_FIRST_PAGE * PAGE_SIZE <= st
      BY <1>2, StatsBehindKernel DEF EnterStats
    <3>2. \A x \in Area(KernelStats, StatsSize) : x \in Int /\ x < USER_FIRST_PAGE * PAGE_SIZE
      <4>1. USER_FIRST_PAGE * PAGE_SIZE \in Nat /\ PAGE_SIZE \in Nat
        BY UserMemoryAssumption
      <4>2. \A x \in KernelBytes : x \in Int /\ x < USER_FIRST_PAGE * PAGE_SIZE
        BY <4>1 DEF KernelBytes
      <4> QED
        BY <4>2, UserCopiesAssumption
    <3>3. StatsSize \in Int /\ USER_FIRST_PAGE * PAGE_SIZE \in Int
      BY BlockSizes, UserMemoryAssumption
    <3>4. \A x \in Area(st, StatsSize) : x \in Int /\ st <= x
      BY <3>1, <3>3 DEF Area
    <3>5. ASSUME NEW x \in Area(KernelStats, StatsSize), x \in Area(st, StatsSize) PROVE FALSE
      <4>1. PICK b \in Int : b = USER_FIRST_PAGE * PAGE_SIZE
        BY <3>3
      <4>2. x \in Int /\ x < b /\ st <= x /\ b <= st /\ st \in Int
        BY <3>1, <3>2, <3>4, <3>5, <4>1
      <4> QED
        BY <4>1, <4>2
    <3> QED
      BY <3>5
  <2>6. Separate'
    BY <1>2, <2>5 DEF Separate, Begin, Area
  <2> QED
    BY <1>2, <2>4, <2>6 DEF TextInv
<1> QED
  BY <1>1, <1>2 DEF EnterStats

LEMMA TextWrite ==
  ASSUME TextInv, call = "none", NEW fd, NEW a \in Pointers, NEW n \in Counts,
         EnterWrite(fd, a, n)
  PROVE  TextInv'
<1>1. CASE Over
  BY <1>1, TextOver
<1>2. CASE /\ n > 0 /\ Reachable(a, n)
           /\ call' = "write" /\ left' = n /\ UNCHANGED printed
           /\ Begin(a, KernelBuffer, Piece(n))
  <2>1. mem \in [Cells -> 0 .. 255] /\ mem = Content /\ printed' = <<>>
    BY <1>2 DEF TextInv, CallInv, CopyShape
  <2>2. n \in Nat /\ n \in 0 .. n /\ a \in Nat /\ n - n = 0 /\ a + 0 = a
    <3>1. n \in Int /\ a \in Nat
      BY BlockSizes, Layout DEF Pointers
    <3> QED
      BY <1>2, <3>1
  <2>3. Area(a, n) \subseteq MappedBytes
    BY <1>2 DEF Reachable
  <2>4. Begin(a + (n - n), KernelBuffer, Piece(n))
    BY <1>2, <2>2
  <2>5. CallInv'
    BY <1>2, <2>1, <2>2, <2>3, <2>4, PieceBegins
  <2>6. TextOf(a, n - n) = <<>>
    BY <2>2 DEF TextOf
  <2>7. asked' = {<<"VERIFY_READ", a, n>>}
    BY DEF EnterWrite, sys_write, Answered
  <2>8. from' = a + (n - left') /\ to' = KernelBuffer /\ count' = Piece(left') /\ before' = Content
    BY <1>2, <2>1, <2>2 DEF Begin
  <2>9. left' \in 0 .. n /\ printed' = TextOf(a, n - left')
    BY <1>2, <2>1, <2>2, <2>6
  <2>10. WriteInv'
    BY <1>2, <2>3, <2>7, <2>8, <2>9
       DEF WriteInv, PieceOf, OffBuffer, Pointers, MappedBytes, Cells, Area, Piece, TextOf
  <2> QED
    BY <1>2, <2>5, <2>8, <2>10 DEF TextInv
<1> QED
  BY <1>1, <1>2 DEF EnterWrite

LEMMA TextTurn ==
  ASSUME TextInv, Turn
  PROVE  TextInv'
<1>1. CallInv' /\ (Separate' <=> Separate) /\ size > 0
  BY CallTurn DEF TextInv, Turn
<1>2. UNCHANGED <<params, call, asked, left, printed>>
  BY DEF Turn, Next, CopyWord, CopyByte, callVars
<1>3. call # "none"
  BY <1>1 DEF TextInv
<1>4. WriteInv => WriteInv'
  BY <1>2 DEF WriteInv, PieceOf, OffBuffer, params
<1>5. to' = to
  BY <1>2 DEF params
<1> QED
  BY <1>1, <1>2, <1>3, <1>4, <1>5 DEF TextInv, Printed, OffBuffer

\* The piece that is printed continues the text.
LEMMA PieceGoesOn ==
  ASSUME CopyShape, Separate => CopyInv, size = 0, NEW a \in Pointers, NEW n \in Counts, PieceOf(a, n),
         OffBuffer(a, n), NEW m, m = n - left, n \in Nat, left \in Nat, left <= n, count \in Nat, count <= left
  PROVE  /\ printed \o [i \in 1 .. count |-> mem[KernelBuffer + i - 1]] = TextOf(a, m + count)
         /\ \A x \in Cells \ Area(KernelBuffer, TAMWRITE) : mem[x] = Content[x]
<1>1. a \in Nat /\ m \in Nat /\ m + count <= n /\ KernelBuffer \in Nat /\ TAMWRITE \in Nat /\ count <= TAMWRITE
  <2>1. a \in Nat /\ KernelBuffer \in Nat /\ TAMWRITE \in Nat
    BY Layout, UserCopiesAssumption DEF Pointers
  <2>2. count <= TAMWRITE
    BY PieceSize DEF PieceOf
  <2> QED
    BY <2>1, <2>2
<1>2. /\ from = a + m /\ to = KernelBuffer /\ Area(a, n) \subseteq Cells
      /\ Area(a, n) \cap Area(KernelBuffer, TAMWRITE) = {}
      /\ \A x \in Cells \ Area(KernelBuffer, TAMWRITE) : before[x] = Content[x]
      /\ printed = TextOf(a, m)
  BY AreasInMemory DEF PieceOf, OffBuffer
<1>3. Area(from, count) \subseteq Area(a, n) /\ Area(to, count) \subseteq Area(KernelBuffer, TAMWRITE)
  BY <1>1, <1>2 DEF Area
<1>4. CopyInv
  BY <1>2, <1>3 DEF Separate
<1>5. ASSUME NEW i \in 1 .. count PROVE mem[KernelBuffer + i - 1] = Content[a + m + i - 1]
  <2>1. mem[KernelBuffer + i - 1] = before[from + i - 1]
    BY <1>2, <1>4, CopiedBytes, Zenon
  <2>2. from + i - 1 = a + m + i - 1
    BY <1>2
  <2>3. from + i - 1 \in Area(a, n)
    BY <1>1, <1>2 DEF Area
  <2>4. from + i - 1 \in Cells \ Area(KernelBuffer, TAMWRITE)
    BY <1>2, <2>3
  <2> QED
    BY <1>2, <2>1, <2>2, <2>4
<1>6. Area(a, m + count) \subseteq Cells
  <2>1. Area(a, m + count) \subseteq Area(a, n)
    BY <1>1 DEF Area
  <2> QED
    BY <1>2, <2>1
<1>7. printed \o [i \in 1 .. count |-> mem[KernelBuffer + i - 1]] = TextOf(a, m + count)
  <2>1. [i \in 1 .. count |-> mem[KernelBuffer + i - 1]] = [i \in 1 .. count |-> Content[a + m + i - 1]]
    BY <1>5
  <2>2. TextOf(a, m) \o [i \in 1 .. count |-> Content[a + m + i - 1]] = TextOf(a, m + count)
    <3>1. a \in Nat /\ m \in Nat /\ count \in Nat
      BY <1>1
    <3>2. \A j \in Nat : Area(a, j + count) \subseteq Cells =>
            TextOf(a, j) \o [i \in 1 .. count |-> Content[a + j + i - 1]] = TextOf(a, j + count)
      BY <3>1, TextContinues, Zenon
    <3> QED
      BY <1>6, <3>1, <3>2, Zenon
  <2>3. printed = TextOf(a, m)
    BY <1>2
  <2> QED
    BY <2>1, <2>2, <2>3, Zenon
<1>8. ASSUME NEW x \in Cells \ Area(KernelBuffer, TAMWRITE) PROVE mem[x] = Content[x]
  <2>1. x \notin Area(to, count)
    BY <1>3
  <2>2. mem[x] = before[x]
    BY <1>4, <2>1, CopiedBytes
  <2> QED
    BY <1>2, <2>2
<1> QED
  BY <1>7, <1>8

LEMMA TextPiece ==
  ASSUME TextInv, PrintPiece
  PROVE  TextInv'
<1>1. CallInv /\ WriteInv /\ call = "write" /\ size = 0
  BY DEF TextInv, PrintPiece
<1>2. PICK a \in Pointers, n \in Counts : PieceOf(a, n)
  BY <1>1 DEF WriteInv
<1>3. /\ n > 0 /\ asked = {<<"VERIFY_READ", a, n>>} /\ left \in 0 .. n /\ count = Piece(left)
      /\ from = a + (n - left) /\ to = KernelBuffer /\ Area(a, n) \subseteq MappedBytes
  BY <1>2 DEF PieceOf
<1>4. /\ n \in Nat /\ a \in Nat /\ left \in Nat /\ left <= n
      /\ count \in Nat /\ count <= left /\ count <= TAMWRITE
      /\ left' = left - count /\ left' \in 0 .. n
      /\ n - left \in Nat /\ (n - left) + count = n - left'
  <2>1. n \in Int /\ a \in Nat
    BY BlockSizes, Layout DEF Pointers
  <2>2. n \in Nat /\ left \in Nat /\ left <= n
    BY <1>3, <2>1
  <2>3. count \in Nat /\ count <= left /\ count <= TAMWRITE
    BY <1>3, <2>2, PieceSize
  <2>4. left' = left - count
    BY DEF PrintPiece
  <2> QED
    BY <2>1, <2>2, <2>3, <2>4
<1>5. ASSUME OffBuffer(a, n)
      PROVE  /\ printed' = TextOf(a, n - left')
             /\ \A x \in Cells \ Area(KernelBuffer, TAMWRITE) : mem[x] = Content[x]
  <2>1. PICK m : m = n - left
    OBVIOUS
  <2>2. /\ printed \o [i \in 1 .. count |-> mem[KernelBuffer + i - 1]] = TextOf(a, m + count)
        /\ \A x \in Cells \ Area(KernelBuffer, TAMWRITE) : mem[x] = Content[x]
    BY <1>1, <1>2, <1>4, <1>5, <2>1, PieceGoesOn DEF CallInv
  <2>3. printed' = printed \o [i \in 1 .. count |-> mem[KernelBuffer + i - 1]]
    BY DEF PrintPiece
  <2> QED
    BY <1>4, <2>1, <2>2, <2>3
<1>6. asked' = {<<"VERIFY_READ", a, n>>}
  BY <1>3 DEF PrintPiece, callVars
<1>7. CASE count = TAMWRITE /\ call' = call /\ Begin(Advanced(count), KernelBuffer, Piece(left'))
  <2>1. Advanced(count) = a + (n - left')
    BY <1>3, <1>4 DEF Advanced
  <2>2. CallInv'
    <3>1. PICK m : m = left'
      OBVIOUS
    <3>2. m \in 0 .. n /\ Begin(a + (n - m), KernelBuffer, Piece(m))
      BY <1>4, <1>7, <2>1, <3>1 DEF Begin, Piece
    <3>3. mem \in [Cells -> 0 .. 255]
      BY <1>1 DEF CallInv, CopyShape
    <3> QED
      BY <1>3, <3>2, <3>3, PieceBegins
  <2>3. before' = mem /\ from' = a + (n - left') /\ to' = KernelBuffer /\ count' = Piece(left')
    BY <1>7, <2>1 DEF Begin
  <2>4. OffBuffer(a, n) =>
          /\ \A x \in Cells \ Area(KernelBuffer, TAMWRITE) : before'[x] = Content[x]
          /\ printed' = TextOf(a, n - left')
    BY <1>5, <2>3
  <2>5. WriteInv'
    BY <1>3, <1>4, <1>6, <2>3, <2>4
       DEF WriteInv, PieceOf, OffBuffer, Pointers, MappedBytes, Cells, Area, Piece, TextOf
  <2> QED
    BY <1>1, <1>7, <2>2, <2>3, <2>5 DEF TextInv
<1>8. CASE count < TAMWRITE /\ call' = "over" /\ UNCHANGED vars
  <2>1. CallInv' /\ to' = to
    BY <1>1, <1>8, CallKept DEF vars, params
  <2>2. n - left' = n
    <3>1. count = left
      BY <1>3, <1>4, <1>8, UserCopiesAssumption DEF Piece
    <3> QED
      BY <1>4, <3>1
  <2>3. OffBuffer(a, n) => printed' = TextOf(a, n)
    BY <1>5, <2>2
  <2>4. \E b \in Pointers, m \in Counts : Printed(b, m)'
    BY <1>6, <2>3 DEF Printed, OffBuffer, TextOf, Area
  <2> QED
    BY <1>3, <1>8, <2>1, <2>4 DEF TextInv, Pointers
<1> QED
  BY <1>7, <1>8 DEF PrintPiece

LEMMA TextRemaining ==
  ASSUME TextInv, SetRemaining
  PROVE  TextInv'
<1>1. /\ mem \in [Cells -> 0 .. 255] /\ QLeft \in 0 .. 255
      /\ from \in Cells /\ to \in Cells /\ from \in Nat /\ to \in Nat /\ 0 \in 0 .. Size
  <2>1. mem \in [Cells -> 0 .. 255] /\ QLeft \in 0 .. 255
    BY UserCopiesAssumption DEF TextInv, CallInv, CopyShape
  <2>2. from \in Cells /\ to \in Cells /\ Size \in Nat
    BY AreasInMemory DEF TextInv, CallInv, CopyShape
  <2>3. from \in Nat /\ to \in Nat /\ 0 \in 0 .. Size
    BY <2>2 DEF Cells
  <2> QED
    BY <2>1, <2>2, <2>3
<1>2. Area(from, 0) = {} /\ Area(to, 0) = {}
  BY <1>1 DEF Area
<1>3. mem' \in [Cells -> 0 .. 255]
  <2>1. mem' = [x \in Cells |-> IF x \in Area(to + StatsSize - 4, 4) THEN QLeft ELSE mem[x]]
    BY DEF SetRemaining
  <2> HIDE DEF Cells, Area
  <2> QED
    BY <1>1, <2>1
<1>4. CopyInv' /\ Separate'
  <2>1. Init'
    BY <1>1, <1>2, <1>3 DEF Init, SetRemaining, Cells, Area
  <2>2. Init' => CopyInv'
    BY CopyStart, PTL
  <2>3. Separate'
    BY <1>2 DEF Separate, SetRemaining, Area
  <2> QED
    BY <2>1, <2>2, <2>3
<1>5. CopyShape'
  <2>1. 0 - 0 = 0 /\ from + 0 = from /\ to + 0 = to /\ 0 \in 0 .. 0
    BY <1>1
  <2> QED
    BY <1>1, <1>2, <1>3, <2>1 DEF CopyShape, SetRemaining, Cells, Area
<1> QED
  BY <1>4, <1>5 DEF TextInv, CallInv, SetRemaining

LEMMA TextStep == TextInv /\ [UserNext]_userVars => TextInv'
<1> SUFFICES ASSUME TextInv, [UserNext]_userVars PROVE TextInv'
  OBVIOUS
<1>1. CASE Enter
  BY <1>1, TextOver, TextStats, TextWrite DEF Enter
<1>2. CASE Turn
  BY <1>2, TextTurn
<1>3. CASE PrintPiece
  BY <1>3, TextPiece
<1>4. CASE SetRemaining
  BY <1>4, TextRemaining
<1>5. CASE UNCHANGED userVars
  <2>1. UNCHANGED <<vars, asked, call, left, printed>>
    BY <1>5 DEF userVars, callVars
  <2>2. CallInv' /\ (Separate' <=> Separate) /\ UNCHANGED <<params, mem, size>>
    BY <2>1, CallKept DEF TextInv, vars
  <2>3. WriteInv => WriteInv'
    BY <2>1, <2>2 DEF WriteInv, PieceOf, OffBuffer, params
  <2> QED
    BY <2>1, <2>2, <2>3 DEF TextInv, Printed, OffBuffer, params
<1> QED
  BY <1>1, <1>2, <1>3, <1>4, <1>5 DEF UserNext

\* sys_write prints the user's buffer, every byte once and in its order, however
\* its size falls into pieces of TAMWRITE bytes and those into words, unless that
\* buffer takes in a part of the kernel's.
THEOREM TextIsPrinted == UserSpec => []TextPrinted
<1>1. ASSUME TextInv PROVE TextPrinted
  <2> SUFFICES ASSUME printed # <<>>, call = "over",
                      OffBuffer(Asked("VERIFY_READ")[2], Asked("VERIFY_READ")[3])
               PROVE  printed = [i \in 1 .. Asked("VERIFY_READ")[3] |->
                                   Content[Asked("VERIFY_READ")[2] + i - 1]]
    BY DEF TextPrinted, OffBuffer
  <2>1. PICK a \in Pointers, n \in Counts : Printed(a, n)
    BY <1>1 DEF TextInv
  <2>2. Asked("VERIFY_READ") = <<"VERIFY_READ", a, n>>
    BY <2>1 DEF Asked, Printed
  <2> QED
    BY <2>1, <2>2 DEF TextOf, Printed
<1> QED
  BY <1>1, TextStart, TextStep, PTL DEF UserSpec

\* get_stats copies exactly, wherever in its pages the program wants the answer:
\* the counters are in none of them.  write, which tests no address, copies every
\* piece exactly that is apart from the kernel's buffer, an empty one included.
THEOREM CallsCopyExactly == UserSpec => []CallsExact
<1>1. TextInv => CallsExact
  <2> SUFFICES ASSUME TextInv, Separate, size <= 0 PROVE mem = Copied
    BY DEF CallsExact, CopyExact, TextInv
  <2>1. CopyInv
    BY DEF TextInv, CallInv
  <2>2. size = 0 /\ count - size = count
    BY <2>1, CopyDataAssumption DEF CopyInv
  <2> QED
    BY <2>1, <2>2 DEF CopyInv, Copied
<1> QED
  BY <1>1, TextStart, TextStep, PTL DEF UserSpec

=============================================================================
