--------------------------- MODULE SysCallsProofs ---------------------------
(***************************************************************************)
(* The calling convention of the system calls, for every number of threads *)
(* and every set of wrappers and identifiers.  The stacks are followed     *)
(* word by word: what a wrapper pushes (FrameShape, TrapShape), what the   *)
(* kernel saves and restores (KernelFrame), what the wrapper takes off     *)
(* again (FrameTakenOff).                                                  *)
(***************************************************************************)
EXTENDS SysCalls, TLAPS, SequenceTheorems

\* The routine a wrapper is for.
RoutineOf(n) == IF n = "writefast" THEN "write" ELSE n

\* The caller's part of the stack of a wrapper with a arguments.
Base(a) == <<Caller.ebp, RET>> \o Args(a) \o CallerStack

\* A wrapper with its frame, and at the trap.
Frame(n)   == Prologue(Caller, Wrappers[n])
Trapped(n) ==
  IF n = "write" THEN TRAP(Frame(n).r, Frame(n).s, Wrappers[n].id)
  ELSE SYSCALL(Frame(n).r, Frame(n).s, Wrappers[n].id)

Registers == [eax : Int, ebx : Int, ecx : Int, edx : Int, esi : Int, edi : Int, ebp : Int]

\* A routine with its arguments.
RoutineNames == DOMAIN Results \cup {"none", "wild"}
RoutineCalls == [name : RoutineNames, args : Seq(Int)]

\* The registers a caller may rely on are those of r.
Preserved(r, s) == s.ebx = r.ebx /\ s.esi = r.esi /\ s.edi = r.edi /\ s.ebp = r.ebp

-----------------------------------------------------------------------------
(* The table of wrappers.                                                  *)

\* A wrapper that does not save ebx has no arguments, and one that does not
\* check the result has routines that return no error.
LEMMA WrapperTable ==
  ASSUME NEW n \in DOMAIN Wrappers
  PROVE  /\ Wrappers[n].args \in 0 .. 3 /\ Wrappers[n].id \in Int
         /\ ~Wrappers[n].saves => Wrappers[n].args = 0
         /\ n \notin {"raw", "none"}
<1>1. Wrappers[n].args \in 0 .. 3 /\ Wrappers[n].id \in Int
  BY DEF Wrappers, W
<1>2. ~Wrappers[n].saves => Wrappers[n].args = 0
  BY DEF Wrappers, W
<1>3. n \notin {"raw", "none"}
  BY DEF Wrappers, W
<1> QED
  BY <1>1, <1>2, <1>3

LEMMA WrapperTarget ==
  ASSUME NEW n \in DOMAIN Wrappers
  PROVE  Target(Wrappers[n].id) = RoutineOf(n)
  BY DEF Wrappers, W, Target, InRange, MAX_SYSCALL, sys_call_table, Listed, RoutineOf

LEMMA WrapperResults ==
  ASSUME NEW n \in DOMAIN Wrappers
  PROVE  /\ RoutineOf(n) \in DOMAIN Results /\ Results[RoutineOf(n)] \subseteq Int
         /\ ~Wrappers[n].checks => \A res \in Results[RoutineOf(n)] : res >= 0
  BY DEF Wrappers, W, Results, RoutineOf

LEMMA CloneArgs == Wrappers["clone"].args = 2
  BY DEF Wrappers, W

-----------------------------------------------------------------------------
(* What the wrapper pushes.                                                *)

\* Two pieces of a stack.
LEMMA Pieces ==
  ASSUME NEW s \in Seq(Int), NEW t \in Seq(Int)
  PROVE  /\ s \o t \in Seq(Int) /\ Len(s \o t) = Len(s) + Len(t)
         /\ \A i \in 1 .. Len(s) : (s \o t)[i] = s[i]
         /\ \A j \in 1 .. Len(t) : (s \o t)[Len(s) + j] = t[j]
<1>1. /\ s \o t \in Seq(Int) /\ Len(s \o t) = Len(s) + Len(t)
      /\ \A i \in 1 .. Len(s) + Len(t) : (s \o t)[i] = IF i <= Len(s) THEN s[i] ELSE t[i - Len(s)]
  BY ConcatProperties
<1>2. Len(s) \in Nat /\ Len(t) \in Nat
  OBVIOUS
<1>3. ASSUME NEW j \in 1 .. Len(t)
      PROVE  (s \o t)[Len(s) + j] = t[j]
  <2>1. Len(s) + j \in 1 .. Len(s) + Len(t) /\ ~(Len(s) + j <= Len(s)) /\ (Len(s) + j) - Len(s) = j
    BY <1>2
  <2> QED
    BY <1>1, <2>1
<1> QED
  BY <1>1, <1>2, <1>3

LEMMA ArgsShape ==
  ASSUME NEW a \in 0 .. 3
  PROVE  Args(a) \in Seq(Int) /\ Len(Args(a)) = a /\ \A k \in 1 .. a : Args(a)[k] = 10 + k
<1>1. <<11, 12, 13>> \in Seq(Int) /\ \A k \in 1 .. a : <<11, 12, 13>>[k] \in Int
  OBVIOUS
<1>2. /\ SubSeq(<<11, 12, 13>>, 1, a) \in Seq(Int)
      /\ Len(SubSeq(<<11, 12, 13>>, 1, a)) = IF 1 <= a THEN a - 1 + 1 ELSE 0
      /\ \A k \in 1 .. a - 1 + 1 : SubSeq(<<11, 12, 13>>, 1, a)[k] = <<11, 12, 13>>[1 + k - 1]
  <2> HIDE <1>1
  <2> QED
    BY <1>1, SubSeqProperties
<1> QED
  BY <1>2 DEF Args

LEMMA BaseShape ==
  ASSUME NEW a \in 0 .. 3
  PROVE  /\ Base(a) \in Seq(Int) /\ Len(Base(a)) = a + 3
         /\ Base(a)[1] = Caller.ebp /\ Base(a)[a + 3] = 97
         /\ \A k \in 1 .. a : Base(a)[2 + k] = 10 + k
<1>1. Args(a) \in Seq(Int) /\ Len(Args(a)) = a /\ \A k \in 1 .. a : Args(a)[k] = 10 + k
  BY ArgsShape
<1>2. /\ <<Caller.ebp, RET>> \in Seq(Int) /\ Len(<<Caller.ebp, RET>>) = 2
      /\ CallerStack \in Seq(Int) /\ Len(CallerStack) = 1 /\ CallerStack[1] = 97
  BY DEF Caller, RET, CallerStack
<1>3. PICK s1 \in Seq(Int) :
        /\ s1 = <<Caller.ebp, RET>> \o Args(a) /\ Len(s1) = 2 + a
        /\ s1[1] = Caller.ebp
        /\ \A k \in 1 .. a : s1[2 + k] = Args(a)[k]
  <2> DEFINE s == <<Caller.ebp, RET>> \o Args(a)
  <2>1. /\ s \in Seq(Int) /\ Len(s) = 2 + a
        /\ s[1] = <<Caller.ebp, RET>>[1]
        /\ \A k \in 1 .. a : s[2 + k] = Args(a)[k]
    BY <1>1, <1>2, Pieces
  <2>2. s[1] = Caller.ebp
    BY <2>1
  <2> QED
    BY <2>1, <2>2
<1>4. /\ s1 \o CallerStack \in Seq(Int)
      /\ Len(s1 \o CallerStack) = Len(s1) + Len(CallerStack)
      /\ \A i \in 1 .. Len(s1) : (s1 \o CallerStack)[i] = s1[i]
      /\ \A j \in 1 .. Len(CallerStack) : (s1 \o CallerStack)[Len(s1) + j] = CallerStack[j]
  <2>1. CallerStack \in Seq(Int)
    BY <1>2
  <2> QED
    BY <2>1, Pieces, Zenon
<1>5. Base(a) = s1 \o CallerStack
  BY <1>3 DEF Base
<1>6. 1 \in 1 .. Len(CallerStack) /\ 1 \in 1 .. Len(s1) /\ \A k \in 1 .. a : 2 + k \in 1 .. Len(s1)
  BY <1>2, <1>3
<1>7. Len(s1) + Len(CallerStack) = a + 3 /\ Len(s1) + 1 = a + 3
  BY <1>2, <1>3
<1>8. Base(a) \in Seq(Int) /\ Len(Base(a)) = a + 3 /\ Base(a)[1] = Caller.ebp
  BY <1>3, <1>4, <1>5, <1>6, <1>7
<1>9. Base(a)[a + 3] = 97
  <2>1. (s1 \o CallerStack)[Len(s1) + 1] = CallerStack[1]
    BY <1>4, <1>6
  <2> QED
    BY <1>2, <1>5, <1>7, <2>1
<1>10. ASSUME NEW k \in 1 .. a PROVE Base(a)[2 + k] = 10 + k
  <2>1. (s1 \o CallerStack)[2 + k] = s1[2 + k]
    BY <1>4, <1>6
  <2>2. s1[2 + k] = 10 + k
    BY <1>1, <1>3
  <2> QED
    BY <1>5, <2>1, <2>2
<1> QED
  BY <1>8, <1>9, <1>10

LEMMA FrameShape ==
  ASSUME NEW n \in DOMAIN Wrappers
  PROVE  /\ Frame(n).s = IF Wrappers[n].saves THEN <<Caller.ebx>> \o Base(Wrappers[n].args)
                         ELSE Base(Wrappers[n].args)
         /\ Frame(n).s \in Seq(Int)
         /\ Frame(n).r \in Registers
         /\ Frame(n).r.esi = Caller.esi /\ Frame(n).r.edi = Caller.edi
         /\ ~Wrappers[n].saves => Frame(n).r.ebx = Caller.ebx
         /\ Wrappers[n].args >= 1 => Frame(n).r.ebx = 11
         /\ Wrappers[n].args >= 2 => Frame(n).r.ecx = 12
         /\ Wrappers[n].args >= 3 => Frame(n).r.edx = 13
<1> DEFINE w == Wrappers[n]
           a == w.args
           s2 == IF w.saves THEN <<Caller.ebx>> \o Base(a) ELSE Base(a)
           Param(k, reg) == IF a >= k THEN At(s2, a + 3, 1 + k) ELSE reg
<1>1. a \in 0 .. 3 /\ (~w.saves => a = 0)
  BY WrapperTable
<1>2. /\ Base(a) \in Seq(Int) /\ Len(Base(a)) = a + 3
      /\ \A k \in 1 .. a : Base(a)[2 + k] = 10 + k
  BY <1>1, BaseShape
<1>3. Caller \in Registers
  BY DEF Caller, Registers
<1>4. Frame(n) = [r |-> [Caller EXCEPT !.ebp = a + 3, !.ebx = Param(1, Caller.ebx),
                                       !.ecx = Param(2, Caller.ecx), !.edx = Param(3, Caller.edx)],
                  s |-> s2]
  BY <1>2 DEF Frame, Prologue, Base
<1>5. s2 \in Seq(Int) /\ \A k \in 1 .. a : At(s2, a + 3, 1 + k) = 10 + k
  <2>1. CASE w.saves
    <3>1. <<Caller.ebx>> \in Seq(Int) /\ Len(<<Caller.ebx>>) = 1
      BY DEF Caller
    <3>2. /\ s2 \in Seq(Int) /\ Len(s2) = a + 4
          /\ \A k \in 1 .. a : s2[3 + k] = Base(a)[2 + k]
      <4>1. Base(a) \in Seq(Int) /\ <<Caller.ebx>> \in Seq(Int) /\ s2 = <<Caller.ebx>> \o Base(a)
        BY <1>2, <2>1, <3>1
      <4>2. /\ <<Caller.ebx>> \o Base(a) \in Seq(Int)
            /\ Len(<<Caller.ebx>> \o Base(a)) = Len(<<Caller.ebx>>) + Len(Base(a))
            /\ \A j \in 1 .. Len(Base(a)) :
                  (<<Caller.ebx>> \o Base(a))[Len(<<Caller.ebx>>) + j] = Base(a)[j]
        BY <4>1, Pieces, Zenon
      <4> HIDE DEF s2, w, a
      <4>3. \A k \in 1 .. a : 2 + k \in 1 .. Len(Base(a)) /\ Len(<<Caller.ebx>>) + (2 + k) = 3 + k
        BY <1>1, <1>2, <3>1
      <4>4. Len(<<Caller.ebx>>) + Len(Base(a)) = a + 4
        BY <1>1, <1>2, <3>1
      <4> QED
        BY <4>1, <4>2, <4>3, <4>4
    <3> HIDE DEF s2, w, a
    <3>3. \A k \in 1 .. a : Len(s2) - (a + 3) + 1 + (1 + k) = 3 + k
      BY <1>1, <3>2
    <3> QED
      BY <1>2, <3>2, <3>3 DEF At
  <2>2. CASE ~w.saves
    BY <1>1, <1>2, <2>2
  <2> QED
    BY <2>1, <2>2
<1>6. /\ a >= 1 => Param(1, Caller.ebx) = 11
      /\ a >= 2 => Param(2, Caller.ecx) = 12
      /\ a >= 3 => Param(3, Caller.edx) = 13
      /\ a = 0 => Param(1, Caller.ebx) = Caller.ebx
      /\ Param(1, Caller.ebx) \in Int /\ Param(2, Caller.ecx) \in Int /\ Param(3, Caller.edx) \in Int
  <2> HIDE DEF s2, w
  <2> QED
    BY <1>1, <1>3, <1>5 DEF Registers
<1> HIDE DEF s2, Param, w, a
<1>7. /\ Frame(n).s = s2
      /\ Frame(n).r = [Caller EXCEPT !.ebp = a + 3, !.ebx = Param(1, Caller.ebx),
                                     !.ecx = Param(2, Caller.ecx), !.edx = Param(3, Caller.edx)]
  BY <1>4
<1>8. /\ Frame(n).r.ebx = Param(1, Caller.ebx) /\ Frame(n).r.ecx = Param(2, Caller.ecx)
      /\ Frame(n).r.edx = Param(3, Caller.edx)
      /\ Frame(n).r.esi = Caller.esi /\ Frame(n).r.edi = Caller.edi
  BY <1>3, <1>7 DEF Registers
<1>9. Frame(n).r \in Registers
  <2>1. a + 3 \in Int
    BY <1>1
  <2> QED
    BY <1>3, <1>6, <1>7, <2>1, Zenon DEF Registers
<1> QED
  BY <1>1, <1>5, <1>6, <1>7, <1>8, <1>9 DEF s2, w, a

LEMMA TrapShape ==
  ASSUME NEW n \in DOMAIN Wrappers
  PROVE  /\ Trapped(n).s \in Seq(Int)
         /\ (IF UsesInt(n) THEN Trapped(n).s ELSE SubSeq(Trapped(n).s, 3, Len(Trapped(n).s))) = Frame(n).s
         /\ ~UsesInt(n) => At(Trapped(n).s, Trapped(n).r.ebp, 1) \in Int
         /\ Trapped(n).r \in Registers
         /\ Trapped(n).r.eax = Wrappers[n].id
         /\ Trapped(n).r.ebx = Frame(n).r.ebx /\ Trapped(n).r.ecx = Frame(n).r.ecx
         /\ Trapped(n).r.edx = Frame(n).r.edx
         /\ Trapped(n).r.esi = Caller.esi /\ Trapped(n).r.edi = Caller.edi
<1>1. PICK s : s = Frame(n).s
  OBVIOUS
<1>2. PICK r : r = Frame(n).r
  OBVIOUS
<1>3. s \in Seq(Int) /\ r \in Registers /\ r.esi = Caller.esi /\ r.edi = Caller.edi
  BY <1>1, <1>2, FrameShape
<1>4. Wrappers[n].id \in Int /\ (UsesInt(n) <=> n = "write")
  BY WrapperTable DEF UsesInt
<1>5. CASE n = "write"
  <2>1. Trapped(n) = [r |-> [r EXCEPT !.eax = Wrappers[n].id], s |-> s]
    BY <1>1, <1>2, <1>5, Zenon DEF Trapped, TRAP
  <2>2. Trapped(n).r = [r EXCEPT !.eax = Wrappers[n].id] /\ Trapped(n).s = s
    BY <2>1
  <2>3. Trapped(n).r \in Registers
    BY <1>3, <1>4, <2>2, Zenon DEF Registers
  <2> QED
    BY <1>1, <1>2, <1>3, <1>4, <1>5, <2>2, <2>3 DEF Registers
<1>6. CASE n # "write"
  <2>1. Trapped(n) = [r |-> [r EXCEPT !.eax = Wrappers[n].id, !.ebp = Len(s) + 2],
                      s |-> <<r.ebp, LABEL>> \o s]
    BY <1>1, <1>2, <1>6, Zenon DEF Trapped, SYSCALL
  <2>2. /\ Trapped(n).r = [r EXCEPT !.eax = Wrappers[n].id, !.ebp = Len(s) + 2]
        /\ Trapped(n).s = <<r.ebp, LABEL>> \o s
    BY <2>1
  <2>3. Trapped(n).r \in Registers
    <3>1. Len(s) + 2 \in Int
      BY <1>3
    <3> QED
      BY <1>3, <1>4, <2>2, <3>1, Zenon DEF Registers
  <2>4. /\ <<r.ebp, LABEL>> \in Seq(Int) /\ Len(<<r.ebp, LABEL>>) = 2 /\ <<r.ebp, LABEL>>[2] = LABEL
        /\ LABEL \in Int
    BY <1>3 DEF Registers, LABEL
  <2>5. /\ <<r.ebp, LABEL>> \o s \in Seq(Int) /\ Len(<<r.ebp, LABEL>> \o s) = 2 + Len(s)
        /\ (<<r.ebp, LABEL>> \o s)[2] = LABEL
    BY <1>3, <2>4, Pieces
  <2>6. SubSeq(<<r.ebp, LABEL>> \o s, 3, Len(<<r.ebp, LABEL>> \o s)) = s
    BY <1>3, <2>4
  <2>7. At(Trapped(n).s, Trapped(n).r.ebp, 1) \in Int
    <3>1. Trapped(n).r.ebp = Len(s) + 2
      BY <1>3, <2>2 DEF Registers
    <3>2. Len(Trapped(n).s) - (Len(s) + 2) + 1 + 1 = 2
      BY <1>3, <2>2, <2>5
    <3> QED
      BY <2>2, <2>4, <2>5, <3>1, <3>2 DEF At
  <2>8. /\ Trapped(n).r.eax = Wrappers[n].id /\ Trapped(n).r.ebx = r.ebx
        /\ Trapped(n).r.ecx = r.ecx /\ Trapped(n).r.edx = r.edx
        /\ Trapped(n).r.esi = r.esi /\ Trapped(n).r.edi = r.edi
    BY <1>3, <2>2 DEF Registers
  <2> QED
    BY <1>1, <1>2, <1>3, <1>4, <1>6, <2>2, <2>3, <2>5, <2>6, <2>7, <2>8
<1> QED
  BY <1>5, <1>6

-----------------------------------------------------------------------------
(* The invariant.                                                          *)

SysTypes ==
  /\ pc \in [Threads -> {"unborn", "user", "trap", "back", "gone"}]
  /\ name \in [Threads -> DOMAIN Wrappers \cup {"none", "raw"}]
  /\ regs \in [Threads -> Registers]
  /\ stack \in [Threads -> Seq(Int)] /\ kstack \in [Threads -> Seq(Int)]
  /\ space \in [Threads -> Threads] /\ errno \in [Threads -> Int]
  /\ routine \in [Threads -> RoutineCalls]
  /\ result \in [Threads -> Int]

\* A thread that has not come yet, and one in the program.
AtRest(t) ==
  /\ stack[t] = CallerStack
  /\ pc[t] = "unborn" => name[t] = "none" /\ routine[t] = NoRoutine
  /\ name[t] # "none" => Preserved(Caller, regs[t])
  /\ Wrapped(t) => regs[t].eax = IF result[t] < 0 THEN -1 ELSE result[t]

RawTrap(t) ==
  /\ name[t] = "raw" /\ stack[t] = CallerStack
  /\ \E id \in RawIds : regs[t] = [Caller EXCEPT !.eax = id]
WrapperTrap(t) ==
  /\ Wrapped(t) /\ stack[t] = Trapped(name[t]).s /\ regs[t] = Trapped(name[t]).r

RawBack(t) ==
  /\ name[t] = "raw" /\ stack[t] = CallerStack
  /\ Preserved(Caller, regs[t]) /\ regs[t].eax = -ENOSYS
WrapperBack(t) ==
  /\ Wrapped(t) /\ stack[t] = Trapped(name[t]).s
  /\ regs[t].ebx = Frame(name[t]).r.ebx
  /\ regs[t].esi = Caller.esi /\ regs[t].edi = Caller.edi
  /\ regs[t].eax = result[t]
  /\ ~Wrappers[name[t]].checks => result[t] >= 0
  /\ routine[t] # NoRoutine =>
       routine[t] = [name |-> RoutineOf(name[t]), args |-> Args(Wrappers[name[t]].args)]

ThreadOK(t) ==
  /\ pc[t] \in {"unborn", "user"} => AtRest(t)
  /\ pc[t] = "trap" => RawTrap(t) \/ WrapperTrap(t)
  /\ pc[t] = "back" => RawBack(t) \/ WrapperBack(t)

DispatchInv ==
  /\ SysTypes
  /\ \A t \in Threads : ThreadOK(t)
  /\ ThreadStarts

-----------------------------------------------------------------------------
(* The kernel, between the trap and the return.                            *)

\* The trap finds the words the processor or the handler pushes, and the
\* identifier of the routine.
LEMMA AtTheTrap ==
  ASSUME SysTypes, NEW t \in Threads, RawTrap(t) \/ WrapperTrap(t)
  PROVE  /\ UsesInt(name[t]) \/ At(stack[t], regs[t].ebp, 1) \in Int
         /\ RawTrap(t) => Target(regs[t].eax) \in {"ni", "wild"}
         /\ WrapperTrap(t) => Target(regs[t].eax) = RoutineOf(name[t])
<1>1. CASE RawTrap(t)
  <2>1. PICK id \in RawIds : regs[t] = [Caller EXCEPT !.eax = id]
    BY <1>1 DEF RawTrap
  <2>2. regs[t].eax = id /\ id \in Int /\ Listed(id) = "ni"
    BY <2>1, SysCallsAssumption DEF Caller
  <2>3. Target(id) \in {"ni", "wild"}
    <3>1. CASE InRange(id) /\ id # MAX_SYSCALL
      <4>1. id \in 0 .. 35
        BY <2>2, <3>1 DEF InRange, MAX_SYSCALL
      <4> QED
        BY <2>2, <3>1, <4>1 DEF Target, sys_call_table
    <3> QED
      BY <3>1 DEF Target
  <2>4. ~WrapperTrap(t)
    BY <1>1, WrapperTable DEF RawTrap, WrapperTrap, Wrapped
  <2> QED
    BY <1>1, <2>2, <2>3, <2>4 DEF RawTrap, UsesInt
<1>2. CASE WrapperTrap(t)
  <2>1. name[t] \in DOMAIN Wrappers /\ stack[t] = Trapped(name[t]).s /\ regs[t] = Trapped(name[t]).r
    BY <1>2 DEF WrapperTrap, Wrapped
  <2>2. ~RawTrap(t)
    BY <2>1, WrapperTable DEF RawTrap
  <2> QED
    BY <2>1, <2>2, TrapShape, WrapperTarget
<1> QED
  BY <1>1, <1>2

LEMMA WordReplaced ==
  ASSUME NEW k \in Seq(Int), Len(k) = 16, NEW e \in Int, NEW i \in 1 .. 16
  PROVE  /\ [k EXCEPT ![i] = e] \in Seq(Int) /\ Len([k EXCEPT ![i] = e]) = 16
         /\ \A j \in 1 .. 16 : [k EXCEPT ![i] = e][j] = IF j = i THEN e ELSE k[j]
<1>1. [k EXCEPT ![i] = e] \in Seq(Int)
  BY ExceptSeq
<1>2. Len([k EXCEPT ![i] = e]) = 16
  OBVIOUS
<1>3. \A j \in 1 .. 16 : [k EXCEPT ![i] = e][j] = IF j = i THEN e ELSE k[j]
  OBVIOUS
<1> QED
  BY <1>1, <1>2, <1>3

LEMMA KernelFrame ==
  ASSUME SysTypes, NEW t \in Threads, RawTrap(t) \/ WrapperTrap(t), NEW res \in Int
  PROVE  /\ KStack(t, res) \in Seq(Int) /\ Len(KStack(t, res)) = 16
         /\ KStack(t, res)[1] = regs[t].ebx /\ KStack(t, res)[2] = regs[t].ecx
         /\ KStack(t, res)[3] = regs[t].edx /\ KStack(t, res)[4] = regs[t].esi
         /\ KStack(t, res)[5] = regs[t].edi /\ KStack(t, res)[6] = regs[t].ebp
         /\ KStack(t, res)[7] = res
<1>1. PICK r : r = regs[t]
  OBVIOUS
<1>2. r \in Registers /\ stack[t] \in Seq(Int)
  BY <1>1 DEF SysTypes
<1> DEFINE F == IF UsesInt(name[t]) THEN CPUFrame(stack[t]) ELSE SysenterFrame(regs[t], stack[t])
<1>3. F \in Seq(Int) /\ Len(F) = 5
  <2>1. CASE UsesInt(name[t])
    <3>1. Len(stack[t]) \in Int
      BY <1>2
    <3> QED
      BY <2>1, <3>1 DEF CPUFrame, LABEL
  <2>2. CASE ~UsesInt(name[t])
    <3>1. At(stack[t], r.ebp, 1) \in Int /\ r.ebp \in Int
      BY <1>1, <1>2, <2>2, AtTheTrap DEF Registers
    <3> QED
      BY <1>1, <2>2, <3>1 DEF SysenterFrame
  <2> QED
    BY <2>1, <2>2
<1>4. /\ SAVE_ALL(r) \in Seq(Int) /\ Len(SAVE_ALL(r)) = 11
      /\ SAVE_ALL(r)[1] = r.ebx /\ SAVE_ALL(r)[2] = r.ecx /\ SAVE_ALL(r)[3] = r.edx
      /\ SAVE_ALL(r)[4] = r.esi /\ SAVE_ALL(r)[5] = r.edi /\ SAVE_ALL(r)[6] = r.ebp
  BY <1>2 DEF SAVE_ALL, Registers
<1>5. PICK f : f = F
  OBVIOUS
<1>6. PICK g : g = SAVE_ALL(r)
  OBVIOUS
<1>7. PICK k : k = g \o f
  OBVIOUS
<1>8. KStack(t, res) = [k EXCEPT ![7] = res]
  BY <1>1, <1>5, <1>6, <1>7 DEF KStack
<1>9. f \in Seq(Int) /\ Len(f) = 5 /\ g \in Seq(Int) /\ Len(g) = 11
  BY <1>3, <1>4, <1>5, <1>6
<1>10. k \in Seq(Int) /\ Len(k) = 16 /\ \A i \in 1 .. 11 : k[i] = g[i]
  <2>1. /\ g \o f \in Seq(Int) /\ Len(g \o f) = Len(g) + Len(f)
        /\ \A i \in 1 .. Len(g) : (g \o f)[i] = g[i]
    BY <1>9, Pieces, Zenon
  <2>2. k \in Seq(Int) /\ Len(k) = Len(g) + Len(f) /\ \A i \in 1 .. Len(g) : k[i] = g[i]
    BY <1>7, <2>1, Zenon
  <2> QED
    BY <1>9, <2>2
<1>11. /\ k[1] = r.ebx /\ k[2] = r.ecx /\ k[3] = r.edx /\ k[4] = r.esi /\ k[5] = r.edi /\ k[6] = r.ebp
  BY <1>4, <1>6, <1>10
<1>12. /\ [k EXCEPT ![7] = res] \in Seq(Int) /\ Len([k EXCEPT ![7] = res]) = 16
       /\ \A j \in 1 .. 16 : [k EXCEPT ![7] = res][j] = IF j = 7 THEN res ELSE k[j]
  BY <1>10, WordReplaced
<1> QED
  BY <1>1, <1>8, <1>11, <1>12

LEMMA ResumedShape ==
  ASSUME NEW k \in Seq(Int), Len(k) = 16, NEW n
  PROVE  /\ Resumed(n, k) \in Registers
         /\ Resumed(n, k).ebx = k[1] /\ Resumed(n, k).esi = k[4] /\ Resumed(n, k).edi = k[5]
         /\ Resumed(n, k).ebp = k[6] /\ Resumed(n, k).eax = k[7]
<1>1. /\ k[1] \in Int /\ k[2] \in Int /\ k[3] \in Int /\ k[4] \in Int /\ k[5] \in Int
      /\ k[6] \in Int /\ k[7] \in Int /\ k[12] \in Int /\ k[15] \in Int
  BY ElementOfSeq
<1>2. RESTORE_ALL(k) \in Registers
  BY <1>1, Zenon DEF RESTORE_ALL, Registers
<1>3. [RESTORE_ALL(k) EXCEPT !.edx = k[12], !.ecx = k[15]] \in Registers
  BY <1>1, <1>2, Zenon DEF Registers
<1> QED
  BY <1>2, <1>3 DEF Resumed, RESTORE_ALL

\* The routine of a wrapper finds its arguments where SAVE_ALL left them.
LEMMA ArgumentsFound ==
  ASSUME SysTypes, NEW t \in Threads, WrapperTrap(t)
  PROVE  SubSeq(KStack(t, 0), 1, Wrappers[name[t]].args) = Args(Wrappers[name[t]].args)
<1>1. PICK a : a = Wrappers[name[t]].args
  OBVIOUS
<1>2. PICK k : k = KStack(t, 0)
  OBVIOUS
<1>3. name[t] \in DOMAIN Wrappers /\ regs[t] = Trapped(name[t]).r
  BY DEF WrapperTrap, Wrapped
<1>4. a \in 0 .. 3
  BY <1>1, <1>3, WrapperTable
<1>5. /\ k \in Seq(Int) /\ Len(k) = 16
      /\ k[1] = regs[t].ebx /\ k[2] = regs[t].ecx /\ k[3] = regs[t].edx
  BY <1>2, KernelFrame
<1>6. (a >= 1 => regs[t].ebx = 11) /\ (a >= 2 => regs[t].ecx = 12) /\ (a >= 3 => regs[t].edx = 13)
  BY <1>1, <1>3, TrapShape, FrameShape
<1>7. Args(a) \in Seq(Int) /\ Len(Args(a)) = a /\ \A i \in 1 .. a : Args(a)[i] = 10 + i
  BY <1>4, ArgsShape
<1>8. \A i \in 1 .. a : k[i] = 10 + i /\ k[i] \in Int
  BY <1>4, <1>5, <1>6
<1>9. /\ SubSeq(k, 1, a) \in Seq(Int)
      /\ Len(SubSeq(k, 1, a)) = IF 1 <= a THEN a - 1 + 1 ELSE 0
      /\ \A i \in 1 .. a - 1 + 1 : SubSeq(k, 1, a)[i] = k[1 + i - 1]
  BY <1>4, <1>8, SubSeqProperties
<1>10. Len(SubSeq(k, 1, a)) = a /\ \A i \in 1 .. a : SubSeq(k, 1, a)[i] = 10 + i
  BY <1>4, <1>8, <1>9
<1>11. SubSeq(k, 1, a) = Args(a)
  BY <1>7, <1>9, <1>10, SeqEqual
<1> QED
  BY <1>1, <1>2, <1>11

\* What a thread resumes with.
LEMMA KernelLeaves ==
  ASSUME SysTypes, NEW t \in Threads, RawTrap(t) \/ WrapperTrap(t), NEW res \in Int
  PROVE  /\ Resumed(name[t], KStack(t, res)) \in Registers
         /\ Preserved(regs[t], Resumed(name[t], KStack(t, res)))
         /\ Resumed(name[t], KStack(t, res)).eax = res
<1>1. PICK k \in Seq(Int) :
        /\ k = KStack(t, res) /\ Len(k) = 16
        /\ k[1] = regs[t].ebx /\ k[4] = regs[t].esi /\ k[5] = regs[t].edi /\ k[6] = regs[t].ebp
        /\ k[7] = res
  BY KernelFrame
<1>2. /\ Resumed(name[t], k) \in Registers
      /\ Resumed(name[t], k).ebx = k[1] /\ Resumed(name[t], k).esi = k[4]
      /\ Resumed(name[t], k).edi = k[5] /\ Resumed(name[t], k).ebp = k[6]
      /\ Resumed(name[t], k).eax = k[7]
  BY <1>1, ResumedShape
<1> QED
  BY <1>1, <1>2 DEF Preserved

-----------------------------------------------------------------------------
(* What the wrapper takes off the stack again.                             *)

LEMMA OneWord ==
  ASSUME NEW s \in Seq(Int), NEW m \in Int, s[m] \in Int
  PROVE  /\ SubSeq(s, m, m) \in Seq(Int) /\ Len(SubSeq(s, m, m)) = 1
         /\ SubSeq(s, m, m)[1] = s[m]
<1>1. \A i \in m .. m : s[i] \in Int
  OBVIOUS
<1>2. /\ SubSeq(s, m, m) \in Seq(Int)
      /\ Len(SubSeq(s, m, m)) = IF m <= m THEN m - m + 1 ELSE 0
      /\ \A i \in 1 .. m - m + 1 : SubSeq(s, m, m)[i] = s[m + i - 1]
  BY <1>1, SubSeqProperties
<1> QED
  BY <1>2

LEMMA FrameTakenOff ==
  ASSUME NEW n \in DOMAIN Wrappers
  PROVE  LET w  == Wrappers[n]
             s1 == Frame(n).s
             s2 == IF w.saves THEN Tail(s1) ELSE s1
         IN  /\ w.saves => Head(s1) = Caller.ebx
             /\ Head(s2) = Caller.ebp
             /\ SubSeq(s2, 3 + w.args, Len(s2)) = CallerStack
<1> DEFINE w  == Wrappers[n]
           s1 == Frame(n).s
           s2 == IF w.saves THEN Tail(s1) ELSE s1
<1>1. PICK a \in 0 .. 3 : a = w.args
  BY WrapperTable
<1>2. PICK b \in Seq(Int) : b = Base(a)
  BY BaseShape
<1>3. Len(b) = a + 3 /\ b[1] = Caller.ebp /\ b[a + 3] = 97
  BY <1>2, BaseShape
<1>4. s1 = IF w.saves THEN <<Caller.ebx>> \o b ELSE b
  BY <1>1, <1>2, FrameShape
<1>5. Caller.ebx \in Int
  BY DEF Caller
<1>6. Tail(<<Caller.ebx>> \o b) = b /\ Head(<<Caller.ebx>> \o b) = Caller.ebx
  <2>1. PICK e \in Int : e = Caller.ebx
    BY <1>5
  <2>2. Tail(<<e>> \o b) = b
    OBVIOUS
  <2>3. Head(<<e>> \o b) = e
    OBVIOUS
  <2> QED
    BY <2>1, <2>2, <2>3
<1>7. s2 = b /\ (w.saves => Head(s1) = Caller.ebx)
  BY <1>4, <1>6
<1>8. Head(b) = Caller.ebp
  BY <1>3
<1>9. SubSeq(b, 3 + a, Len(b)) = CallerStack
  <2>1. CallerStack \in Seq(Int) /\ Len(CallerStack) = 1 /\ CallerStack[1] = 97
    BY DEF CallerStack
  <2>2. 3 + a = Len(b) /\ b[3 + a] = 97 /\ 3 + a \in Int
    BY <1>3
  <2>3. SubSeq(b, 3 + a, 3 + a) \in Seq(Int) /\ Len(SubSeq(b, 3 + a, 3 + a)) = 1
        /\ SubSeq(b, 3 + a, 3 + a)[1] = 97
    BY <2>2, OneWord
  <2>4. SubSeq(b, 3 + a, 3 + a) = CallerStack
    BY <2>1, <2>3, SeqEqual
  <2> QED
    BY <2>2, <2>4
<1> HIDE DEF s2, s1, w
<1>10. /\ w.saves => Head(s1) = Caller.ebx
       /\ Head(s2) = Caller.ebp
       /\ SubSeq(s2, 3 + w.args, Len(s2)) = CallerStack
  BY <1>1, <1>7, <1>8, <1>9
<1> QED
  BY <1>10 DEF s2, s1, w

\* The wrapper's way back to its caller.
LEMMA WrapperReturns ==
  ASSUME SysTypes, NEW t \in Threads, WrapperBack(t), Epilogue(t)
  PROVE  /\ stack' = [stack EXCEPT ![t] = CallerStack]
         /\ regs' = [regs EXCEPT ![t] = regs'[t]] /\ regs'[t] \in Registers
         /\ Preserved(Caller, regs'[t])
         /\ regs'[t].eax = IF result[t] < 0 THEN -1 ELSE result[t]
         /\ errno' \in [Threads -> Int]
         /\ \A s \in Threads : errno'[s] # errno[s] =>
              space[t] = s /\ result[t] < 0 /\ errno'[s] = -result[t]
<1>1. PICK n \in DOMAIN Wrappers : n = name[t]
  BY DEF WrapperBack, Wrapped
<1>2. PICK w : w = Wrappers[n]
  OBVIOUS
<1>3. PICK s1 : s1 = Frame(n).s
  OBVIOUS
<1>4. PICK s2 : s2 = IF w.saves THEN Tail(s1) ELSE s1
  OBVIOUS
<1>5. s1 = IF UsesInt(n) THEN stack[t] ELSE SubSeq(stack[t], 3, Len(stack[t]))
  BY <1>1, <1>3, TrapShape DEF WrapperBack
<1>6. /\ w.saves => Head(s1) = Caller.ebx
      /\ Head(s2) = Caller.ebp
      /\ SubSeq(s2, 3 + w.args, Len(s2)) = CallerStack
  BY <1>2, <1>3, <1>4, FrameTakenOff
<1>7. PICK failed \in BOOLEAN : failed <=> w.checks /\ IsError(regs[t].eax)
  OBVIOUS
<1>8. /\ regs' = [regs EXCEPT ![t].eax = IF failed THEN -1 ELSE @,
                               ![t].ebx = IF w.saves THEN Head(s1) ELSE @,
                               ![t].ebp = Head(s2)]
      /\ stack' = [stack EXCEPT ![t] = SubSeq(s2, 3 + w.args, Len(s2))]
      /\ errno' = [errno EXCEPT ![space[t]] = IF failed THEN -regs[t].eax ELSE @]
  BY <1>1, <1>2, <1>4, <1>5, <1>7, Zenon DEF Epilogue
<1>9. /\ regs[t].ebx = Frame(n).r.ebx /\ regs[t].esi = Caller.esi /\ regs[t].edi = Caller.edi
      /\ regs[t].eax = result[t] /\ (~w.checks => result[t] >= 0)
      /\ (~w.saves => regs[t].ebx = Caller.ebx)
  BY <1>1, <1>2, FrameShape DEF WrapperBack
<1>10. /\ regs \in [Threads -> Registers] /\ result[t] \in Int
       /\ errno \in [Threads -> Int] /\ space[t] \in Threads
  BY DEF SysTypes
<1>11. failed <=> result[t] < 0
  BY <1>7, <1>9, <1>10 DEF IsError
<1>12. PICK r \in Registers : r = regs[t]
  BY <1>10
<1>13. regs' = [regs EXCEPT ![t] = [r EXCEPT !.eax = IF failed THEN -1 ELSE @,
                                              !.ebx = IF w.saves THEN Head(s1) ELSE @,
                                              !.ebp = Head(s2)]]
  BY <1>8, <1>10, <1>12
<1>14. regs'[t] = [r EXCEPT !.eax = IF failed THEN -1 ELSE @,
                            !.ebx = IF w.saves THEN Head(s1) ELSE @,
                            !.ebp = Head(s2)]
  BY <1>10, <1>13
<1>15. /\ regs'[t].eax = (IF failed THEN -1 ELSE result[t])
       /\ regs'[t].ebx = Caller.ebx /\ regs'[t].ebp = Caller.ebp
       /\ regs'[t].esi = Caller.esi /\ regs'[t].edi = Caller.edi
  BY <1>6, <1>9, <1>12, <1>14 DEF Registers
<1>16. regs'[t] \in Registers
  <2>1. Head(s2) \in Int /\ (w.saves => Head(s1) \in Int) /\ -1 \in Int
    BY <1>6 DEF Caller
  <2> QED
    BY <1>14, <2>1 DEF Registers
<1>17. errno' \in [Threads -> Int]
  <2>1. -regs[t].eax \in Int
    BY <1>9, <1>10
  <2> QED
    BY <1>8, <1>10, <2>1
<1>18. ASSUME NEW s \in Threads, errno'[s] # errno[s]
       PROVE  space[t] = s /\ result[t] < 0 /\ errno'[s] = -result[t]
  BY <1>8, <1>9, <1>10, <1>11, <1>18
<1> QED
  BY <1>6, <1>8, <1>11, <1>13, <1>14, <1>15, <1>16, <1>17, <1>18 DEF Preserved

-----------------------------------------------------------------------------
(* The steps.                                                              *)

LEMMA NoArguments ==
  ASSUME NEW x \in {"ni", "none", "wild"}
  PROVE  [name |-> x, args |-> <<>>] \in RoutineCalls
<1>1. x \in RoutineNames
  BY DEF RoutineNames, Results
<1>2. <<>> \in Seq(Int)
  BY EmptySeq
<1> QED
  BY <1>1, <1>2, Zenon DEF RoutineCalls

LEMMA CallerTypes ==
  Caller \in Registers /\ CallerStack \in Seq(Int) /\ NoRoutine \in RoutineCalls
<1>1. Caller \in Registers
  BY DEF Caller, Registers
<1>2. CallerStack \in Seq(Int)
  BY DEF CallerStack
<1>3. NoRoutine \in RoutineCalls
  BY NoArguments DEF NoRoutine
<1> QED
  BY <1>1, <1>2, <1>3

\* What a step leaves to the threads that have no part in it.
LEMMA NotConcerned ==
  ASSUME NEW u, ThreadOK(u), pc'[u] = pc[u], name'[u] = name[u], regs'[u] = regs[u],
         stack'[u] = stack[u], routine'[u] = routine[u], result'[u] = result[u]
  PROVE  ThreadOK(u)'
  BY DEF ThreadOK, AtRest, RawTrap, WrapperTrap, RawBack, WrapperBack, Wrapped

LEMMA DispatchStart == Init => DispatchInv
<1> SUFFICES ASSUME Init PROVE DispatchInv
  OBVIOUS
<1>1. SysTypes
  BY CallerTypes DEF Init, SysTypes
<1>2. \A t \in Threads : ThreadOK(t)
  BY WrapperTable DEF Init, ThreadOK, AtRest, Wrapped
<1>3. ThreadStarts
  BY DEF Init, ThreadStarts
<1> QED
  BY <1>1, <1>2, <1>3 DEF DispatchInv

LEMMA DispatchCall ==
  ASSUME DispatchInv, NEW t \in Threads, NEW n \in Calls, Call(t, n)
  PROVE  DispatchInv'
<1>1. n \in DOMAIN Wrappers
  BY SysCallsAssumption
<1>2. /\ pc[t] = "user" /\ pc' = [pc EXCEPT ![t] = "trap"] /\ name' = [name EXCEPT ![t] = n]
      /\ regs' = [regs EXCEPT ![t] = Trapped(n).r] /\ stack' = [stack EXCEPT ![t] = Trapped(n).s]
      /\ routine' = [routine EXCEPT ![t] = NoRoutine] /\ result' = [result EXCEPT ![t] = 0]
      /\ UNCHANGED <<kstack, space, errno>>
  BY Zenon DEF Call, Trapped, Frame
<1>3. Trapped(n).r \in Registers /\ Trapped(n).s \in Seq(Int)
  BY <1>1, TrapShape
<1>4. SysTypes'
  BY <1>1, <1>2, <1>3, CallerTypes DEF DispatchInv, SysTypes
<1>5. ASSUME NEW u \in Threads PROVE ThreadOK(u)'
  <2>1. CASE u # t
    BY <1>2, <2>1, NotConcerned DEF DispatchInv, SysTypes
  <2>2. CASE u = t
    <3>1. pc'[t] = "trap" /\ name'[t] = n /\ regs'[t] = Trapped(n).r /\ stack'[t] = Trapped(n).s
      BY <1>2 DEF DispatchInv, SysTypes
    <3>2. WrapperTrap(t)'
      BY <1>1, <3>1 DEF WrapperTrap, Wrapped
    <3> QED
      BY <2>2, <3>1, <3>2 DEF ThreadOK
  <2> QED
    BY <2>1, <2>2
<1>6. ThreadStarts'
  BY <1>2 DEF DispatchInv, ThreadStarts
<1> QED
  BY <1>4, <1>5, <1>6 DEF DispatchInv

LEMMA DispatchRaw ==
  ASSUME DispatchInv, NEW t \in Threads, NEW id \in RawIds, RawCall(t, id)
  PROVE  DispatchInv'
<1>1. /\ pc[t] = "user" /\ pc' = [pc EXCEPT ![t] = "trap"] /\ name' = [name EXCEPT ![t] = "raw"]
      /\ regs' = [regs EXCEPT ![t] = [Caller EXCEPT !.eax = id]]
      /\ routine' = [routine EXCEPT ![t] = NoRoutine] /\ result' = [result EXCEPT ![t] = 0]
      /\ UNCHANGED <<stack, kstack, space, errno>>
  BY DEF RawCall
<1>2. [Caller EXCEPT !.eax = id] \in Registers
  <2>1. id \in Int
    BY SysCallsAssumption
  <2> QED
    BY <2>1, CallerTypes, Zenon DEF Registers
<1>3. SysTypes'
  BY <1>1, <1>2, CallerTypes DEF DispatchInv, SysTypes
<1>4. ASSUME NEW u \in Threads PROVE ThreadOK(u)'
  <2>1. CASE u # t
    BY <1>1, <2>1, NotConcerned DEF DispatchInv, SysTypes
  <2>2. CASE u = t
    <3>1. /\ pc'[t] = "trap" /\ name'[t] = "raw" /\ regs'[t] = [Caller EXCEPT !.eax = id]
          /\ stack'[t] = stack[t]
      BY <1>1 DEF DispatchInv, SysTypes
    <3>2. stack[t] = CallerStack
      BY <1>1 DEF DispatchInv, ThreadOK, AtRest
    <3>3. RawTrap(t)'
      BY <3>1, <3>2 DEF RawTrap
    <3> QED
      BY <2>2, <3>1, <3>3 DEF ThreadOK
  <2> QED
    BY <2>1, <2>2
<1>5. ThreadStarts'
  BY <1>1 DEF DispatchInv, ThreadStarts
<1> QED
  BY <1>3, <1>4, <1>5 DEF DispatchInv

LEMMA DispatchWild ==
  ASSUME DispatchInv, NEW t \in Threads, WildCall(t)
  PROVE  DispatchInv'
<1>1. /\ pc' = [pc EXCEPT ![t] = "gone"]
      /\ routine' = [routine EXCEPT ![t] = [name |-> "wild", args |-> <<>>]]
      /\ UNCHANGED <<name, regs, stack, kstack, space, errno, result>>
  BY DEF WildCall
<1>2. SysTypes'
  <2>1. [name |-> "wild", args |-> <<>>] \in RoutineCalls
    BY NoArguments
  <2> QED
    BY <1>1, <2>1 DEF DispatchInv, SysTypes
<1>3. ASSUME NEW u \in Threads PROVE ThreadOK(u)'
  <2>1. CASE u # t
    BY <1>1, <2>1, NotConcerned DEF DispatchInv, SysTypes
  <2>2. CASE u = t
    BY <1>1, <2>2 DEF DispatchInv, SysTypes, ThreadOK
  <2> QED
    BY <2>1, <2>2
<1>4. ThreadStarts'
  BY <1>1 DEF DispatchInv, ThreadStarts
<1> QED
  BY <1>2, <1>3, <1>4 DEF DispatchInv

LEMMA DispatchFinish ==
  ASSUME DispatchInv, NEW t \in Threads, Finish(t)
  PROVE  DispatchInv'
<1>1. /\ pc[t] = "back" /\ pc' = [pc EXCEPT ![t] = "user"]
      /\ UNCHANGED <<name, kstack, space, routine, result>>
  BY DEF Finish
<1>2. SysTypes /\ (RawBack(t) \/ WrapperBack(t))
  BY <1>1 DEF DispatchInv, ThreadOK
<1>3. ThreadStarts'
  BY <1>1 DEF DispatchInv, ThreadStarts
<1>4. CASE name[t] # "raw" /\ Epilogue(t)
  <2>1. WrapperBack(t)
    BY <1>2, <1>4 DEF RawBack
  <2>2. /\ stack' = [stack EXCEPT ![t] = CallerStack]
        /\ regs' = [regs EXCEPT ![t] = regs'[t]] /\ regs'[t] \in Registers
        /\ Preserved(Caller, regs'[t])
        /\ regs'[t].eax = IF result[t] < 0 THEN -1 ELSE result[t]
        /\ errno' \in [Threads -> Int]
    BY <1>2, <1>4, <2>1, WrapperReturns
  <2>3. SysTypes'
    BY <1>1, <1>2, <2>2, CallerTypes DEF SysTypes
  <2>4. ASSUME NEW u \in Threads PROVE ThreadOK(u)'
    <3>1. CASE u # t
      BY <1>1, <1>2, <2>2, <3>1, NotConcerned DEF DispatchInv, SysTypes
    <3>2. CASE u = t
      <4>1. pc'[t] = "user" /\ stack'[t] = CallerStack
        BY <1>1, <1>2, <2>2 DEF SysTypes
      <4>2. AtRest(t)'
        BY <1>1, <2>2, <4>1 DEF AtRest, Preserved, Wrapped
      <4> QED
        BY <3>2, <4>1, <4>2 DEF ThreadOK
    <3> QED
      BY <3>1, <3>2
  <2> QED
    BY <1>3, <2>3, <2>4 DEF DispatchInv
<1>5. CASE name[t] = "raw" /\ UNCHANGED <<regs, stack, errno>>
  <2>1. RawBack(t) /\ ~Wrapped(t)
    BY <1>2, <1>5, WrapperTable DEF WrapperBack, Wrapped
  <2>2. SysTypes'
    BY <1>1, <1>2, <1>5 DEF SysTypes
  <2>3. ASSUME NEW u \in Threads PROVE ThreadOK(u)'
    <3>1. CASE u # t
      BY <1>1, <1>2, <1>5, <3>1, NotConcerned DEF DispatchInv, SysTypes
    <3>2. CASE u = t
      <4>1. pc'[t] = "user"
        BY <1>1, <1>2 DEF SysTypes
      <4>2. AtRest(t)'
        BY <1>1, <1>5, <2>1, <4>1 DEF AtRest, RawBack, Preserved, Wrapped
      <4> QED
        BY <3>2, <4>1, <4>2 DEF ThreadOK
    <3> QED
      BY <3>1, <3>2
  <2> QED
    BY <1>3, <2>2, <2>3 DEF DispatchInv
<1> QED
  BY <1>4, <1>5 DEF Finish

\* A thread that the kernel lets return from the call of t with res.
LEMMA BackFromKernel ==
  ASSUME SysTypes, NEW t \in Threads, RawTrap(t) \/ WrapperTrap(t), NEW res \in Int,
         RawTrap(t) => res = -ENOSYS,
         WrapperTrap(t) /\ ~Wrappers[name[t]].checks => res >= 0,
         NEW u \in Threads, pc'[u] = "back", name'[u] = name[t], stack'[u] = stack[t],
         regs'[u] = Resumed(name[t], KStack(t, res)), result'[u] = res,
         WrapperTrap(t) /\ routine'[u] # NoRoutine =>
           routine'[u] = [name |-> RoutineOf(name[t]), args |-> Args(Wrappers[name[t]].args)]
  PROVE  ThreadOK(u)'
<1>1. Preserved(regs[t], regs'[u]) /\ regs'[u].eax = res
  BY KernelLeaves
<1>2. CASE RawTrap(t)
  <2>1. Preserved(Caller, regs[t])
    BY <1>2 DEF RawTrap, Preserved, Caller
  <2>2. RawBack(u)'
    BY <1>1, <1>2, <2>1 DEF RawBack, RawTrap, Preserved, ENOSYS
  <2> QED
    BY <2>2 DEF ThreadOK
<1>3. CASE WrapperTrap(t)
  <2>1. name[t] \in DOMAIN Wrappers /\ stack[t] = Trapped(name[t]).s /\ regs[t] = Trapped(name[t]).r
    BY <1>3 DEF WrapperTrap, Wrapped
  <2>2. /\ regs[t].ebx = Frame(name[t]).r.ebx
        /\ regs[t].esi = Caller.esi /\ regs[t].edi = Caller.edi
    BY <2>1, TrapShape
  <2>3. WrapperBack(u)'
    BY <1>1, <1>3, <2>1, <2>2 DEF WrapperBack, Wrapped, Preserved
  <2> QED
    BY <2>3 DEF ThreadOK
<1> QED
  BY <1>2, <1>3

\* The routine that is called, with what, and what it may return.
LEMMA RoutineCalled ==
  ASSUME DispatchInv, NEW t \in Threads, SystemCall(t),
         NEW res \in Results[Target(regs[t].eax)]
  PROVE  /\ SysTypes /\ pc[t] = "trap" /\ (RawTrap(t) \/ WrapperTrap(t))
         /\ res \in Int
         /\ RawTrap(t) => Target(regs[t].eax) = "ni" /\ res = -ENOSYS
         /\ WrapperTrap(t) =>
              /\ Target(regs[t].eax) = RoutineOf(name[t])
              /\ ~Wrappers[name[t]].checks => res >= 0
              /\ routine' = [routine EXCEPT ![t] =
                    [name |-> RoutineOf(name[t]), args |-> Args(Wrappers[name[t]].args)]]
         /\ \E c \in RoutineCalls : routine' = [routine EXCEPT ![t] = c]
<1>1. /\ SysTypes /\ pc[t] = "trap" /\ (RawTrap(t) \/ WrapperTrap(t))
      /\ Target(regs[t].eax) # "wild"
  BY DEF DispatchInv, ThreadOK, SystemCall
<1>2. routine' = [routine EXCEPT ![t] =
        [name |-> Target(regs[t].eax),
         args |-> SubSeq(KStack(t, 0), 1, IF name[t] = "raw" THEN 0 ELSE Wrappers[name[t]].args)]]
  BY DEF SystemCall
<1>3. CASE RawTrap(t)
  <2>1. Target(regs[t].eax) = "ni" /\ name[t] = "raw" /\ ~WrapperTrap(t)
    BY <1>1, <1>3, AtTheTrap, WrapperTable DEF RawTrap, WrapperTrap, Wrapped
  <2>2. res = -ENOSYS /\ res \in Int
    BY <2>1 DEF Results, ENOSYS
  <2>3. SubSeq(KStack(t, 0), 1, 0) = <<>>
    BY SubSeqEmpty
  <2>4. [name |-> "ni", args |-> <<>>] \in RoutineCalls
    BY NoArguments
  <2>5. routine' = [routine EXCEPT ![t] = [name |-> "ni", args |-> <<>>]]
    BY <1>2, <2>1, <2>3
  <2> QED
    BY <1>1, <2>1, <2>2, <2>4, <2>5
<1>4. CASE WrapperTrap(t)
  <2>1. PICK n \in DOMAIN Wrappers : n = name[t] /\ n # "raw" /\ ~RawTrap(t)
    BY <1>4, WrapperTable DEF WrapperTrap, Wrapped, RawTrap
  <2>2. Target(regs[t].eax) = RoutineOf(n)
    BY <1>1, <1>4, <2>1, AtTheTrap
  <2>3. res \in Int /\ (~Wrappers[n].checks => res >= 0)
    BY <2>2, WrapperResults
  <2>4. SubSeq(KStack(t, 0), 1, Wrappers[n].args) = Args(Wrappers[n].args)
    BY <1>1, <1>4, <2>1, ArgumentsFound
  <2>5. routine' = [routine EXCEPT ![t] = [name |-> RoutineOf(n), args |-> Args(Wrappers[n].args)]]
    BY <1>2, <2>1, <2>2, <2>4
  <2>6. Args(Wrappers[n].args) \in Seq(Int) /\ RoutineOf(n) \in RoutineNames
    BY WrapperTable, WrapperResults, ArgsShape DEF RoutineNames
  <2>7. [name |-> RoutineOf(n), args |-> Args(Wrappers[n].args)] \in RoutineCalls
    BY <2>6 DEF RoutineCalls
  <2> QED
    BY <1>1, <2>1, <2>2, <2>3, <2>5, <2>7
<1> QED
  BY <1>1, <1>3, <1>4

LEMMA DispatchReturn ==
  ASSUME DispatchInv, NEW t \in Threads, SystemCall(t),
         NEW res \in Results[Target(regs[t].eax)], Return(t, res)
  PROVE  DispatchInv'
<1>1. /\ SysTypes /\ pc[t] = "trap" /\ (RawTrap(t) \/ WrapperTrap(t)) /\ res \in Int
      /\ RawTrap(t) => res = -ENOSYS
      /\ WrapperTrap(t) =>
           /\ ~Wrappers[name[t]].checks => res >= 0
           /\ routine' = [routine EXCEPT ![t] =
                [name |-> RoutineOf(name[t]), args |-> Args(Wrappers[name[t]].args)]]
  BY RoutineCalled
<1>2. PICK c \in RoutineCalls : routine' = [routine EXCEPT ![t] = c]
  BY RoutineCalled
<1>3. PICK p \in {"gone", "back"} : pc' = [pc EXCEPT ![t] = p]
  BY DEF Return
<1>4. PICK r \in Registers : r = Resumed(name[t], KStack(t, res))
  BY <1>1, KernelLeaves
<1>5. /\ regs' = [regs EXCEPT ![t] = r] /\ result' = [result EXCEPT ![t] = res]
      /\ UNCHANGED <<name, stack, kstack, space, errno>>
  BY <1>4 DEF Return
<1>6. SysTypes'
  BY <1>1, <1>2, <1>3, <1>5 DEF SysTypes
<1>7. ASSUME NEW u \in Threads PROVE ThreadOK(u)'
  <2>1. CASE u # t
    BY <1>1, <1>2, <1>3, <1>5, <2>1, NotConcerned DEF DispatchInv, SysTypes
  <2>2. CASE u = t
    <3>1. pc'[t] = p /\ regs'[t] = r /\ result'[t] = res
      BY <1>1, <1>3, <1>5 DEF SysTypes
    <3>2. CASE p = "gone"
      BY <2>2, <3>1, <3>2 DEF ThreadOK
    <3>3. CASE p = "back"
      <4>1. WrapperTrap(t) =>
              routine'[t] = [name |-> RoutineOf(name[t]), args |-> Args(Wrappers[name[t]].args)]
        BY <1>1 DEF SysTypes
      <4> QED
        BY <1>1, <1>4, <1>5, <2>2, <3>1, <3>3, <4>1, BackFromKernel
    <3> QED
      BY <3>2, <3>3
  <2> QED
    BY <2>1, <2>2
<1>8. ThreadStarts'
  BY <1>5 DEF DispatchInv, ThreadStarts
<1> QED
  BY <1>6, <1>7, <1>8 DEF DispatchInv

\* Only the wrappers of fork and clone reach those routines.
LEMMA NamesOfTwo ==
  ASSUME NEW n \in DOMAIN Wrappers
  PROVE  (RoutineOf(n) = "fork" => n = "fork") /\ (RoutineOf(n) = "clone" => n = "clone")
  BY DEF RoutineOf

LEMMA DispatchFork ==
  ASSUME DispatchInv, NEW t \in Threads, SystemCall(t),
         NEW res \in Results[Target(regs[t].eax)], Target(regs[t].eax) = "fork",
         NEW u \in Threads, Unborn(u), ReturnTwice(t, u, res)
  PROVE  DispatchInv'
<1>1. /\ SysTypes /\ pc[t] = "trap" /\ res \in Int
      /\ RawTrap(t) => Target(regs[t].eax) = "ni"
      /\ RawTrap(t) \/ WrapperTrap(t)
      /\ WrapperTrap(t) =>
           /\ Target(regs[t].eax) = RoutineOf(name[t])
           /\ routine' = [routine EXCEPT ![t] =
                [name |-> RoutineOf(name[t]), args |-> Args(Wrappers[name[t]].args)]]
           /\ ~Wrappers[name[t]].checks => res >= 0
  BY RoutineCalled
<1>2. PICK c \in RoutineCalls : routine' = [routine EXCEPT ![t] = c]
  BY RoutineCalled
<1>3. WrapperTrap(t) /\ ~RawTrap(t) /\ name[t] \in DOMAIN Wrappers
  BY <1>1 DEF WrapperTrap, Wrapped
<1>4. PICK r \in Registers : r = Resumed(name[t], KStack(t, res))
  BY <1>1, KernelLeaves
<1>5. PICK z \in Registers : z = Resumed(name[t], KStack(t, 0))
  BY <1>1, KernelLeaves
<1>6. /\ pc' = [pc EXCEPT ![t] = "back", ![u] = "back"]
      /\ name' = [name EXCEPT ![u] = name[t]]
      /\ regs' = [regs EXCEPT ![t] = r, ![u] = z]
      /\ stack' = [stack EXCEPT ![u] = stack[t]]
      /\ result' = [result EXCEPT ![t] = res, ![u] = 0]
      /\ errno' = [errno EXCEPT ![u] = errno[space[t]]]
      /\ UNCHANGED <<kstack, space>>
  BY <1>4, <1>5 DEF ReturnTwice
<1>7. pc[u] = "unborn" /\ u # t /\ routine[u] = NoRoutine
  BY <1>1 DEF Unborn, DispatchInv, ThreadOK, AtRest
<1>8. SysTypes'
  <2>1. /\ name[t] \in DOMAIN Wrappers \cup {"none", "raw"} /\ stack[t] \in Seq(Int)
        /\ errno[space[t]] \in Int /\ 0 \in Int
    BY <1>1 DEF SysTypes
  <2>2. pc' \in [Threads -> {"unborn", "user", "trap", "back", "gone"}]
    BY <1>1, <1>6 DEF SysTypes
  <2>3. name' \in [Threads -> DOMAIN Wrappers \cup {"none", "raw"}] /\ stack' \in [Threads -> Seq(Int)]
    BY <1>1, <1>6, <2>1 DEF SysTypes
  <2>4. regs' \in [Threads -> Registers] /\ routine' \in [Threads -> RoutineCalls]
    BY <1>1, <1>2, <1>6 DEF SysTypes
  <2>5. errno' \in [Threads -> Int] /\ result' \in [Threads -> Int]
    BY <1>1, <1>6, <2>1 DEF SysTypes
  <2> QED
    BY <1>1, <1>6, <2>2, <2>3, <2>4, <2>5 DEF SysTypes
<1>9. ASSUME NEW v \in Threads PROVE ThreadOK(v)'
  <2>1. CASE v \notin {t, u}
    BY <1>1, <1>2, <1>6, <2>1, NotConcerned DEF DispatchInv, SysTypes
  <2>2. CASE v = t
    <3>1. /\ pc'[t] = "back" /\ name'[t] = name[t] /\ regs'[t] = r /\ stack'[t] = stack[t]
          /\ result'[t] = res
          /\ routine'[t] = [name |-> RoutineOf(name[t]), args |-> Args(Wrappers[name[t]].args)]
      BY <1>1, <1>3, <1>6, <1>7 DEF SysTypes
    <3> QED
      BY <1>1, <1>3, <1>4, <2>2, <3>1, BackFromKernel
  <2>3. CASE v = u
    <3>1. /\ pc'[u] = "back" /\ name'[u] = name[t] /\ regs'[u] = z /\ stack'[u] = stack[t]
          /\ result'[u] = 0 /\ routine'[u] = NoRoutine
      BY <1>1, <1>2, <1>6, <1>7 DEF SysTypes
    <3>2. 0 \in Int /\ 0 >= 0 /\ regs'[u] = Resumed(name[t], KStack(t, 0))
      BY <1>5, <3>1
    <3>3. WrapperTrap(t) => 0 >= 0
      OBVIOUS
    <3> QED
      BY <1>1, <1>3, <2>3, <3>1, <3>2, <3>3, BackFromKernel
  <2> QED
    BY <2>1, <2>2, <2>3
<1>10. ThreadStarts'
  BY <1>6 DEF DispatchInv, ThreadStarts
<1> QED
  BY <1>8, <1>9, <1>10 DEF DispatchInv

\* What clone writes in the copy of the kernel stack, and what is taken from it.
LEMMA ThreadFrameShape ==
  ASSUME NEW k \in Seq(Int), Len(k) = 16, NEW f \in Int, NEW s \in Int
  PROVE  /\ ThreadFrame(k, f, s) \in Seq(Int) /\ Len(ThreadFrame(k, f, s)) = 16
         /\ ThreadFrame(k, f, s)[12] = f /\ ThreadFrame(k, f, s)[15] = s
<1>1. PICK m : m = [k EXCEPT ![12] = f]
  OBVIOUS
<1>2. m \in Seq(Int) /\ Len(m) = 16 /\ m[12] = f
  BY <1>1, WordReplaced
<1>3. ThreadFrame(k, f, s) = [m EXCEPT ![15] = s]
  BY <1>1 DEF ThreadFrame
<1>4. /\ [m EXCEPT ![15] = s] \in Seq(Int) /\ Len([m EXCEPT ![15] = s]) = 16
      /\ \A j \in 1 .. 16 : [m EXCEPT ![15] = s][j] = IF j = 15 THEN s ELSE m[j]
  BY <1>2, WordReplaced
<1> QED
  BY <1>2, <1>3, <1>4

LEMMA DispatchClone ==
  ASSUME DispatchInv, NEW t \in Threads, SystemCall(t),
         NEW res \in Results[Target(regs[t].eax)], Target(regs[t].eax) = "clone",
         NEW u \in Threads, Unborn(u), ReturnWithThread(t, u, res)
  PROVE  DispatchInv'
<1>1. /\ SysTypes /\ pc[t] = "trap" /\ res \in Int
      /\ RawTrap(t) => Target(regs[t].eax) = "ni"
      /\ RawTrap(t) \/ WrapperTrap(t)
      /\ WrapperTrap(t) =>
           /\ Target(regs[t].eax) = RoutineOf(name[t])
           /\ routine' = [routine EXCEPT ![t] =
                [name |-> RoutineOf(name[t]), args |-> Args(Wrappers[name[t]].args)]]
           /\ ~Wrappers[name[t]].checks => res >= 0
  BY RoutineCalled
<1>2. PICK c \in RoutineCalls : routine' = [routine EXCEPT ![t] = c]
  BY RoutineCalled
<1>3. WrapperTrap(t) /\ ~RawTrap(t) /\ name[t] \in DOMAIN Wrappers
  BY <1>1 DEF WrapperTrap, Wrapped
<1>4. name[t] = "clone"
  BY <1>1, <1>3, NamesOfTwo
<1>5. routine'[t].args = Args(2)
  BY <1>1, <1>3, <1>4, CloneArgs DEF SysTypes
<1>6. Args(2)[1] = 11 /\ Args(2)[2] = 12
  BY ArgsShape
<1>7. PICK r \in Registers : r = Resumed(name[t], KStack(t, res))
  BY <1>1, KernelLeaves
<1>8. PICK k \in Seq(Int) : k = ThreadFrame(KStack(t, res), 11, 12) /\ Len(k) = 16 /\ k[12] = 11 /\ k[15] = 12
  BY <1>1, KernelFrame, ThreadFrameShape
<1>9. PICK z \in Registers : z = Resumed(name[t], k)
  BY <1>8, ResumedShape
<1>10. /\ pc' = [pc EXCEPT ![t] = "back", ![u] = "user"]
       /\ regs' = [regs EXCEPT ![t] = r, ![u] = z]
       /\ kstack' = [kstack EXCEPT ![u] = k]
       /\ space' = [space EXCEPT ![u] = space[t]]
       /\ result' = [result EXCEPT ![t] = res]
       /\ UNCHANGED <<name, stack, errno>>
  BY <1>5, <1>6, <1>7, <1>8, <1>9 DEF ReturnWithThread
<1>11. pc[u] = "unborn" /\ u # t /\ stack[u] = CallerStack /\ name[u] = "none"
  BY <1>1 DEF Unborn, DispatchInv, ThreadOK, AtRest
<1>12. SysTypes'
  BY <1>1, <1>2, <1>10 DEF SysTypes
<1>13. ASSUME NEW v \in Threads PROVE ThreadOK(v)'
  <2>1. CASE v \notin {t, u}
    BY <1>1, <1>2, <1>10, <2>1, NotConcerned DEF DispatchInv, SysTypes
  <2>2. CASE v = t
    <3>1. /\ pc'[t] = "back" /\ name'[t] = name[t] /\ regs'[t] = r /\ stack'[t] = stack[t]
          /\ result'[t] = res
          /\ routine'[t] = [name |-> RoutineOf(name[t]), args |-> Args(Wrappers[name[t]].args)]
      BY <1>1, <1>3, <1>10, <1>11 DEF SysTypes
    <3> QED
      BY <1>1, <1>3, <1>7, <2>2, <3>1, BackFromKernel
  <2>3. CASE v = u
    <3>1. pc'[u] = "user" /\ name'[u] = "none" /\ stack'[u] = CallerStack
      BY <1>1, <1>10, <1>11 DEF SysTypes
    <3>2. AtRest(u)'
      BY <3>1, WrapperTable DEF AtRest, Wrapped
    <3> QED
      BY <2>3, <3>1, <3>2 DEF ThreadOK
  <2> QED
    BY <2>1, <2>2, <2>3
<1>14. ThreadStarts'
  BY <1>1, <1>6, <1>8, <1>10 DEF DispatchInv, ThreadStarts, SysTypes
<1> QED
  BY <1>12, <1>13, <1>14 DEF DispatchInv

LEMMA DispatchSystemCall ==
  ASSUME DispatchInv, NEW t \in Threads, SystemCall(t)
  PROVE  DispatchInv'
<1>1. PICK res \in Results[Target(regs[t].eax)] :
        \/ Return(t, res)
        \/ Target(regs[t].eax) = "fork" /\ \E u \in Threads : Unborn(u) /\ ReturnTwice(t, u, res)
        \/ Target(regs[t].eax) = "clone" /\ \E u \in Threads : Unborn(u) /\ ReturnWithThread(t, u, res)
  BY DEF SystemCall
<1> QED
  BY <1>1, DispatchReturn, DispatchFork, DispatchClone

LEMMA DispatchStep == DispatchInv /\ [Next]_vars => DispatchInv'
<1> SUFFICES ASSUME DispatchInv, [Next]_vars PROVE DispatchInv'
  OBVIOUS
<1>1. CASE Next
  BY <1>1, DispatchCall, DispatchRaw, DispatchSystemCall, DispatchWild, DispatchFinish DEF Next
<1>2. CASE UNCHANGED vars
  BY <1>2 DEF vars, DispatchInv, SysTypes, ThreadOK, AtRest, RawTrap, WrapperTrap, RawBack,
              WrapperBack, Wrapped, ThreadStarts
<1> QED
  BY <1>1, <1>2

LEMMA DispatchAlways == Spec => []DispatchInv
  BY DispatchStart, DispatchStep, PTL DEF Spec

-----------------------------------------------------------------------------
\* Every call gives its caller back its stack and the registers it may rely on:
\* wrappers.S and entry.S take off what they push, whatever the routine
\* returns, in a forked child too.
THEOREM CallersAreUnharmed == Spec => []CallerUnharmed
<1>1. DispatchInv => CallerUnharmed
  BY DEF DispatchInv, ThreadOK, AtRest, CallerUnharmed, Returned, Called, Preserved
<1> QED
  BY <1>1, DispatchAlways, PTL

\* A wrapper reaches the routine it is named after with the arguments its caller
\* pushed; an identifier without a routine, but for the one just past the table,
\* gets ENOSYS.
THEOREM RoutinesReached == Spec => []RoutineReached
<1>1. DispatchInv => RoutineReached
  <2> SUFFICES ASSUME DispatchInv, NEW t \in Threads, pc[t] = "back", routine[t] # NoRoutine
               PROVE  IF Wrapped(t)
                      THEN routine[t] = [name |-> IF name[t] = "writefast" THEN "write" ELSE name[t],
                                         args |-> Args(Wrappers[name[t]].args)]
                      ELSE regs[t].eax = -ENOSYS
    BY DEF RoutineReached
  <2>1. RawBack(t) \/ WrapperBack(t)
    BY DEF DispatchInv, ThreadOK
  <2>2. RawBack(t) => ~Wrapped(t)
    BY WrapperTable DEF RawBack, Wrapped
  <2> QED
    BY <2>1, <2>2 DEF RawBack, WrapperBack, RoutineOf
<1> QED
  BY <1>1, DispatchAlways, PTL

\* The caller sees what the routine returned, and -1 for every error.
THEOREM ResultsSeen == Spec => []ResultConvention
<1>1. DispatchInv => ResultConvention
  BY DEF DispatchInv, ThreadOK, AtRest, ResultConvention, Returned, Called
<1> QED
  BY <1>1, DispatchAlways, PTL

\* A thread starts in the function and on the stack that clone was given.
THEOREM ThreadsStartRight == Spec => []ThreadStarts
<1>1. DispatchInv => ThreadStarts
  BY DEF DispatchInv
<1> QED
  BY <1>1, DispatchAlways, PTL

\* errno changes only to the code of a call that fails, or in a forked child to
\* its parent's: CHECK_ERROR stores it for no other.
THEOREM ErrnoIsKept == Spec => ErrnoKept
<1> DEFINE Kept(s) ==
      errno'[s] # errno[s] =>
        \/ \E t \in Threads : space[t] = s /\ pc[t] = "back" /\ result[t] < 0 /\ errno'[s] = -result[t]
        \/ pc[s] = "unborn" /\ \E t \in Threads : name[t] = "fork" /\ errno'[s] = errno[space[t]]
<1>1. ASSUME DispatchInv, [Next]_vars, NEW s \in Threads, errno'[s] # errno[s]
      PROVE  Kept(s)
  <2>1. PICK t \in Threads : SystemCall(t) \/ Finish(t)
    BY <1>1 DEF Next, vars, Call, RawCall, WildCall
  <2>2. CASE Finish(t)
    <3>1. pc[t] = "back" /\ name[t] # "raw" /\ Epilogue(t)
      BY <1>1, <2>2 DEF Finish
    <3>2. SysTypes /\ WrapperBack(t)
      BY <1>1, <3>1 DEF DispatchInv, ThreadOK, RawBack
    <3>3. space[t] = s /\ result[t] < 0 /\ errno'[s] = -result[t]
      BY <1>1, <3>1, <3>2, WrapperReturns
    <3> QED
      BY <3>1, <3>3
  <2>3. CASE SystemCall(t)
    <3>1. PICK res \in Results[Target(regs[t].eax)] :
            \/ Return(t, res)
            \/ Target(regs[t].eax) = "fork" /\ \E u \in Threads : Unborn(u) /\ ReturnTwice(t, u, res)
            \/ \E u \in Threads : ReturnWithThread(t, u, res)
      BY <2>3 DEF SystemCall
    <3>2. PICK u \in Threads : Unborn(u) /\ ReturnTwice(t, u, res) /\ Target(regs[t].eax) = "fork"
      BY <1>1, <3>1 DEF Return, ReturnWithThread
    <3>3. /\ SysTypes /\ (RawTrap(t) \/ WrapperTrap(t))
          /\ RawTrap(t) => Target(regs[t].eax) = "ni"
          /\ WrapperTrap(t) => Target(regs[t].eax) = RoutineOf(name[t])
      BY <1>1, <2>3, RoutineCalled
    <3>4. name[t] = "fork"
      BY <3>2, <3>3, NamesOfTwo DEF WrapperTrap, Wrapped
    <3>5. s = u /\ errno'[u] = errno[space[t]]
      BY <1>1, <3>2, <3>3 DEF ReturnTwice, SysTypes
    <3> QED
      BY <3>2, <3>4, <3>5 DEF Unborn
  <2> QED
    BY <2>1, <2>2, <2>3
<1>2. DispatchInv /\ [Next]_vars => [\A s \in Threads : Kept(s)]_vars
  BY <1>1
<1> QED
  BY <1>2, DispatchAlways, PTL DEF Spec, ErrnoKept

=============================================================================
