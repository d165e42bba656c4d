------------------------------ MODULE SysCalls ------------------------------
(***************************************************************************)
(* System calls from the wrapper in the user library to the routine in the *)
(* kernel and back: wrappers.S, entry.S, sys_call_table.S and errno, with  *)
(* the registers and both stacks, word by word.  Interrupts are off from   *)
(* the trap to the return, and a wrapper shares nothing but errno, which   *)
(* it stores at most once: the steps are up to the trap, the kernel, and   *)
(* from the return on.  Stacks are sequences, the top first; an address in *)
(* a stack is the number of words from its bottom up.                      *)
(***************************************************************************)
EXTENDS Integers, Sequences

CONSTANTS
  Threads,    \* threads and processes, numbered in the order they come
  Calls,      \* the wrappers that are called
  RawIds      \* identifiers without a routine that programs trap with

ENOSYS == 38
\* What the routines of sys.c return.
Results ==
  [ni |-> {-ENOSYS}, exit |-> {0}, fork |-> {2, -12}, clone |-> {3, -14, -12},
   write |-> {0, 5, -9, -13, -14, -22}, read |-> {0, 5, -9, -14, -22},
   gettime |-> {0, 7}, getpid |-> {1}, get_stats |-> {0, -22, -14, -3},
   sbrk |-> {4096, -12, -14}, sem_init |-> {0, -16}, sem_wait |-> {0, -1, -22},
   sem_signal |-> {0, -22}, sem_destroy |-> {0, -1, -22}]

Listed(id) ==
  CASE id = 1 -> "exit" [] id = 2 -> "fork" [] id = 4 -> "write" [] id = 10 -> "gettime"
    [] id = 19 -> "clone" [] id = 20 -> "getpid" [] id = 21 -> "sem_init"
    [] id = 22 -> "sem_wait" [] id = 23 -> "sem_signal" [] id = 24 -> "sem_destroy"
    [] id = 30 -> "read" [] id = 31 -> "sbrk" [] id = 35 -> "get_stats" [] OTHER -> "ni"
\* Variant: two entries change places.
sys_call_table_Swapped ==
  [id \in 0 .. 35 |-> Listed(CASE id = 22 -> 23 [] id = 23 -> 22 [] OTHER -> id)]
sys_call_table == [id \in 0 .. 35 |-> Listed(id)]
MAX_SYSCALL == 36     \* the length of the table

W(id, args, saves, checks) == [id |-> id, args |-> args, saves |-> saves, checks |-> checks]
Wrappers ==
  [gettime |-> W(10, 0, FALSE, FALSE), writefast |-> W(4, 3, TRUE, TRUE),
   read |-> W(30, 3, TRUE, TRUE), sbrk |-> W(31, 1, TRUE, TRUE), write |-> W(4, 3, TRUE, TRUE),
   getpid |-> W(20, 0, FALSE, FALSE), fork |-> W(2, 0, TRUE, TRUE),
   exit |-> W(1, 0, FALSE, FALSE), get_stats |-> W(35, 2, TRUE, TRUE),
   clone |-> W(19, 2, TRUE, TRUE), sem_init |-> W(21, 2, TRUE, TRUE),
   sem_wait |-> W(22, 1, TRUE, TRUE), sem_signal |-> W(23, 1, TRUE, TRUE),
   sem_destroy |-> W(24, 1, TRUE, TRUE)]

ASSUME SysCallsAssumption ==
  /\ 1 \in Threads /\ Threads \subseteq Nat
  /\ Calls \subseteq DOMAIN Wrappers
  /\ RawIds \subseteq {id \in Int : Listed(id) = "ni"}

\* The caller: its registers, what is on its stack, where the wrapper returns
\* to, and the arguments it pushes.
Caller == [eax |-> 91, ebx |-> 92, ecx |-> 93, edx |-> 94, esi |-> 95, edi |-> 96, ebp |-> 1]
CallerStack == <<97>>
RET     == 98      \* the address after the call of the wrapper
LABEL   == 99      \* the address after the trap in the wrapper
Args(n) == SubSeq(<<11, 12, 13>>, 1, n)

VARIABLES
  pc,         \* "unborn", "user", "trap" (at it), "back" (from it), "gone"
  name,       \* the wrapper a thread is in, or was in last
  regs, stack,
  kstack,     \* what a new thread's kernel stack held when it first ran
  space,      \* the founder of the address space a thread lives in
  errno,      \* of each address space
  routine,    \* history: what the kernel called in this call, and with what
  result      \* history: what that returned

vars == <<pc, name, regs, stack, kstack, space, errno, routine, result>>

NoRoutine == [name |-> "none", args |-> <<>>]

Init ==
  /\ pc = [t \in Threads |-> IF t = 1 THEN "user" ELSE "unborn"]
  /\ name = [t \in Threads |-> "none"]
  /\ regs = [t \in Threads |-> Caller]
  /\ stack = [t \in Threads |-> CallerStack]
  /\ kstack = [t \in Threads |-> <<>>]
  /\ space = [t \in Threads |-> t]
  /\ errno = [t \in Threads |-> 0]
  /\ routine = [t \in Threads |-> NoRoutine]
  /\ result = [t \in Threads |-> 0]

\* The word k words above the address base.
At(s, base, k) == s[Len(s) - base + 1 + k]

-----------------------------------------------------------------------------
(* The wrapper, up to the trap.                                            *)

\* SYSCALL: the return address, and a frame that ebp points to.
SYSCALL(r, s, id) ==
  [r |-> [r EXCEPT !.eax = id, !.ebp = Len(s) + 2], s |-> <<r.ebp, LABEL>> \o s]
TRAP(r, s, id) == [r |-> [r EXCEPT !.eax = id], s |-> s]     \* int $0x80

\* The frame, ebx if it is saved, and the parameters in ebx, ecx and edx.
Prologue(r, w) ==
  LET s1 == <<r.ebp, RET>> \o Args(w.args) \o CallerStack
      bp == Len(s1)
      s2 == IF w.saves THEN <<r.ebx>> \o s1 ELSE s1
      Param(k, reg) == IF w.args >= k THEN At(s2, bp, 1 + k) ELSE reg
  IN  [r |-> [r EXCEPT !.ebp = bp, !.ebx = Param(1, r.ebx), !.ecx = Param(2, r.ecx),
                       !.edx = Param(3, r.edx)],
       s |-> s2]

Call(t, n) ==
  LET w == Wrappers[n]
      p == Prologue(Caller, w)
      q == IF n = "write" THEN TRAP(p.r, p.s, w.id) ELSE SYSCALL(p.r, p.s, w.id)
  IN  /\ pc[t] = "user"
      /\ pc' = [pc EXCEPT ![t] = "trap"]
      /\ name' = [name EXCEPT ![t] = n]
      /\ regs' = [regs EXCEPT ![t] = q.r]
      /\ stack' = [stack EXCEPT ![t] = q.s]
      /\ routine' = [routine EXCEPT ![t] = NoRoutine]
      /\ result' = [result EXCEPT ![t] = 0]
      /\ UNCHANGED <<kstack, space, errno>>

\* A program traps with int $0x80 itself, as the tests of E1 do.
RawCall(t, id) ==
  /\ pc[t] = "user"
  /\ pc' = [pc EXCEPT ![t] = "trap"]
  /\ name' = [name EXCEPT ![t] = "raw"]
  /\ regs' = [regs EXCEPT ![t] = [Caller EXCEPT !.eax = id]]
  /\ routine' = [routine EXCEPT ![t] = NoRoutine]
  /\ result' = [result EXCEPT ![t] = 0]
  /\ UNCHANGED <<stack, kstack, space, errno>>

-----------------------------------------------------------------------------
(* The kernel, from the trap to the return.                                *)

UsesInt(n) == n \in {"write", "raw"}

\* What the processor pushes for int, and syscall_handler_sysenter itself,
\* which finds the user's esp and the return address through ebp.
CPUFrame(s)         == <<LABEL, 0, 0, Len(s), 0>>
SysenterFrame(r, s) == <<At(s, r.ebp, 1), 0, 0, r.ebp, 0>>

\* Variant: SAVE_ALL and RESTORE_ALL disagree on two registers.
RESTORE_ALL_Swapped(k) ==
  [ebx |-> k[1], ecx |-> k[2], edx |-> k[3], esi |-> k[5], edi |-> k[4], ebp |-> k[6], eax |-> k[7]]

\* Segment registers (words 8 to 11) are alike for all.
SAVE_ALL(r) == <<r.ebx, r.ecx, r.edx, r.esi, r.edi, r.ebp, r.eax, 0, 0, 0, 0>>
RESTORE_ALL(k) ==
  [ebx |-> k[1], ecx |-> k[2], edx |-> k[3], esi |-> k[4], edi |-> k[5], ebp |-> k[6], eax |-> k[7]]

\* Back to user mode with the stack k: iret pops eip and esp, sysexit takes
\* them from edx and ecx.
Resumed(n, k) ==
  LET r == RESTORE_ALL(k)
  IN  IF UsesInt(n) THEN r ELSE [r EXCEPT !.edx = k[12], !.ecx = k[15]]

InRange(id) == id >= 0 /\ id <= MAX_SYSCALL       \* jl err, jg err

\* What "call *sys_call_table(,%eax,4)" reaches; the word after the table is
\* whatever the linker put there.
Target(id) ==
  IF ~InRange(id) THEN "ni" ELSE IF id = MAX_SYSCALL THEN "wild" ELSE sys_call_table[id]

\* The kernel stack of t with the result in the place of eax.
KStack(t, res) ==
  LET k == SAVE_ALL(regs[t]) \o
           (IF UsesInt(name[t]) THEN CPUFrame(stack[t]) ELSE SysenterFrame(regs[t], stack[t]))
  IN  [k EXCEPT ![7] = res]

\* Variant: clone writes the stack one word too low.
ThreadFrame_Lower(k, function, userStack) == [k EXCEPT ![12] = function, ![14] = userStack]
\* stack[KERNEL_STACK_SIZE-5] and stack[KERNEL_STACK_SIZE-2].
ThreadFrame(k, function, userStack) == [k EXCEPT ![12] = function, ![15] = userStack]

Unborn(u) == pc[u] = "unborn" /\ \A v \in Threads : v < u => pc[v] # "unborn"

\* t returns res, and u, if there is one, runs from the stack k.
Return(t, res) ==
  /\ pc' = [pc EXCEPT ![t] = IF routine'[t].name = "exit" THEN "gone" ELSE "back"]
  /\ regs' = [regs EXCEPT ![t] = Resumed(name[t], KStack(t, res))]
  /\ result' = [result EXCEPT ![t] = res]
  /\ UNCHANGED <<name, stack, kstack, space, errno>>

\* fork: the child resumes with a copy of both stacks and 0, in a space of its
\* own that starts with its parent's errno.
ReturnTwice(t, u, res) ==
  /\ pc' = [pc EXCEPT ![t] = "back", ![u] = "back"]
  /\ name' = [name EXCEPT ![u] = name[t]]
  /\ regs' = [regs EXCEPT ![t] = Resumed(name[t], KStack(t, res)),
                          ![u] = Resumed(name[t], KStack(t, 0))]
  /\ stack' = [stack EXCEPT ![u] = stack[t]]
  /\ result' = [result EXCEPT ![t] = res, ![u] = 0]
  /\ errno' = [errno EXCEPT ![u] = errno[space[t]]]
  /\ UNCHANGED <<kstack, space>>

\* clone: the thread runs from its copy of the kernel stack.
ReturnWithThread(t, u, res) ==
  LET a == routine'[t].args
      k == ThreadFrame(KStack(t, res), a[1], a[2])
  IN  /\ pc' = [pc EXCEPT ![t] = "back", ![u] = "user"]
      /\ regs' = [regs EXCEPT ![t] = Resumed(name[t], KStack(t, res)), ![u] = Resumed(name[t], k)]
      /\ kstack' = [kstack EXCEPT ![u] = k]
      /\ space' = [space EXCEPT ![u] = space[t]]
      /\ result' = [result EXCEPT ![t] = res]
      /\ UNCHANGED <<name, stack, errno>>

\* The routine finds its parameters in the registers saved last.
SystemCall(t) ==
  LET n == Target(regs[t].eax)
      k == KStack(t, 0)
      arity == IF name[t] = "raw" THEN 0 ELSE Wrappers[name[t]].args
  IN  /\ pc[t] = "trap"
      /\ n # "wild"
      /\ routine' = [routine EXCEPT ![t] = [name |-> n, args |-> SubSeq(k, 1, arity)]]
      /\ \E res \in Results[n] :
           \/ /\ n \notin {"fork", "clone"} \/ res < 0
              /\ Return(t, res)
           \/ n = "fork" /\ res >= 0 /\ \E u \in Threads : Unborn(u) /\ ReturnTwice(t, u, res)
           \/ n = "clone" /\ res >= 0 /\ \E u \in Threads : Unborn(u) /\ ReturnWithThread(t, u, res)

\* Whatever lies behind the table is called.
WildCall(t) ==
  /\ pc[t] = "trap"
  /\ Target(regs[t].eax) = "wild"
  /\ routine' = [routine EXCEPT ![t] = [name |-> "wild", args |-> <<>>]]
  /\ pc' = [pc EXCEPT ![t] = "gone"]
  /\ UNCHANGED <<name, regs, stack, kstack, space, errno, result>>

-----------------------------------------------------------------------------
(* The wrapper, from the return on.                                        *)

\* Variant: a result of 0 is an error.
IsError_Zero(eax) == eax <= 0

\* CHECK_ERROR: cmpl $0, %eax; jge.
IsError(eax) == eax < 0

\* After SYSCALL's own pops, pop ebx if it was saved, pop ebp, and ret; the
\* caller takes its arguments off the stack.
Epilogue(t) ==
  LET w  == Wrappers[name[t]]
      s0 == stack[t]
      s1 == IF UsesInt(name[t]) THEN s0 ELSE SubSeq(s0, 3, Len(s0))
      s2 == IF w.saves THEN Tail(s1) ELSE s1
      failed == w.checks /\ IsError(regs[t].eax)
  IN  /\ regs' = [regs EXCEPT ![t].eax = IF failed THEN -1 ELSE @,
                              ![t].ebx = IF w.saves THEN Head(s1) ELSE @,
                              ![t].ebp = Head(s2)]
      /\ stack' = [stack EXCEPT ![t] = SubSeq(s2, 3 + w.args, Len(s2))]
      /\ errno' = [errno EXCEPT ![space[t]] = IF failed THEN -regs[t].eax ELSE @]

Finish(t) ==
  /\ pc[t] = "back"
  /\ pc' = [pc EXCEPT ![t] = "user"]
  /\ \/ name[t] # "raw" /\ Epilogue(t)
     \/ name[t] = "raw" /\ UNCHANGED <<regs, stack, errno>>
  /\ UNCHANGED <<name, kstack, space, routine, result>>

Next ==
  \E t \in Threads :
    \/ \E n \in Calls : Call(t, n)
    \/ \E id \in RawIds : RawCall(t, id)
    \/ SystemCall(t) \/ WildCall(t) \/ Finish(t)

Spec == Init /\ [][Next]_vars

-----------------------------------------------------------------------------
Called(t)   == name[t] # "none"
Returned(t) == pc[t] = "user" /\ Called(t)
Wrapped(t)  == name[t] \in DOMAIN Wrappers

\* The C calling convention, which the tests call "CHECK REGISTER MANAGEMENT IN
\* WRAPPER": through wrapper, trap, frames and return, by int and by sysenter,
\* in a forked child too, a call gives its caller back the registers it may
\* rely on and its stack.
CallerUnharmed ==
  \A t \in Threads : Returned(t) =>
    /\ stack[t] = CallerStack
    /\ \A r \in {"ebx", "esi", "edi", "ebp"} : regs[t][r] = Caller[r]

\* A wrapper reaches the routine it is named after, with its arguments; an
\* identifier without a routine is refused, but for the one just past the
\* table (OutOfRangeRefused).
RoutineReached ==
  \A t \in Threads : pc[t] = "back" /\ routine[t] # NoRoutine =>
    IF Wrapped(t)
    THEN routine[t] = [name |-> IF name[t] = "writefast" THEN "write" ELSE name[t],
                       args |-> Args(Wrappers[name[t]].args)]
    ELSE regs[t].eax = -ENOSYS

\* The caller sees what the routine returned, or -1 for every error.
ResultConvention ==
  \A t \in Threads : Returned(t) /\ Wrapped(t) =>
    regs[t].eax = IF result[t] < 0 THEN -1 ELSE result[t]

\* A thread starts in the function and on the stack clone was given.
ThreadStarts ==
  \A t \in Threads : kstack[t] # <<>> => kstack[t][12] = Args(2)[1] /\ kstack[t][15] = Args(2)[2]

\* What the documentation says of errno: a call without an error leaves it
\* alone.  It changes only to the code of a call that returns to a thread of
\* the process, or to its parent's in a process just forked.
ErrnoKept ==
  [][\A s \in Threads : errno'[s] # errno[s] =>
       \/ \E t \in Threads : space[t] = s /\ pc[t] = "back" /\ result[t] < 0 /\ errno'[s] = -result[t]
       \/ pc[s] = "unborn" /\ \E t \in Threads : name[t] = "fork" /\ errno'[s] = errno[space[t]]
    ]_vars

\* The documentation says of errno too that it explains the -1 of a call.
\* Threads of a process share it.
ErrnoOfLastCall ==
  \A t \in Threads : Returned(t) /\ Wrapped(t) /\ regs[t].eax = -1 => errno[space[t]] = -result[t]

\* What the documentation says of identifiers: the table's length is out of
\* range.  jg lets it pass.
OutOfRangeRefused == \A t \in Threads : routine[t].name # "wild"

-----------------------------------------------------------------------------
\* perror's cases.
Message(code) ==
  CASE code = ENOSYS -> "No existe syscall" [] code = 9 -> "Mal descriptor"
    [] code = 13 -> "No acceso" [] code = 14 -> "Mal tamano" [] code = 22 -> "Malos parametros"
    [] OTHER -> "No error"

\* What the documentation says of perror: after a call that failed, it tells
\* what failed.  Codes without a case are "No error".
PerrorTells ==
  \A t \in Threads : Returned(t) /\ Wrapped(t) /\ regs[t].eax = -1 =>
    Message(errno[space[t]]) # "No error"

=============================================================================
