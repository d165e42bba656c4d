-------------------------------- MODULE Stats --------------------------------
(***************************************************************************)
(* struct stats: how the entry points (entry.S) and the scheduler          *)
(* (sched.c) bill get_ticks() to the counters of a process.                *)
(*                                                                         *)
(* Only what the billing depends on is kept of the scheduler: where each   *)
(* process is, and which one runs.  The next process is any that is ready, *)
(* a turn may end at any clock interrupt.  get_ticks() reads a counter of  *)
(* the processor: time passes also while interrupts are off.               *)
(***************************************************************************)
EXTENDS Integers, FiniteSets

CONSTANTS
  Tasks, idle_task, init_task,
  Late,        \* ticks that can pass between two samples of one billing
  BootTicks,   \* what get_ticks() says when init starts
  MaxTicks     \* bound: time is followed up to here

ASSUME StatsAssumption ==
  /\ idle_task \in Tasks /\ init_task \in Tasks /\ idle_task # init_task
  /\ Late \subseteq Nat /\ BootTicks \in Nat /\ MaxTicks \in Nat

Places == {"free", "unused", "run", "ready", "waiting", "reading"}
Modes  == {"user", "refused", "system", "done", "switch"}

VARIABLES
  now,            \* get_ticks()
  place,          \* where a process is; waiting: for a semaphore; unused: idle
                  \* before it first runs
  current,        \* whose kernel stack is in use
  mode,           \* user; a refused call; handler at work; handler done; sched_next_rr
  estadisticas,   \* the counters
  spent,          \* history: ticks really spent in user mode, ready and blocked
  birth           \* history: when the process was created

vars == <<now, place, current, mode, estadisticas, spent, birth>>

init_stats == [user_ticks |-> 0, system_ticks |-> 0, ready_ticks |-> 0, blocked_ticks |-> 0,
               elapsed_total_ticks |-> 0]

\* The counters of init start at power-on: the boot is billed as user time.
Init ==
  /\ now = BootTicks
  /\ place = [t \in Tasks |-> IF t = init_task THEN "run" ELSE IF t = idle_task THEN "unused" ELSE "free"]
  /\ current = init_task /\ mode = "user"
  /\ estadisticas = [t \in Tasks |-> init_stats]
  /\ spent = [t \in Tasks |-> [user |-> IF t = init_task THEN BootTicks ELSE 0, ready |-> 0, blocked |-> 0]]
  /\ birth = [t \in Tasks |-> 0]

-----------------------------------------------------------------------------
(* Time and billing.                                                       *)

\* n ticks pass while the running process is in mode m.
Spend(s, p, m, n) ==
  CASE p = "ready"                         -> [s EXCEPT !.ready = @ + n]
    [] p \in {"waiting", "reading"}        -> [s EXCEPT !.blocked = @ + n]
    [] p = "run" /\ m \in {"user", "refused"} -> [s EXCEPT !.user = @ + n]
    [] OTHER                               -> s

Pass(n, m) ==
  /\ now + n <= MaxTicks
  /\ now' = now + n
  /\ spent' = [t \in Tasks |-> Spend(spent[t], place[t], m, n)]

SinceThen(st) == now - st.elapsed_total_ticks

\* counter += get_ticks() - elapsed_total_ticks; elapsed_total_ticks = get_ticks(),
\* n ticks later; blocked_ticks is never written.
Billed(st, user, system, ready, n) ==
  [user_ticks |-> st.user_ticks + user, system_ticks |-> st.system_ticks + system,
   ready_ticks |-> st.ready_ticks + ready, blocked_ticks |-> st.blocked_ticks,
   elapsed_total_ticks |-> now + n]

\* Variants: the moment is not kept; the wait is billed to both counters.
BillSystem_NotKept(st, n) == [st EXCEPT !.system_ticks = @ + SinceThen(st)]
BillNext_Both(st, k, n)   == Billed(st, 0, SinceThen(st), SinceThen(st) + k, k + n)

BillUser(st, n)   == Billed(st, SinceThen(st), 0, 0, n)
BillSystem(st, n) == Billed(st, 0, SinceThen(st), 0, n)

\* sched_next_rr on the process it takes: the first pair of lines was meant for
\* the one that leaves; only the k ticks after it are billed as ready.
BillNext(st, k, n) == Billed(st, 0, SinceThen(st), k, k + n)

Bill(t, st, n) == estadisticas' = [estadisticas EXCEPT ![t] = st] /\ Pass(n, "system")
NoBill == UNCHANGED <<estadisticas, now, spent>>

Tick == Pass(1, mode) /\ UNCHANGED <<place, current, mode, estadisticas, birth>>

-----------------------------------------------------------------------------
(* The entry points.                                                       *)

\* Interrupt, system call, or int 0x80 with a number out of range.
Enter ==
  /\ mode = "user"
  /\ \E n \in Late : Bill(current, BillUser(estadisticas[current], n), n)
  /\ mode' \in {"system"} \cup (IF current # idle_task THEN {"refused"} ELSE {})
  /\ UNCHANGED <<place, current, birth>>

Leave ==
  /\ mode \in {"system", "done"}
  /\ \E n \in Late : Bill(current, BillSystem(estadisticas[current], n), n)
  /\ mode' = "user"
  /\ UNCHANGED <<place, current, birth>>

\* system_call_handler's err path jumps over statsLeaveSys.
LeaveRefused ==
  /\ mode = "refused" /\ mode' = "user"
  /\ NoBill
  /\ UNCHANGED <<place, current, birth>>

-----------------------------------------------------------------------------
(* What handlers do to processes.                                          *)

InCall == mode = "system" /\ current # idle_task

Woken(S) == [t \in Tasks |-> IF t \in S THEN "ready" ELSE place[t]]

\* exitRunCurrent, by the clock or by sem_wait.
ExitRun(p) ==
  /\ \E n \in Late : Bill(current, BillSystem(estadisticas[current], n), n)
  /\ place' = [place EXCEPT ![current] = p]
  /\ mode' = "switch"
  /\ UNCHANGED <<current, birth>>

Preempt == mode = "system" /\ (\E t \in Tasks : place[t] = "ready") /\ ExitRun("ready")
Wait    == InCall /\ ExitRun("waiting")

\* sys_read_keyboard and sys_exit give the CPU away without billing; exit lets
\* waiters go.
Read ==
  /\ InCall
  /\ place' = [place EXCEPT ![current] = "reading"]
  /\ mode' = "switch"
  /\ NoBill /\ UNCHANGED <<current, birth>>

Exit ==
  /\ InCall
  /\ \E S \in SUBSET {t \in Tasks : place[t] = "waiting"} :
       place' = [Woken(S) EXCEPT ![current] = "free"]
  /\ mode' = "switch"
  /\ NoBill /\ UNCHANGED <<current, birth>>

\* Keys wake readers, also from idle; signal and destroy wake waiters.
Wake ==
  /\ mode = "system"
  /\ \E S \in SUBSET {t \in Tasks : \/ place[t] = "reading"
                                    \/ place[t] = "waiting" /\ current # idle_task} :
       S # {} /\ place' = Woken(S)
  /\ mode' = "done"
  /\ NoBill /\ UNCHANGED <<current, birth>>

\* fork and clone.
Create(t) ==
  /\ InCall /\ place[t] = "free"
  /\ place' = [place EXCEPT ![t] = "ready"]
  /\ estadisticas' = [estadisticas EXCEPT ![t] = init_stats]
  /\ spent' = [spent EXCEPT ![t] = [user |-> 0, ready |-> 0, blocked |-> 0]]
  /\ birth' = [birth EXCEPT ![t] = now]
  /\ mode' = "done"
  /\ UNCHANGED <<now, current>>

\* A reader that is given the CPU with a key to take halts the kernel; the one
\* that goes on here asked for none.
sched_next_rr ==
  /\ mode = "switch"
  /\ \/ \E t \in Tasks, k, n \in Late :
          /\ place[t] = "ready"
          /\ Bill(t, BillNext(estadisticas[t], k, n), k + n)
          /\ place' = [place EXCEPT ![t] = "run"]
          /\ current' = t
          /\ mode' = "done"
     \/ /\ \A t \in Tasks : place[t] # "ready"
        /\ place' = [place EXCEPT ![idle_task] = "run"]
        /\ current' = idle_task
        /\ mode' = "user"
        /\ NoBill
  /\ UNCHANGED birth

Next ==
  \/ Tick \/ Enter \/ Leave \/ LeaveRefused
  \/ Preempt \/ Wait \/ Read \/ Exit \/ Wake \/ sched_next_rr
  \/ \E t \in Tasks : Create(t)

Spec == Init /\ [][Next]_vars

-----------------------------------------------------------------------------
Counted(st) == st.user_ticks + st.system_ticks + st.ready_ticks + st.blocked_ticks

\* Whatever the interleaving of hooks, no tick is billed to two counters of a
\* process: their sum never runs ahead of the moment of the last billing, which
\* is never in the future (the differences of statsEntrySys, statsLeaveSys and
\* the scheduler, unsigned in the code, do not wrap).
NoTickTwice ==
  \A t \in Tasks :
    /\ Counted(estadisticas[t]) <= estadisticas[t].elapsed_total_ticks
    /\ estadisticas[t].elapsed_total_ticks <= now

\* user_ticks is the time between leaving and entering the kernel, plus that of
\* refused calls, however the process was switched, blocked or created.
UserTicksExact ==
  \A t \in Tasks \ {idle_task} : place[t] # "free" =>
    spent[t].user = estadisticas[t].user_ticks
      + IF place[t] = "run" /\ mode \in {"user", "refused"} THEN SinceThen(estadisticas[t]) ELSE 0

\* What the documentation says of ready_ticks and blocked_ticks: a process that
\* runs again finds its waits in them.  The code bills them as system_ticks.
WaitsCounted ==
  \A t \in Tasks : place[t] = "run" /\ mode = "user" =>
    /\ estadisticas[t].ready_ticks = spent[t].ready
    /\ estadisticas[t].blocked_ticks = spent[t].blocked

\* What the tests say of fork: a child starts with statistics of its own.  It
\* is billed the time since power-on, its elapsed_total_ticks being 0.
StatsStartAtBirth ==
  \A t \in Tasks : place[t] = "run" => Counted(estadisticas[t]) <= now - birth[t]

=============================================================================
