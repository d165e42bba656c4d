----------------------------- MODULE StatsProofs -----------------------------
(***************************************************************************)
(* No tick is billed to two counters of a process: NoTickTwice, for any    *)
(* processes and any length of time.                                       *)
(***************************************************************************)
EXTENDS Stats, TLAPS

StatRecords ==
  [user_ticks : Nat, system_ticks : Nat, ready_ticks : Nat, blocked_ticks : Nat,
   elapsed_total_ticks : Nat]

\* What one record must satisfy at moment m.
Sound(st, m) ==
  /\ st \in StatRecords
  /\ Counted(st) <= st.elapsed_total_ticks
  /\ st.elapsed_total_ticks <= m

\* NoTickTwice and the types the arithmetic needs.
StatsInd ==
  /\ now \in Int
  /\ current \in Tasks
  /\ DOMAIN estadisticas = Tasks
  /\ estadisticas = [t \in Tasks |-> estadisticas[t]]
  /\ \A t \in Tasks : Sound(estadisticas[t], now)

\* Each of the three ways of billing keeps a record sound at the later moment.
LEMMA BillingSound ==
  ASSUME NEW st, NEW k \in Nat, NEW n \in Nat, now \in Int, Sound(st, now)
  PROVE  /\ Sound(BillUser(st, n), now + n)
         /\ Sound(BillSystem(st, n), now + n)
         /\ Sound(BillNext(st, k, n), now + (k + n))
<1>1. /\ st.user_ticks \in Nat /\ st.system_ticks \in Nat /\ st.ready_ticks \in Nat
      /\ st.blocked_ticks \in Nat /\ st.elapsed_total_ticks \in Nat
  BY DEF Sound, StatRecords
<1>2. /\ st.user_ticks + st.system_ticks + st.ready_ticks + st.blocked_ticks <= st.elapsed_total_ticks
      /\ st.elapsed_total_ticks <= now
  BY DEF Sound, Counted
<1>3. SinceThen(st) \in Nat /\ SinceThen(st) = now - st.elapsed_total_ticks
  BY <1>1, <1>2 DEF SinceThen
<1>4. ASSUME NEW u \in Nat, NEW s \in Nat, NEW r \in Nat, NEW m \in Nat,
             u + s + r <= SinceThen(st) + m
      PROVE  Sound(Billed(st, u, s, r, m), now + m)
  BY <1>1, <1>2, <1>3, <1>4 DEF Sound, StatRecords, Counted, Billed
<1> QED
  BY <1>3, <1>4 DEF BillUser, BillSystem, BillNext

\* A step that bills one process and lets the time of the billing pass.
LEMMA BillKeeps ==
  ASSUME StatsInd, NEW t \in Tasks, NEW st, NEW n \in Nat,
         Bill(t, st, n), Sound(st, now + n), current' \in Tasks
  PROVE  StatsInd'
<1>1. now' = now + n
  BY DEF Bill, Pass
<1>2. estadisticas' = [estadisticas EXCEPT ![t] = st]
  BY DEF Bill
<1>3. \A u \in Tasks : Sound(estadisticas'[u], now')
  BY <1>1, <1>2 DEF StatsInd, Sound, StatRecords
<1> QED
  BY <1>1, <1>2, <1>3 DEF StatsInd

\* A step that bills nobody and takes no time.
LEMMA NoBillKeeps ==
  ASSUME StatsInd, NoBill, current' \in Tasks
  PROVE  StatsInd'
  BY DEF StatsInd, NoBill

THEOREM StatsInit == Init => StatsInd
  BY StatsAssumption DEF Init, StatsInd, init_stats, Sound, StatRecords, Counted

THEOREM StatsStep == StatsInd /\ [Next]_vars => StatsInd'
<1> SUFFICES ASSUME StatsInd, [Next]_vars PROVE StatsInd'
  OBVIOUS
<1> USE StatsAssumption
<1>0. now \in Int /\ current \in Tasks /\ \A t \in Tasks : Sound(estadisticas[t], now)
  BY DEF StatsInd
<1>1. CASE Tick
  <2>1. now' = now + 1 /\ UNCHANGED <<current, estadisticas>>
    BY <1>1 DEF Tick, Pass
  <2> QED
    BY <2>1 DEF StatsInd, Sound, StatRecords
<1>2. CASE Enter
  <2>1. PICK n \in Late : Bill(current, BillUser(estadisticas[current], n), n)
    BY <1>2 DEF Enter
  <2>2. Sound(BillUser(estadisticas[current], n), now + n)
    BY <1>0, BillingSound
  <2>3. current' = current
    BY <1>2 DEF Enter
  <2> QED
    BY <1>0, <2>1, <2>2, <2>3, BillKeeps
<1>3. CASE Leave
  <2>1. PICK n \in Late : Bill(current, BillSystem(estadisticas[current], n), n)
    BY <1>3 DEF Leave
  <2>2. Sound(BillSystem(estadisticas[current], n), now + n)
    BY <1>0, BillingSound
  <2>3. current' = current
    BY <1>3 DEF Leave
  <2> QED
    BY <1>0, <2>1, <2>2, <2>3, BillKeeps
<1>4. CASE Preempt \/ Wait
  <2>1. PICK n \in Late : Bill(current, BillSystem(estadisticas[current], n), n)
    BY <1>4 DEF Preempt, Wait, ExitRun
  <2>2. Sound(BillSystem(estadisticas[current], n), now + n)
    BY <1>0, BillingSound
  <2>3. current' = current
    BY <1>4 DEF Preempt, Wait, ExitRun
  <2> QED
    BY <1>0, <2>1, <2>2, <2>3, BillKeeps
<1>5. CASE sched_next_rr
  <2>1. CASE NoBill /\ current' = idle_task
    BY <2>1, NoBillKeeps
  <2>2. ASSUME NEW t \in Tasks, NEW k \in Late, NEW n \in Late,
               Bill(t, BillNext(estadisticas[t], k, n), k + n), current' = t
        PROVE  StatsInd'
    <3>1. Sound(BillNext(estadisticas[t], k, n), now + (k + n))
      BY <1>0, BillingSound
    <3>2. k + n \in Nat
      OBVIOUS
    <3> QED
      BY <2>2, <3>1, <3>2, BillKeeps
  <2> QED
    BY <1>5, <2>1, <2>2 DEF sched_next_rr
<1>6. CASE LeaveRefused \/ Read \/ Exit \/ Wake
  <2>1. NoBill /\ current' = current
    BY <1>6 DEF LeaveRefused, Read, Exit, Wake
  <2> QED
    BY <1>0, <2>1, NoBillKeeps
<1>7. ASSUME NEW t \in Tasks, Create(t)
      PROVE  StatsInd'
  <2>1. estadisticas' = [estadisticas EXCEPT ![t] = init_stats] /\ UNCHANGED <<now, current>>
    BY <1>7 DEF Create
  <2>2. 0 <= now
    BY <1>0 DEF Sound, StatRecords, Counted
  <2>3. Sound(init_stats, now)
    BY <2>2 DEF Sound, StatRecords, Counted, init_stats
  <2> QED
    BY <2>1, <2>3 DEF StatsInd
<1>8. CASE UNCHANGED vars
  BY <1>8 DEF vars, StatsInd
<1> QED
  BY <1>1, <1>2, <1>3, <1>4, <1>5, <1>6, <1>7, <1>8 DEF Next

\* No tick is ever billed to two counters of a process, whatever handlers,
\* switches, blocking, exits and creations come in between.
THEOREM NoTickBilledTwice == Spec => []NoTickTwice
<1>1. StatsInd => NoTickTwice
  BY DEF StatsInd, NoTickTwice, Sound
<1> QED
  BY StatsInit, StatsStep, <1>1, PTL DEF Spec

-----------------------------------------------------------------------------
(* User time is exact.  The property speaks of the process that runs, so   *)
(* the invariant says which one that is: nobody but current, which runs    *)
(* unless its place has been given to another queue and the CPU not yet to *)
(* another process.                                                        *)

Clocks == [user : Nat, ready : Nat, blocked : Nat]

\* Runs in mode m with its user time counting.
InUser(p, m) == p = "run" /\ m \in {"user", "refused"}

\* A record whose process is at place p, in mode m at moment n.
Exact(sp, st, p, m, n) ==
  sp.user = st.user_ticks + IF InUser(p, m) THEN n - st.elapsed_total_ticks ELSE 0

UserInd ==
  /\ place \in [Tasks -> Places]
  /\ spent \in [Tasks -> Clocks]
  /\ \A t \in Tasks : place[t] = "run" => t = current /\ mode # "switch"
  /\ mode # "switch" => place[current] = "run"
  /\ place[idle_task] # "free"
  /\ \A t \in Tasks \ {idle_task} :
       place[t] # "free" => Exact(spent[t], estadisticas[t], place[t], mode, now)

\* Time that passes is user time only for who runs in user mode.
LEMMA SpendUser ==
  ASSUME NEW s \in Clocks, NEW p, NEW m, NEW n \in Nat
  PROVE  /\ Spend(s, p, m, n) \in Clocks
         /\ Spend(s, p, m, n).user = s.user + IF InUser(p, m) THEN n ELSE 0
  BY DEF Spend, Clocks, InUser

\* The same for everybody after a step in which time passes.
LEMMA PassUser ==
  ASSUME UserInd, NEW n \in Nat, NEW m, Pass(n, m)
  PROVE  /\ spent' \in [Tasks -> Clocks]
         /\ \A t \in Tasks : spent'[t].user = spent[t].user + IF InUser(place[t], m) THEN n ELSE 0
<1>1. \A t \in Tasks : spent[t] \in Clocks
  BY DEF UserInd
<1>2. spent' = [t \in Tasks |-> Spend(spent[t], place[t], m, n)]
  BY DEF Pass
<1> QED
  BY <1>1, <1>2, SpendUser

\* A billing in the kernel: user time stands still, and the process billed is
\* at its place p after it, in mode m.
LEMMA BillExact ==
  ASSUME StatsInd, UserInd, NEW t \in Tasks, NEW st, NEW n \in Nat, Bill(t, st, n),
         \A u \in Tasks \ {t, idle_task} : place'[u] # "free" =>
           /\ place[u] # "free"
           /\ ~InUser(place[u], mode) /\ ~InUser(place'[u], mode'),
         t # idle_task =>
           /\ spent[t].user = st.user_ticks
           /\ InUser(place'[t], mode') => st.elapsed_total_ticks = now + n
  PROVE  \A u \in Tasks \ {idle_task} :
           place'[u] # "free" => Exact(spent'[u], estadisticas'[u], place'[u], mode', now')
<1>1. now' = now + n /\ now \in Int
  BY DEF Bill, Pass, StatsInd
<1>2. estadisticas' = [estadisticas EXCEPT ![t] = st] /\ DOMAIN estadisticas = Tasks
  BY DEF Bill, StatsInd
<1>3. /\ \A u \in Tasks : spent'[u].user = spent[u].user + IF InUser(place[u], "system") THEN n ELSE 0
      /\ \A u \in Tasks : spent[u].user \in Nat
  BY PassUser DEF Bill, UserInd, Clocks
<1>4. \A u \in Tasks : spent'[u].user = spent[u].user
  BY <1>3 DEF InUser
<1>5. ASSUME NEW u \in Tasks \ {idle_task}, u # t, place'[u] # "free"
      PROVE  Exact(spent'[u], estadisticas'[u], place'[u], mode', now')
  <2>1. Exact(spent[u], estadisticas[u], place[u], mode, now)
    BY <1>5 DEF UserInd
  <2> QED
    BY <1>2, <1>4, <1>5, <2>1 DEF Exact
<1>6. ASSUME t # idle_task
      PROVE  Exact(spent'[t], estadisticas'[t], place'[t], mode', now')
  <2>1. estadisticas'[t] = st /\ spent'[t].user = st.user_ticks
    BY <1>2, <1>4, <1>6
  <2>2. st.user_ticks \in Nat
    BY <1>3, <1>6
  <2> QED
    BY <1>1, <1>6, <2>1, <2>2 DEF Exact
<1> QED
  BY <1>5, <1>6

LEMMA UserInit == Init => UserInd
<1> SUFFICES ASSUME Init PROVE UserInd
  OBVIOUS
<1> USE StatsAssumption DEF Init
<1>1. place \in [Tasks -> Places] /\ spent \in [Tasks -> Clocks]
  BY DEF Places, Clocks
<1>2. ASSUME NEW t \in Tasks \ {idle_task}, place[t] # "free"
      PROVE  Exact(spent[t], estadisticas[t], place[t], mode, now)
  <2>1. t = init_task /\ spent[t].user = BootTicks /\ estadisticas[t] = init_stats
    BY <1>2
  <2> QED
    BY <2>1 DEF Exact, InUser, init_stats
<1> QED
  BY <1>1, <1>2 DEF UserInd

LEMMA UserStep == StatsInd /\ UserInd /\ [Next]_vars => UserInd'
<1> SUFFICES ASSUME StatsInd, UserInd, [Next]_vars PROVE UserInd'
  OBVIOUS
<1> USE StatsAssumption
<1>1. /\ now \in Int /\ current \in Tasks /\ DOMAIN estadisticas = Tasks
      /\ \A t \in Tasks : estadisticas[t] \in StatRecords
  BY DEF StatsInd, Sound
<1>2. /\ place \in [Tasks -> Places]
      /\ spent \in [Tasks -> Clocks]
      /\ \A t \in Tasks : place[t] = "run" => t = current /\ mode # "switch"
      /\ mode # "switch" => place[current] = "run"
      /\ place[idle_task] # "free"
      /\ \A t \in Tasks \ {idle_task} :
           place[t] # "free" => Exact(spent[t], estadisticas[t], place[t], mode, now)
  BY DEF UserInd
<1>3. \A t \in Tasks : /\ spent[t].user \in Nat
                       /\ estadisticas[t].user_ticks \in Nat
                       /\ estadisticas[t].elapsed_total_ticks \in Nat
  BY <1>1, <1>2 DEF Clocks, StatRecords
<1>4. ASSUME NEW t \in Tasks, NEW st, NEW n \in Nat, Bill(t, st, n)
      PROVE  spent' \in [Tasks -> Clocks]
  BY <1>4, PassUser DEF Bill
<1>5. CASE Tick
  <2>1. now' = now + 1 /\ UNCHANGED <<place, current, mode, estadisticas>>
    BY <1>5 DEF Tick, Pass
  <2>2. /\ spent' \in [Tasks -> Clocks]
        /\ \A t \in Tasks : spent'[t].user = spent[t].user + IF InUser(place[t], mode) THEN 1 ELSE 0
    BY <1>5, PassUser DEF Tick
  <2>3. ASSUME NEW t \in Tasks \ {idle_task}, place[t] # "free"
        PROVE  Exact(spent'[t], estadisticas[t], place[t], mode, now')
    BY <1>1, <1>2, <1>3, <2>1, <2>2, <2>3 DEF Exact
  <2> QED
    BY <1>2, <2>1, <2>2, <2>3 DEF UserInd
<1>6. CASE Enter
  <2>1. PICK n \in Late : Bill(current, BillUser(estadisticas[current], n), n)
    BY <1>6 DEF Enter
  <2>2. mode = "user" /\ mode' \in {"system", "refused"} /\ UNCHANGED <<place, current>>
    BY <1>6 DEF Enter
  <2>3. current # idle_task =>
          /\ spent[current].user = BillUser(estadisticas[current], n).user_ticks
          /\ BillUser(estadisticas[current], n).elapsed_total_ticks = now + n
    BY <1>1, <1>2, <2>2 DEF Exact, InUser, BillUser, Billed, SinceThen
  <2>4. \A u \in Tasks \ {idle_task} :
          place'[u] # "free" => Exact(spent'[u], estadisticas'[u], place'[u], mode', now')
    BY <1>1, <1>2, <2>1, <2>2, <2>3, BillExact DEF InUser
  <2> QED
    BY <1>2, <1>4, <1>1, <2>1, <2>2, <2>4 DEF UserInd
<1>7. CASE Leave
  <2>1. PICK n \in Late : Bill(current, BillSystem(estadisticas[current], n), n)
    BY <1>7 DEF Leave
  <2>2. mode \in {"system", "done"} /\ mode' = "user" /\ UNCHANGED <<place, current>>
    BY <1>7 DEF Leave
  <2>3. current # idle_task =>
          /\ spent[current].user = BillSystem(estadisticas[current], n).user_ticks
          /\ BillSystem(estadisticas[current], n).elapsed_total_ticks = now + n
    BY <1>1, <1>2, <1>3, <2>2 DEF Exact, InUser, BillSystem, Billed, SinceThen
  <2>4. \A u \in Tasks \ {idle_task} :
          place'[u] # "free" => Exact(spent'[u], estadisticas'[u], place'[u], mode', now')
    BY <1>1, <1>2, <2>1, <2>2, <2>3, BillExact DEF InUser
  <2> QED
    BY <1>2, <1>4, <1>1, <2>1, <2>2, <2>4 DEF UserInd
<1>8. CASE Preempt \/ Wait
  <2>1. PICK n \in Late : Bill(current, BillSystem(estadisticas[current], n), n)
    BY <1>8 DEF Preempt, Wait, ExitRun
  <2>2. PICK p \in {"ready", "waiting"} : place' = [place EXCEPT ![current] = p]
    BY <1>8 DEF Preempt, Wait, ExitRun
  <2>3. mode = "system" /\ mode' = "switch" /\ UNCHANGED current
    BY <1>8 DEF Preempt, Wait, ExitRun, InCall
  <2>4. current # idle_task => spent[current].user = BillSystem(estadisticas[current], n).user_ticks
    BY <1>1, <1>2, <1>3, <2>3 DEF Exact, InUser, BillSystem, Billed
  <2>5. \A u \in Tasks \ {idle_task} :
          place'[u] # "free" => Exact(spent'[u], estadisticas'[u], place'[u], mode', now')
    BY <1>1, <1>2, <2>1, <2>2, <2>3, <2>4, BillExact DEF InUser
  <2>6. place' \in [Tasks -> Places] /\ \A t \in Tasks : place'[t] # "run"
    BY <1>1, <1>2, <2>2 DEF Places
  <2>7. place'[idle_task] # "free"
    BY <1>2, <2>2
  <2> QED
    BY <1>4, <1>1, <2>1, <2>3, <2>5, <2>6, <2>7 DEF UserInd
<1>9. CASE sched_next_rr
  <2>1. mode = "switch" /\ \A t \in Tasks : place[t] # "run"
    BY <1>2, <1>9 DEF sched_next_rr
  <2>2. ASSUME NEW t \in Tasks, NEW k \in Late, NEW n \in Late,
               place[t] = "ready",
               Bill(t, BillNext(estadisticas[t], k, n), k + n),
               place' = [place EXCEPT ![t] = "run"], current' = t, mode' = "done"
        PROVE  UserInd'
    <3>1. k + n \in Nat
      OBVIOUS
    <3>2. t # idle_task => spent[t].user = BillNext(estadisticas[t], k, n).user_ticks
      BY <1>1, <1>2, <1>3, <2>2 DEF Exact, InUser, BillNext, Billed
    <3>3. \A u \in Tasks \ {idle_task} :
            place'[u] # "free" => Exact(spent'[u], estadisticas'[u], place'[u], mode', now')
      BY <1>2, <2>1, <2>2, <3>1, <3>2, BillExact DEF InUser
    <3>4. place' \in [Tasks -> Places] /\ \A u \in Tasks : place'[u] = "run" => u = t
      BY <1>2, <2>1, <2>2 DEF Places
    <3>5. place'[t] = "run" /\ place'[idle_task] # "free"
      BY <1>2, <2>2
    <3>6. spent' \in [Tasks -> Clocks]
      BY <1>4, <2>2, <3>1
    <3> QED
      BY <2>2, <3>3, <3>4, <3>5, <3>6 DEF UserInd
  <2>3. ASSUME place' = [place EXCEPT ![idle_task] = "run"], current' = idle_task, mode' = "user", NoBill
        PROVE  UserInd'
    <3>1. UNCHANGED <<spent, now, estadisticas>>
      BY <2>3 DEF NoBill
    <3>2. ASSUME NEW u \in Tasks \ {idle_task}, place'[u] # "free"
          PROVE  Exact(spent[u], estadisticas[u], place'[u], mode', now)
      <4>1. place'[u] = place[u]
        BY <1>2, <2>3, <3>2
      <4> QED
        BY <1>2, <2>1, <3>2, <4>1 DEF Exact, InUser
    <3>3. place' \in [Tasks -> Places] /\ \A u \in Tasks : place'[u] = "run" => u = idle_task
      BY <1>2, <2>1, <2>3 DEF Places
    <3>4. place'[idle_task] = "run"
      BY <1>2, <2>3
    <3> QED
      BY <1>2, <2>3, <3>1, <3>2, <3>3, <3>4 DEF UserInd
  <2> QED
    BY <1>9, <2>2, <2>3 DEF sched_next_rr
<1>10. CASE LeaveRefused
  <2>1. mode = "refused" /\ mode' = "user" /\ UNCHANGED <<place, current, spent, now, estadisticas>>
    BY <1>10 DEF LeaveRefused, NoBill
  <2> QED
    BY <1>2, <2>1 DEF UserInd, Exact, InUser
<1>11. CASE Read \/ Exit \/ Wake
  <2>1. mode = "system" /\ mode' \in {"switch", "done"} /\ UNCHANGED <<current, spent, now, estadisticas>>
    BY <1>11 DEF Read, Exit, Wake, NoBill, InCall
  <2>2. /\ place' \in [Tasks -> Places]
        /\ \A t \in Tasks \ {current} : /\ place'[t] = "free" <=> place[t] = "free"
                                        /\ place'[t] # "run"
    BY <1>1, <1>2, <2>1, <1>11 DEF Read, Exit, Wake, Woken, Places
  <2>3. IF mode' = "switch" THEN /\ place'[current] # "run"
                                 /\ current # idle_task
                                 ELSE place'[current] = "run"
    BY <1>1, <1>2, <2>1, <1>11 DEF Read, Exit, Wake, Woken, InCall
  <2>4. place'[idle_task] # "free"
    BY <1>2, <2>1, <2>2, <2>3
  <2>5. ASSUME NEW u \in Tasks \ {idle_task}, place'[u] # "free"
        PROVE  Exact(spent[u], estadisticas[u], place'[u], mode', now)
    <3>1. place[u] # "free"
      BY <1>2, <2>1, <2>2, <2>5
    <3> QED
      BY <1>2, <2>1, <3>1 DEF Exact, InUser
  <2> QED
    BY <1>2, <2>1, <2>2, <2>3, <2>4, <2>5 DEF UserInd
<1>12. ASSUME NEW t \in Tasks, Create(t)
       PROVE  UserInd'
  <2>1. /\ place[t] = "free" /\ place' = [place EXCEPT ![t] = "ready"]
        /\ estadisticas' = [estadisticas EXCEPT ![t] = init_stats]
        /\ spent' = [spent EXCEPT ![t] = [user |-> 0, ready |-> 0, blocked |-> 0]]
        /\ mode = "system" /\ mode' = "done" /\ UNCHANGED <<now, current>>
    BY <1>12 DEF Create, InCall
  <2>2. place' \in [Tasks -> Places] /\ spent' \in [Tasks -> Clocks]
    BY <1>2, <2>1 DEF Places, Clocks
  <2>3. current # t
    BY <1>2, <2>1
  <2>4. Exact(spent'[t], estadisticas'[t], place'[t], mode', now')
    BY <1>1, <1>2, <2>1 DEF Exact, InUser, init_stats
  <2>5. ASSUME NEW u \in Tasks \ {idle_task}, u # t, place'[u] # "free"
        PROVE  Exact(spent'[u], estadisticas'[u], place'[u], mode', now')
    <3>1. /\ place'[u] = place[u] /\ spent'[u] = spent[u]
          /\ estadisticas'[u] = estadisticas[u]
      BY <1>1, <1>2, <2>1, <2>5
    <3> QED
      BY <1>2, <2>1, <2>5, <3>1 DEF Exact, InUser
  <2> QED
    BY <1>1, <1>2, <2>1, <2>2, <2>3, <2>4, <2>5 DEF UserInd
<1>13. CASE UNCHANGED vars
  BY <1>2, <1>13 DEF vars, UserInd
<1> QED
  BY <1>5, <1>6, <1>7, <1>8, <1>9, <1>10, <1>11, <1>12, <1>13 DEF Next

\* user_ticks is exactly the time the process has spent outside of the kernel,
\* however it was preempted, blocked, woken or created.
THEOREM UserTimeExact == Spec => []UserTicksExact
<1>1. StatsInd /\ UserInd => UserTicksExact
  BY DEF UserInd, UserTicksExact, Exact, InUser, SinceThen
<1> QED
  BY StatsInit, StatsStep, UserInit, UserStep, <1>1, PTL DEF Spec

=============================================================================
