----------------------------- MODULE BootProofs -----------------------------
(***************************************************************************)
(* What main leaves behind is the state the other modules start from, and  *)
(* page tables, TLB and break stay right from then on: for every number of *)
(* tasks, pages and frames, without a condition on the frames.             *)
(***************************************************************************)
EXTENDS Boot, ProcessProofs

-----------------------------------------------------------------------------
(* The steps of module AddressSpace.                                       *)

\* Each is a step of the kernel, or none.
LEMMA SpaceStepIsStep == SpaceNext => [Next]_vars
  BY DEF SpaceNext, Fork, Clone, OtherStep, Touch, sys_sbrk, Next

\* fork makes a process of the free PCB, or abandons it.
LEMMA ForkShape ==
  ASSUME QueueInd, sys_fork, KernelRuns'
  PROVE  \/ Creates(FirstFree) /\ ForkMemory(FirstFree) /\ incrementalPID' # incrementalPID
         \/ Abandons(FirstFree) /\ incrementalPID' = incrementalPID
<1>1. TypeOK /\ TypeOK' /\ Core /\ FreeListInv /\ incrementalPID \in Int
  BY RunsBefore, NextTypeOK DEF QueueInd, Rest, Next, TypeOK
<1>2. Creates(FirstFree) \/ Abandons(FirstFree)
  BY <1>1, CreateShape
<1>3. CASE Creates(FirstFree)
  <2>1. incrementalPID' = incrementalPID + 1
    BY <1>3 DEF Creates, Created
  <2>2. ForkMemory(FirstFree)
    BY <1>1, <2>1 DEF sys_fork, CreateFaults, Abandoned, KernelRuns
  <2> QED
    BY <1>1, <1>3, <2>1, <2>2
<1>4. CASE Abandons(FirstFree)
  BY <1>4 DEF Abandons, Abandoned
<1> QED
  BY <1>2, <1>3, <1>4

\* clone makes a thread of it.
LEMMA CloneShape ==
  ASSUME QueueInd, sys_clone, KernelRuns'
  PROVE  Creates(FirstFree) /\ CloneMemory(FirstFree)
<1>1. TypeOK /\ TypeOK' /\ Core /\ FreeListInv /\ incrementalPID \in Int
  BY RunsBefore, NextTypeOK DEF QueueInd, Rest, Next, TypeOK
<1>2. Creates(FirstFree) \/ Abandons(FirstFree)
  BY <1>1, CreateShape
<1>3. Created(FirstFree) /\ CloneMemory(FirstFree)
  BY DEF sys_clone, CreateFaults, KernelRuns
<1>4. ~Abandons(FirstFree)
  BY <1>1, <1>3 DEF Abandons, Abandoned, Created
<1> QED
  BY <1>2, <1>3, <1>4

\* The other steps take no directory, and leave all as it is when they do not
\* switch.
LEMMA OtherShape ==
  ASSUME QueueInd, OtherStep, KernelRuns'
  PROVE  /\ Procs' \subseteq Procs /\ UNCHANGED n_directorio
         /\ current' = current => Procs' = Procs /\ UNCHANGED <<PID, PT>>
<1>1. TypeOK /\ TypeOK' /\ Core /\ Rest
  BY RunsBefore, NextTypeOK DEF QueueInd, Next, OtherStep
<1>2. CASE sys_exit
  <2>1. Exits
    BY <1>1, <1>2, ExitShape
  <2>2. current' \in Procs'
    BY <1>1 DEF Procs, TypeOK, SchedTypeOK
  <2> QED
    BY <2>1, <2>2 DEF Exits, ExitSwitches, ExitMemory
<1>3. CASE SchedStep \/ SemaphoreStep
  BY <1>1, <1>3, SchedStepStays, SemaphoreStepStays DEF Stays, memVars, Rest
<1>4. CASE NiceStep
  BY <1>4, SamePlaces DEF NiceStep, Nice, kbVars, semVars, memVars
<1> QED
  BY <1>2, <1>3, <1>4 DEF OtherStep

-----------------------------------------------------------------------------
(* The page tables.                                                        *)

LEMMA Pages ==
  /\ Inherited = KernelPages \cup CodePages
  /\ Scratch \cap Inherited = {} /\ Unmapped = Scratch
  /\ \A i \in DataPages : DataPage(i) \notin OtherPages /\ DataPage(i) - DataPage(0) = i
<1> USE Constants
<1>1. Inherited = KernelPages \cup CodePages
  BY DEF Inherited, KernelPages, CodePages, DataPage
<1>2. Scratch \cap Inherited = {}
  BY DEF Scratch, Inherited, CodePages, DataPage, HeapPage, DataPages
<1>3. \A i \in DataPages : DataPage(i) \notin OtherPages /\ DataPage(i) - DataPage(0) = i
  BY DEF OtherPages, DataPage, DataPages
<1> QED
  BY <1>1, <1>2, <1>3 DEF Unmapped

\* Nobody's directory maps a page fork does not fill, and those that have a
\* process map what init's did.
Blank      == \A d \in Dirs, q \in OtherPages \ Inherited : tables[d][q] = NoFrame
HomeTables == \A d \in Homes : tables[d] = BootTable(1)
InOrder    == tables \in [Dirs -> [OtherPages -> Int]] /\ Blank /\ HomeTables

\* fork's copy of a table that is in order is in order; so is the original
\* when the scratch mappings are gone.
LEMMA ForkedTables ==
  ASSUME TypeOK, tables \in [Dirs -> [OtherPages -> Int]], Blank,
         NEW d \in Dirs, NEW p \in Dirs, p = n_directorio[current], d # p,
         tables[p] = BootTable(1), ForkTables(d)
  PROVE  /\ tables' \in [Dirs -> [OtherPages -> Int]] /\ Blank'
         /\ tables'[d] = BootTable(1) /\ tables'[p] = BootTable(1)
         /\ \A e \in Dirs \ {d, p} : tables'[e] = tables[e]
<1> DEFINE child  == [q \in OtherPages |-> IF q \in Inherited THEN tables[p][q] ELSE tables[d][q]]
           parent == [q \in OtherPages |-> IF q \in Scratch THEN NoFrame ELSE tables[p][q]]
<1>1. tables' = [tables EXCEPT ![d] = child, ![p] = parent]
  <2>1. parent = [q \in OtherPages |->
                    CASE q \in Unmapped -> NoFrame
                      [] q \in Scratch \ Unmapped -> PT'[d][q - HeapPage(0)]
                      [] OTHER -> tables[p][q]]
    BY Pages
  <2> QED
    BY <2>1 DEF ForkTables
<1>2. \A q \in OtherPages \ Inherited : BootTable(1)[q] = NoFrame
  BY Pages DEF BootTable
<1>3. BootTable(1) = [q \in OtherPages |-> BootTable(1)[q]]
  BY DEF BootTable
<1>4. child = BootTable(1)
  <2>1. \A q \in OtherPages : child[q] = BootTable(1)[q]
    BY <1>2 DEF Blank
  <2> QED
    BY <1>3, <2>1
<1>5. parent = BootTable(1)
  <2>1. \A q \in OtherPages : parent[q] = BootTable(1)[q]
    BY <1>2, Pages
  <2> QED
    BY <1>3, <2>1
<1>6. BootTable(1) \in [OtherPages -> Int]
  <2>1. tables[p] \in [OtherPages -> Int]
    OBVIOUS
  <2> QED
    BY <2>1
<1> HIDE DEF child, parent
<1>7. tables' \in [Dirs -> [OtherPages -> Int]]
  BY <1>1, <1>4, <1>5, <1>6
<1>8. /\ tables'[d] = BootTable(1) /\ tables'[p] = BootTable(1)
      /\ \A e \in Dirs \ {d, p} : tables'[e] = tables[e]
  BY <1>1, <1>4, <1>5
<1>9. Blank'
  <2> SUFFICES ASSUME NEW e \in Dirs, NEW q \in OtherPages \ Inherited PROVE tables'[e][q] = NoFrame
    BY DEF Blank, Dirs, OtherPages, Inherited, CodePages, DataPage, DataPages
  <2> QED
    BY <1>2, <1>8 DEF Blank
<1> QED
  BY <1>7, <1>8, <1>9

\* The directory fork gives the new PCB was nobody's.
LEMMA ForkDirectory ==
  ASSUME TypeOK, Apart, current # idle_task, NEW new \in Tasks \ Procs, ~NoDIR,
         ForkMemory(new) \/ ForkWithoutDIR(new) \/ ForkWithoutFrames(new)
  PROVE  /\ n_directorio'[new] \in Dirs \ Homes
         /\ n_directorio' = [n_directorio EXCEPT ![new] = n_directorio'[new]]
<1>1. PICK d \in Dirs : allocate_DIR(d) /\ n_directorio' = [n_directorio EXCEPT ![new] = d]
  BY DEF ForkMemory, ForkWithoutDIR, ForkWithoutFrames
<1>2. n_directorio'[new] = d
  BY <1>1, MemoryFacts
<1>3. refs_DIR[d] = 0
  BY <1>1 DEF allocate_DIR
<1>4. d \notin Homes
  BY <1>3, HomesTaken, MemoryFacts DEF Apart, Extra
<1> QED
  BY <1>1, <1>2, <1>4

LEMMA TablesStep ==
  ASSUME QueueInd, ApartInd, InOrder, SpaceNext, KernelRuns'
  PROVE  InOrder'
<1>1. TypeOK /\ Apart /\ n_directorio \in [Tasks -> Dirs] /\ Procs \subseteq Tasks
  BY SpaceStepIsStep, RunsBefore, MemoryFacts DEF QueueInd, ApartInd
<1>2. ASSUME UNCHANGED tables, Homes' \subseteq Homes PROVE InOrder'
  BY <1>2 DEF InOrder, Blank, HomeTables, BootTable
<1>3. CASE Fork
  <2>1. sys_fork /\ fault' # "pagefault"
    BY <1>3 DEF Fork, KernelRuns
  <2>2. PICK new \in Tasks \ Procs : new = FirstFree /\ (Creates(new) \/ Abandons(new))
    BY <2>1, ForkShape DEF Creates, Abandons, WasFree
  <2>3. current # idle_task /\ (ForkMemory(new) \/ ForkWithoutDIR(new) \/ ForkWithoutFrames(new))
    BY <2>1, <2>2 DEF sys_fork, CreateFaults, CanCreate, InUserProcess
  <2>4. Procs' = Procs \cup {new} \/ Procs' = Procs
    BY <2>2 DEF Creates, Abandons
  <2>5. CASE NoDIR
    <3>1. UNCHANGED tables /\ ~ForkMemory(new)
      BY <1>3, <2>5 DEF Fork, ForkMemory, NoDIR, allocate_DIR, KernelRuns
    <3>2. Procs' = Procs /\ n_directorio' = [n_directorio EXCEPT ![new] = n_directorio[current]]
      BY <2>1, <2>2, <2>3, <2>5, <3>1, ForkShape DEF Abandons, ForkWithoutDIR, ForkWithoutFrames, NoDIR, allocate_DIR
    <3> QED
      BY <1>1, <1>2, <3>1, <3>2 DEF Homes
  <2>6. CASE ~NoDIR
    <3> PICK d \in Dirs \ Homes : d = n_directorio'[new] /\ n_directorio' = [n_directorio EXCEPT ![new] = d]
      BY <1>1, <2>3, <2>6, ForkDirectory
    <3> PICK p \in Dirs : p = n_directorio[current]
      BY <1>1, MemoryFacts
    <3>1. p \in Homes
      BY <1>1, <2>3, MemoryFacts DEF Homes
    <3>2. ForkTables(d)
      BY <1>3, <2>1, <2>2, <2>6 DEF Fork
    <3>3. /\ tables' \in [Dirs -> [OtherPages -> Int]] /\ Blank'
          /\ tables'[d] = BootTable(1) /\ tables'[p] = BootTable(1)
          /\ \A e \in Dirs \ {d, p} : tables'[e] = tables[e]
      BY <1>1, <3>1, <3>2, ForkedTables DEF InOrder, HomeTables
    <3>4. Homes' \subseteq Homes \cup {d}
      BY <1>1, <2>2, <2>4 DEF Homes
    <3>5. \A e \in Homes : e \in Dirs
      BY <1>1 DEF Homes
    <3> QED
      BY <3>3, <3>4, <3>5 DEF InOrder, HomeTables, BootTable
  <2> QED
    BY <2>5, <2>6
<1>4. CASE Clone
  <2>1. UNCHANGED tables /\ Creates(FirstFree) /\ CloneMemory(FirstFree)
    BY <1>4, CloneShape DEF Clone
  <2>2. Homes' \subseteq Homes
    BY <1>1, <2>1, MemoryFacts DEF Creates, WasFree, CloneMemory, Homes
  <2> QED
    BY <1>2, <2>1, <2>2
<1>5. CASE OtherStep
  BY <1>2, <1>5, OtherShape DEF OtherStep, Homes
<1>6. CASE UNCHANGED <<vars, tables>>
  BY <1>2, <1>6, SamePlaces DEF vars, schedVars, kbVars, semVars, memVars, Homes
<1> QED
  BY <1>3, <1>4, <1>5, <1>6 DEF SpaceNext, Touch, sys_sbrk

-----------------------------------------------------------------------------
(* The translation buffer.                                                 *)

\* The processor holds translations of the running process's data pages only,
\* unless a fork was abandoned.
DataCached == \A e \in tlb : \E i \in DataPages : e = <<DataPage(i), PT[n_directorio[current]][i]>>
Cached     == NoForkAbandoned => DataCached

\* Where nothing of the running process changes, the buffer stays right.
LEMMA CacheKept ==
  ASSUME Cached, NoForkAbandoned' => NoForkAbandoned, tlb' \subseteq tlb,
         tlb' # {} => PT'[n_directorio'[current']] = PT[n_directorio[current]]
  PROVE  Cached'
<1> SUFFICES ASSUME NoForkAbandoned', NEW e \in tlb'
             PROVE  \E i \in DataPages : e = <<DataPage(i), PT'[n_directorio'[current']][i]>>
  BY DEF Cached, DataCached, DataPages, DataPage
<1>1. PICK i \in DataPages : e = <<DataPage(i), PT[n_directorio[current]][i]>>
  BY DEF Cached, DataCached
<1> QED
  BY <1>1

\* The copy a fork abandons is a PCB with a PID that is no process.
LEMMA AbandonedSeen ==
  ASSUME TypeOK, Core, NEW new \in Tasks, Abandons(new)
  PROVE  ~NoForkAbandoned'
<1>1. PID' = [PID EXCEPT ![new] = PID[current]] /\ new \notin Procs' /\ PID[current] # -1
  BY CoreFacts DEF Abandons, WasFree, Abandoned, CopyPCB
<1>2. PID'[new] # -1
  BY <1>1 DEF TypeOK, SchedTypeOK
<1> QED
  BY <1>1, <1>2 DEF NoForkAbandoned

\* A new process is no abandoned copy.
LEMMA CreatedSeen ==
  ASSUME TypeOK, NEW new \in Tasks, Creates(new), NoForkAbandoned'
  PROVE  NoForkAbandoned
<1> SUFFICES ASSUME NEW t \in Tasks, PID[t] # -1 PROVE t \in Procs
  BY DEF NoForkAbandoned
<1>1. PID' = [PID EXCEPT ![new] = incrementalPID] /\ new \notin Procs /\ PID[new] = -1
      /\ Procs' = Procs \cup {new}
  BY DEF Creates, WasFree, Created, CopyPCB
<1>2. PID'[t] = PID[t] /\ t # new
  BY <1>1 DEF TypeOK, SchedTypeOK
<1>3. t \in Procs'
  BY <1>2 DEF NoForkAbandoned
<1> QED
  BY <1>1, <1>2, <1>3

LEMMA CacheStep ==
  ASSUME QueueInd, Cached, SpaceNext, KernelRuns'
  PROVE  Cached'
<1>1. TypeOK /\ Core /\ n_directorio \in [Tasks -> Dirs]
  BY SpaceStepIsStep, RunsBefore, MemoryFacts DEF QueueInd
<1>2. ASSUME Abandons(FirstFree) PROVE Cached'
  BY <1>1, <1>2, AbandonedSeen DEF Cached, Abandons, WasFree
<1>3. CASE Fork
  <2>1. sys_fork /\ fault' # "pagefault"
    BY <1>3 DEF Fork, KernelRuns
  <2>2. CASE Creates(FirstFree) /\ ForkMemory(FirstFree) /\ incrementalPID' # incrementalPID
    <3>1. ~NoDIR
      BY <2>2 DEF ForkMemory, NoDIR, allocate_DIR
    <3>2. tlb' = {}
      BY <1>3, <2>1, <2>2, <3>1 DEF Fork, ForkEnds
    <3> QED
      BY <3>2 DEF Cached, DataCached
  <2> QED
    BY <1>2, <2>1, <2>2, ForkShape
<1>4. CASE Clone
  <2>1. UNCHANGED tlb /\ Creates(FirstFree) /\ CloneMemory(FirstFree)
    BY <1>4, CloneShape DEF Clone
  <2>2. PT' = PT /\ current' = current /\ n_directorio'[current] = n_directorio[current]
    BY <1>1, <2>1, MemoryFacts DEF Creates, WasFree, CloneMemory
  <2>3. NoForkAbandoned' => NoForkAbandoned
    BY <1>1, <2>1, CreatedSeen DEF Creates, WasFree
  <2> QED
    BY <2>1, <2>2, <2>3, CacheKept
<1>5. CASE OtherStep
  <2>1. CASE current' = current
    <3>1. UNCHANGED <<tlb, PT, n_directorio, PID>> /\ Procs' = Procs
      BY <1>5, <2>1, OtherShape DEF OtherStep, Reloaded
    <3> QED
      BY <2>1, <3>1, CacheKept DEF NoForkAbandoned
  <2>2. CASE current' # current
    BY <1>5, <2>2 DEF OtherStep, Reloaded, Cached, DataCached
  <2> QED
    BY <2>1, <2>2
<1>6. ASSUME UNCHANGED vars
      PROVE  /\ NoForkAbandoned' => NoForkAbandoned
             /\ PT' = PT /\ n_directorio' = n_directorio /\ current' = current
  BY <1>6, SamePlaces DEF vars, schedVars, kbVars, semVars, memVars, NoForkAbandoned
<1>7. ASSUME NEW i \in DataPages, Touch(i) PROVE Cached'
  <2>1. UNCHANGED vars /\ Translation(DataPage(i)) = PT[n_directorio[current]][i]
    BY <1>7, Pages DEF Touch, Translation
  <2>2. tlb' = tlb \cup {<<DataPage(i), PT[n_directorio[current]][i]>>}
    BY <1>7, <2>1 DEF Touch
  <2> SUFFICES ASSUME NoForkAbandoned', NEW e \in tlb'
               PROVE  \E j \in DataPages : e = <<DataPage(j), PT'[n_directorio'[current']][j]>>
    BY DEF Cached, DataCached, DataPages, DataPage
  <2> QED
    BY <1>6, <2>1, <2>2 DEF Cached, DataCached
<1>8. ASSUME NEW incr \in Incrs, sys_sbrk(incr) PROVE Cached'
  <2>1. UNCHANGED vars /\ tlb' \subseteq tlb
    BY <1>8 DEF sys_sbrk
  <2> QED
    BY <1>6, <2>1, CacheKept
<1> QED
  BY <1>3, <1>4, <1>5, <1>7, <1>8 DEF SpaceNext

-----------------------------------------------------------------------------
(* The program break.                                                      *)

\* A break in a page up to the one after the table lies before its end.
LEMMA BeforeEnd ==
  ASSUME NEW b \in Nat, NEW P \in Nat \ {0}, NEW n \in Nat, b \div P <= n
  PROVE  b < (n + 1) * P
  BY SMTT(30)

LEMMA HeapStart ==
  /\ HEAP_START \in Nat /\ HEAP_START < (TOTAL_PAGES + 1) * PAGE_SIZE
  /\ (TOTAL_PAGES + 1) * PAGE_SIZE \in Nat
<1> DEFINE first == HeapPage(0)
<1>1. first \in Nat /\ first <= TOTAL_PAGES /\ PAGE_SIZE \in Nat \ {0} /\ TOTAL_PAGES \in Nat
  BY Constants, AddressSpaceAssumption DEF HeapPage, DataPage
<1>2. HEAP_START = first * PAGE_SIZE
  BY DEF HEAP_START
<1> HIDE DEF first
<1>3. first * PAGE_SIZE \in Nat /\ (TOTAL_PAGES + 1) * PAGE_SIZE \in Nat
  BY <1>1
<1>4. first * PAGE_SIZE < (TOTAL_PAGES + 1) * PAGE_SIZE
  BY <1>1, SMTT(30)
<1> QED
  BY <1>2, <1>3, <1>4

InHeap(b)   == b \in Int /\ HEAP_START <= b /\ b < (TOTAL_PAGES + 1) * PAGE_SIZE
BreaksInd   == processBreak \in [Tasks -> Int] /\ \A t \in Procs : InHeap(processBreak[t])

\* What sbrk makes of a break.
LEMMA NewBreakInHeap ==
  ASSUME NEW b \in Int, NEW incr \in Int, NewBreak(b, incr) \div PAGE_SIZE <= TOTAL_PAGES
  PROVE  InHeap(NewBreak(b, incr))
<1> DEFINE new == NewBreak(b, incr)
           sum == (b + incr) % Word
<1>1. Word \in Nat \ {0} /\ PAGE_SIZE \in Nat \ {0} /\ TOTAL_PAGES \in Nat
  BY HeapStart, AddressSpaceAssumption, Constants
<1>2. sum \in Nat
  BY <1>1
<1>3. new = IF sum < HEAP_START THEN HEAP_START ELSE sum
  BY DEF NewBreak
<1> HIDE DEF sum
<1>4. new \in Nat /\ HEAP_START <= new
  BY <1>2, <1>3, HeapStart
<1> HIDE DEF new
<1>5. new < (TOTAL_PAGES + 1) * PAGE_SIZE
  BY <1>1, <1>4, BeforeEnd DEF new
<1> QED
  BY <1>4, <1>5 DEF InHeap, new

LEMMA BreaksStep ==
  ASSUME QueueInd, BreaksInd, SpaceNext, KernelRuns'
  PROVE  BreaksInd'
<1>1. TypeOK /\ Core /\ current \in Procs /\ current \in Tasks /\ Procs \subseteq Tasks
  BY SpaceStepIsStep, RunsBefore, MemoryFacts DEF QueueInd
<1>2. ASSUME UNCHANGED processBreak, Procs' \subseteq Procs PROVE BreaksInd'
  BY <1>2 DEF BreaksInd, InHeap, HEAP_START, HeapPage, DataPage
<1>3. ASSUME Creates(FirstFree) \/ Abandons(FirstFree),
             processBreak' = [processBreak EXCEPT ![FirstFree] = processBreak[current]]
      PROVE  BreaksInd'
  <2>1. PICK new \in Tasks \ Procs : new = FirstFree /\ Procs' \subseteq Procs \cup {new}
    BY <1>3 DEF Creates, Abandons, WasFree
  <2>2. processBreak' \in [Tasks -> Int]
    BY <1>1, <1>3, <2>1 DEF BreaksInd
  <2>3. \A t \in Procs' : InHeap(processBreak'[t])
    BY <1>1, <1>3, <2>1 DEF BreaksInd
  <2> QED
    BY <2>2, <2>3 DEF BreaksInd, InHeap, HEAP_START, HeapPage, DataPage
<1>4. CASE Fork
  BY <1>3, <1>4, ForkShape DEF Fork, KernelRuns
<1>5. CASE Clone
  BY <1>3, <1>5, CloneShape DEF Clone, KernelRuns
<1>6. CASE OtherStep
  BY <1>2, <1>6, OtherShape DEF OtherStep
<1>7. ASSUME UNCHANGED vars PROVE Procs' = Procs
  BY <1>7, SamePlaces DEF vars, schedVars, kbVars, semVars
<1>8. ASSUME NEW i \in DataPages, Touch(i) PROVE BreaksInd'
  BY <1>2, <1>7, <1>8 DEF Touch
<1>9. ASSUME NEW incr \in Incrs, sys_sbrk(incr) PROVE BreaksInd'
  <2>1. Procs' = Procs /\ incr \in Int /\ processBreak[current] \in Int
    BY <1>1, <1>7, <1>9, AddressSpaceAssumption DEF sys_sbrk, BreaksInd
  <2>2. PICK new : new = NewBreak(processBreak[current], incr)
    OBVIOUS
  <2>3. processBreak' = [processBreak EXCEPT ![current] = new] /\ InHeap(new)
    BY <1>9, <2>1, <2>2, NewBreakInHeap DEF sys_sbrk
  <2>4. processBreak' \in [Tasks -> Int]
    BY <2>3 DEF BreaksInd, InHeap
  <2>5. \A t \in Procs' : InHeap(processBreak'[t])
    BY <1>1, <2>1, <2>3 DEF BreaksInd
  <2> QED
    BY <2>4, <2>5 DEF BreaksInd, InHeap, HEAP_START, HeapPage, DataPage
<1> QED
  BY <1>4, <1>5, <1>6, <1>8, <1>9 DEF SpaceNext

-----------------------------------------------------------------------------
(* The kernel once it runs.                                                *)

SpaceInd == QueueInd /\ ApartInd /\ (KernelRuns => InOrder /\ Cached /\ BreaksInd)

\* The tables main leaves are in order, the buffer is empty and the breaks are
\* at the start of the heap.
LEMMA SpaceIndInit ==
  ASSUME SpaceInit
  PROVE  SpaceInd
<1>1. Init /\ Procs = {idle_task, init_task} /\ MemoryInit
  BY StartProcs DEF Init, SpaceInit
<1>2. \A q \in OtherPages : BootTable(1)[q] \in Int
  BY Constants DEF BootTable, BootFrame, OtherPages, NoFrame, CodePages, DataPage
<1>3. \A d \in Dirs : BootTable(d) \in [OtherPages -> Int]
  BY Constants DEF BootTable, BootFrame, OtherPages, NoFrame, CodePages, DataPage
<1>4. tables = [d \in Dirs |-> BootTable(d)]
  BY DEF SpaceInit
<1>5. Blank
  BY <1>4, Pages DEF Blank, BootTable
<1>6. HomeTables
  <2>1. Homes = {1}
    BY <1>1, SpecialTasks DEF Homes, MemoryInit
  <2>2. 1 \in Dirs
    BY <1>1, InitTypeOK, MemoryFacts
  <2> QED
    BY <1>4, <2>1, <2>2 DEF HomeTables
<1>7. Cached
  BY DEF SpaceInit, Cached, DataCached
<1>8. BreaksInd
  BY <1>1, HeapStart, SpecialTasks DEF SpaceInit, BreaksInd, InHeap
<1>9. tables \in [Dirs -> [OtherPages -> Int]]
  BY <1>3, <1>4
<1> QED
  BY <1>1, <1>5, <1>6, <1>7, <1>8, <1>9, InitQueueInd, ApartInit DEF SpaceInd, InOrder

LEMMA SpaceIndStep ==
  ASSUME SpaceInd, [SpaceNext]_<<vars, spaceVars>>
  PROVE  SpaceInd'
<1>1. [Next]_vars
  BY SpaceStepIsStep
<1>2. QueueInd' /\ ApartInd'
  BY <1>1, NextQueueInd, ApartStep DEF SpaceInd
<1>3. ASSUME KernelRuns', SpaceNext PROVE InOrder' /\ Cached' /\ BreaksInd'
  BY <1>1, <1>3, RunsBefore, TablesStep, CacheStep, BreaksStep DEF SpaceInd
<1>4. ASSUME KernelRuns', UNCHANGED <<vars, spaceVars>> PROVE InOrder' /\ Cached' /\ BreaksInd'
  <2>1. InOrder /\ Cached /\ BreaksInd
    BY <1>1, <1>4, RunsBefore DEF SpaceInd
  <2>2. Procs' = Procs /\ UNCHANGED <<PID, current, n_directorio, PT, tables, tlb, processBreak>>
    BY <1>4, SamePlaces DEF vars, schedVars, kbVars, semVars, memVars, spaceVars
  <2>3. InOrder'
    BY <2>1, <2>2 DEF InOrder, Blank, HomeTables, Homes, BootTable
  <2>4. Cached'
    BY <2>1, <2>2, CacheKept DEF NoForkAbandoned
  <2>5. BreaksInd'
    BY <2>1, <2>2 DEF BreaksInd, InHeap, HEAP_START, HeapPage, DataPage
  <2> QED
    BY <2>3, <2>4, <2>5
<1> QED
  BY <1>2, <1>3, <1>4 DEF SpaceInd

\* What the invariant is for.
LEMMA SpaceIndImplies ==
  ASSUME SpaceInd
  PROVE  TablesInPlace /\ TLBCoherent /\ BreakInRange
<1>1. TablesInPlace
  BY DEF SpaceInd, InOrder, HomeTables, Homes, TablesInPlace
<1>2. TLBCoherent
  <2> SUFFICES ASSUME KernelRuns, NoForkAbandoned, NEW e \in tlb PROVE Translation(e[1]) = e[2]
    BY DEF TLBCoherent
  <2>1. PICK i \in DataPages : e = <<DataPage(i), PT[n_directorio[current]][i]>>
    BY DEF SpaceInd, Cached, DataCached
  <2> QED
    BY <2>1, Pages DEF Translation
<1>3. BreakInRange
  BY DEF SpaceInd, BreaksInd, InHeap, BreakInRange
<1> QED
  BY <1>1, <1>2, <1>3

-----------------------------------------------------------------------------
(* The stages of main.                                                     *)

\* What main leaves alone until return_gate, but for keys in the buffer.
Untouched ==
  /\ readyqueue = <<>> /\ estado = [t \in Tasks |-> "RUN"]
  /\ fault = "boot" /\ incrementalPID = 2
  /\ KeyboardInit /\ SemaphoresInit

NoTask == quantum = [t \in Tasks |-> 0] /\ processBreak = [t \in Tasks |-> 0]

\* The memory as init_mm leaves it: directory 0 is the first one free.
MemorySet ==
  /\ phys_mem = KernelFrames /\ n_directorio = [t \in Tasks |-> 0]
  /\ PT = [d \in Dirs |-> [p \in DataPages |-> NoFrame]]
  /\ tables = [d \in Dirs |-> [p \in OtherPages |-> IF p \in KernelPages THEN p ELSE NoFrame]]

FreePCBs(n) == freequeue = [i \in 1 .. n |-> n - i] /\ freelinks = "proper"

AtLoaded == Untouched /\ NoTask /\ refs_DIR = NoReferences /\ n_directorio = [t \in Tasks |-> 0]
AtMM     == Untouched /\ NoTask /\ MemorySet
AtSched  == AtMM /\ FreePCBs(NR_TASKS) /\ PID = [t \in Tasks |-> -1] /\ refs_DIR = NoReferences

\* idle has the last PCB and directory 0.
AtIdle ==
  /\ Untouched /\ MemorySet /\ FreePCBs(NR_TASKS - 1)
  /\ PID = [t \in Tasks |-> IF t = idle_task THEN 0 ELSE -1]
  /\ quantum = [t \in Tasks |-> IF t = idle_task THEN DEFAULT_QUANTUM ELSE 0]
  /\ processBreak = [t \in Tasks |-> IF t = idle_task THEN HEAP_START ELSE 0]
  /\ refs_DIR = [d \in Dirs |-> IF d = 0 THEN 2 ELSE 0]

\* init has the one before it, directory 1 and the first frames; it does not
\* run yet.
AtTask1 ==
  /\ Untouched /\ MemoryInit /\ FreePCBs(NR_TASKS - 2)
  /\ PID = [t \in Tasks |-> IF t = idle_task THEN 0 ELSE IF t = init_task THEN 1 ELSE -1]
  /\ quantum = [t \in Tasks |-> IF t \in {idle_task, init_task} THEN DEFAULT_QUANTUM ELSE 0]
  /\ processBreak = [t \in Tasks |-> IF t \in {idle_task, init_task} THEN HEAP_START ELSE 0]
  /\ tables = [d \in Dirs |-> BootTable(d)] /\ tlb = {}

TurnBegun == qLeft \in 1 .. DEFAULT_QUANTUM

BootInd ==
  \/ stage = "setTSS" /\ AtLoaded
  \/ stage = "init_mm" /\ AtMM
  \/ stage = "init_sched" /\ AtSched
  \/ stage = "init_idle" /\ AtIdle
  \/ stage \in {"init_task1", "enable_int"} /\ AtTask1 /\ TurnBegun
  \/ stage = "return_gate" /\ SpaceInit
  \/ stage = "running" /\ SpaceInd

-----------------------------------------------------------------------------
(* main's steps.                                                           *)

LEMMA LoadedIsLoaded == Loaded => BootInd
  BY Constants DEF Loaded, BootInd, AtLoaded, Untouched, NoTask, NoReferences, KeyboardInit, EmptyCirBuffer, SemaphoresInit

\* allocate_DIR takes the first directory that has no references.
LEMMA FirstDirectory ==
  ASSUME NEW d \in Dirs, allocate_DIR(d), NEW n \in {0, 1}, refs_DIR[n] = 0,
         \A e \in Dirs : e < n => refs_DIR[e] # 0
  PROVE  d = n
<1>1. d \in Int /\ n \in Dirs /\ n \in Int
  BY Constants DEF Dirs, Tasks
<1> QED
  BY <1>1 DEF allocate_DIR

LEMMA MMStep == AtLoaded /\ init_mm => AtMM'
<1> SUFFICES ASSUME AtLoaded, init_mm PROVE AtMM'
  OBVIOUS
<1>1. 0 \in Dirs /\ 0 \in Tasks /\ refs_DIR[0] = 0 /\ \A e \in Dirs : e < 0 => refs_DIR[e] # 0
  BY Constants DEF AtLoaded, NoReferences, Dirs, Tasks
<1>2. n_directorio' = [n_directorio EXCEPT ![0] = 0]
  BY <1>1, FirstDirectory DEF init_mm
<1>3. n_directorio' = [t \in Tasks |-> 0]
  BY <1>1, <1>2 DEF AtLoaded
<1>4. Untouched' /\ NoTask'
  BY DEF AtLoaded, init_mm, Untouched, NoTask, KeyboardInit, SemaphoresInit, schedVars, kbVars, semVars
<1> QED
  BY <1>3, <1>4 DEF init_mm, AtMM, MemorySet, KernelFrames, OtherPages, KernelPages, DataPages,
                    DataPage, Dirs, Tasks

\* What init_sched sets in the semaphore table is there already.
LEMMA FreeEntry ==
  ASSUME NEW s \in [state : {"FREE"}, n_sem : {0}, owner : {0}, counter : {0}]
  PROVE  [s EXCEPT !.counter = 0, !.state = "FREE"] = s
  OBVIOUS

LEMMA SchedMainStep == AtMM /\ init_sched => AtSched'
<1> SUFFICES ASSUME AtMM, init_sched PROVE AtSched'
  OBVIOUS
<1>1. SemaphoresInit'
  <2>1. semaphores = [i \in Slots |-> [state |-> "FREE", n_sem |-> 0, owner |-> 0, counter |-> 0]]
    BY DEF AtMM, Untouched, SemaphoresInit
  <2>2. \A i \in Slots : semaphores[i] \in [state : {"FREE"}, n_sem : {0}, owner : {0}, counter : {0}]
    BY <2>1
  <2>3. \A i \in Slots : [semaphores[i] EXCEPT !.counter = 0, !.state = "FREE"] = semaphores[i]
    BY <2>2, FreeEntry, Zenon
  <2>4. semaphores' = [i \in Slots |-> [semaphores[i] EXCEPT !.counter = 0, !.state = "FREE"]]
    BY DEF init_sched
  <2>5. semaphores' = [i \in Slots |-> semaphores[i]]
    BY <2>3, <2>4, Zenon
  <2>6. semaphores' = semaphores
    BY <2>1, <2>5
  <2>7. UNCHANGED <<blockedQueue, sem_ret>>
    BY DEF init_sched
  <2> QED
    BY <2>6, <2>7 DEF AtMM, Untouched, SemaphoresInit, Slots, Tasks
<1>2. Untouched'
  BY <1>1 DEF AtMM, Untouched, init_sched, KeyboardInit
<1>3. NoTask' /\ MemorySet'
  BY DEF AtMM, NoTask, MemorySet, init_sched, spaceVars, KernelFrames, OtherPages, KernelPages,
         DataPages, DataPage, Dirs, Tasks
<1> QED
  BY <1>2, <1>3 DEF AtSched, AtMM, init_sched, FreePCBs, NoReferences, Dirs, Tasks

\* The first of n free PCBs, and the others.
LEMMA TakeFromProper ==
  ASSUME NEW n \in Nat \ {0}, FreePCBs(n), TakeFirst
  PROVE  FirstFree = n - 1 /\ (FreePCBs(n - 1))'
<1> DEFINE q == [i \in 1 .. n |-> n - i]
<1>1. q \in Seq(Int) /\ Len(q) = n /\ q # <<>> /\ Head(q) = n - 1
  OBVIOUS
<1>2. Tail(q) = [i \in 1 .. n - 1 |-> n - 1 - i]
  OBVIOUS
<1>3. freequeue = q /\ freelinks = "proper"
  BY DEF FreePCBs
<1>4. freequeue' = Tail(q) /\ freelinks' = "proper"
  BY <1>3 DEF TakeFirst, Exhausted
<1> QED
  BY <1>1, <1>2, <1>3, <1>4 DEF FirstFree, FreePCBs

LEMMA IdleStep == AtSched /\ init_idle => AtIdle'
<1> SUFFICES ASSUME AtSched, init_idle PROVE AtIdle'
  OBVIOUS
<1>1. 0 \in Dirs /\ refs_DIR[0] = 0 /\ \A e \in Dirs : e < 0 => refs_DIR[e] # 0
  BY Constants DEF AtSched, NoReferences, Dirs, Tasks
<1>2. Initialised(0, 0)
  BY <1>1, FirstDirectory DEF init_idle, Initialised
<1>3. FirstFree = idle_task /\ (FreePCBs(NR_TASKS - 1))' /\ idle_task \in Tasks
  BY <1>2, TakeFromProper, Constants DEF Initialised, AtSched, idle_task, Tasks
<1>4. Untouched'
  BY <1>2 DEF AtSched, AtMM, Untouched, init_idle, Initialised, KeyboardInit, SemaphoresInit, kbVars, semVars
<1>5. MemorySet'
  <2>1. n_directorio' = [t \in Tasks |-> 0]
    BY <1>2, <1>3 DEF Initialised, AtSched, AtMM, MemorySet
  <2> QED
    BY <2>1 DEF AtSched, AtMM, MemorySet, init_idle, KernelFrames, OtherPages, KernelPages,
                DataPages, DataPage, Dirs, Tasks
<1>6. /\ PID' = [t \in Tasks |-> IF t = idle_task THEN 0 ELSE -1]
      /\ quantum' = [t \in Tasks |-> IF t = idle_task THEN DEFAULT_QUANTUM ELSE 0]
      /\ processBreak' = [t \in Tasks |-> IF t = idle_task THEN HEAP_START ELSE 0]
  BY <1>2, <1>3 DEF Initialised, AtSched, AtMM, NoTask
<1>7. refs_DIR' = [d \in Dirs |-> IF d = 0 THEN 2 ELSE 0]
  BY <1>1, <1>2 DEF Initialised, AtSched, NoReferences
<1> QED
  BY <1>3, <1>4, <1>5, <1>6, <1>7 DEF AtIdle, Dirs, Tasks, idle_task, HEAP_START, HeapPage, DataPage

\* A function that takes different values has as many as it has arguments.
LEMMA ImageSize ==
  ASSUME NEW n \in Nat, NEW T, NEW f \in [0 .. n - 1 -> T],
         \A t \in T : \E i \in 0 .. n - 1 : f[i] = t,
         \A i, j \in 0 .. n - 1 : f[i] = f[j] => i = j
  PROVE  Cardinality(T) = n
<1>1. f \in Surjection(0 .. n - 1, T)
  BY DEF Surjection
<1>2. f \in Injection(0 .. n - 1, T)
  BY DEF Injection, IsInjective
<1>3. IsFiniteSet(0 .. n - 1) /\ Cardinality(0 .. n - 1) = n
  BY FS_Interval, 0 \in Int, n - 1 \in Int
<1> QED
  BY <1>1, <1>2, <1>3, FS_Surjection

\* alloc_frame hands out the first allocatable frames when only the kernel's
\* are used: the frame number k has k allocatable ones before it, and the
\* frames taken before it are those.
LEMMA FirstFrames ==
  ASSUME phys_mem = KernelFrames, NEW n \in Nat, NUM_PAG_KERNEL + 2 * n <= TOTAL_PAGES,
         NEW fr \in [0 .. n - 1 -> FreeFrames], AllocFrames(n, fr), NEW k \in 0 .. n - 1
  PROVE  fr[k] = BootFrame(k)
<1> USE Constants
<1>1. \A f \in FreeFrames : f \in Int /\ f < TOTAL_PAGES /\ \E m \in Nat : f = BootFrame(m)
  <2> SUFFICES ASSUME NEW f \in FreeFrames PROVE f \in Int /\ f < TOTAL_PAGES /\ \E m \in Nat : f = BootFrame(m)
    OBVIOUS
  <2>1. f \in NUM_PAG_KERNEL .. TOTAL_PAGES - 1 /\ (f - NUM_PAG_KERNEL) % 2 = 0
    BY DEF FreeFrames, Allocatable
  <2>2. PICK x \in Nat : x = f - NUM_PAG_KERNEL /\ x % 2 = 0
    BY <2>1
  <2>3. x \div 2 \in Nat /\ x = 2 * (x \div 2)
    BY <2>2
  <2> QED
    BY <2>1, <2>2, <2>3 DEF BootFrame
<1>2. \A m \in Nat : BootFrame(m) \in Int /\ (BootFrame(m) < TOTAL_PAGES => BootFrame(m) \in FreeFrames)
  <2> SUFFICES ASSUME NEW m \in Nat, BootFrame(m) < TOTAL_PAGES PROVE BootFrame(m) \in FreeFrames
    BY DEF BootFrame
  <2>1. BootFrame(m) = NUM_PAG_KERNEL + 2 * m /\ (2 * m) % 2 = 0
    BY DEF BootFrame
  <2> QED
    BY <2>1 DEF FreeFrames, Allocatable, KernelFrames
<1>3. \A i, j \in Nat : BootFrame(i) < BootFrame(j) <=> i < j
  BY DEF BootFrame
<1>4. k \in Nat /\ fr[k] \in FreeFrames /\ \A i \in 0 .. k - 1 : i \in 0 .. n - 1
  OBVIOUS
<1>5. PICK m \in Nat : fr[k] = BootFrame(m)
  BY <1>1, <1>4
<1> DEFINE Before == {fr[i] : i \in 0 .. k - 1}
           f      == [i \in 0 .. k - 1 |-> fr[i]]
           g      == [i \in 0 .. m - 1 |-> BootFrame(i)]
<1>6. \A i, j \in 0 .. n - 1 : i < j => fr[i] < fr[j]
  BY DEF AllocFrames
<1>7. Cardinality(Before) = k
  <2>1. f \in [0 .. k - 1 -> Before] /\ \A t \in Before : \E i \in 0 .. k - 1 : f[i] = t
    OBVIOUS
  <2>2. \A i, j \in 0 .. k - 1 : f[i] = f[j] => i = j
    <3> SUFFICES ASSUME NEW i \in 0 .. k - 1, NEW j \in 0 .. k - 1, fr[i] = fr[j] PROVE i = j
      OBVIOUS
    <3>1. fr[i] \in Int /\ fr[j] \in Int
      BY <1>1, <1>4
    <3> QED
      BY <1>4, <1>6, <3>1
  <2> HIDE DEF f, Before
  <2> QED
    BY <1>4, <2>1, <2>2, ImageSize
<1>8. Cardinality(Before) = m
  <2>1. \A i \in 0 .. m - 1 : BootFrame(i) \in Before
    <3> SUFFICES ASSUME NEW i \in 0 .. m - 1 PROVE BootFrame(i) \in Before
      OBVIOUS
    <3>1. i \in Nat /\ BootFrame(i) < fr[k]
      BY <1>3, <1>5
    <3>2. BootFrame(i) \in FreeFrames
      BY <1>1, <1>2, <1>4, <3>1
    <3>3. \E j \in 0 .. k - 1 : fr[j] = BootFrame(i)
      BY <3>1, <3>2 DEF AllocFrames
    <3> QED
      BY <3>3
  <2>2. \A t \in Before : \E i \in 0 .. m - 1 : BootFrame(i) = t
    <3> SUFFICES ASSUME NEW j \in 0 .. k - 1 PROVE \E i \in 0 .. m - 1 : BootFrame(i) = fr[j]
      OBVIOUS
    <3>1. fr[j] < fr[k] /\ fr[j] \in FreeFrames
      BY <1>4, <1>6
    <3>2. PICK i \in Nat : fr[j] = BootFrame(i)
      BY <1>1, <3>1
    <3>3. i < m
      BY <1>3, <1>5, <3>1, <3>2
    <3> QED
      BY <3>2, <3>3
  <2>3. g \in [0 .. m - 1 -> Before] /\ \A i, j \in 0 .. m - 1 : g[i] = g[j] => i = j
    <3> HIDE DEF Before
    <3> QED
      BY <2>1 DEF BootFrame
  <2>4. \A t \in Before : \E i \in 0 .. m - 1 : g[i] = t
    <3> HIDE DEF Before
    <3> QED
      BY <2>2
  <2> HIDE DEF g, Before
  <2> QED
    BY <2>3, <2>4, ImageSize
<1> QED
  BY <1>5, <1>7, <1>8

LEMMA Task1Step == AtIdle /\ init_task1 => AtTask1' /\ TurnBegun'
<1> SUFFICES ASSUME AtIdle, init_task1 PROVE AtTask1'
  <2>1. init_task1 => qLeft' = DEFAULT_QUANTUM
    BY DEF init_task1
  <2> QED
    BY <2>1, Constants DEF TurnBegun
<1> USE Constants
<1>0. PICK d \in Dirs, fr \in [0 .. NUM_PAG_CODE + NUM_PAG_DATA - 1 -> FreeFrames] :
        /\ Initialised(1, d)
        /\ AllocFrames(NUM_PAG_CODE + NUM_PAG_DATA, fr)
        /\ phys_mem' = phys_mem \cup Range(fr)
        /\ tables' = [tables EXCEPT ![d] = [p \in OtherPages |->
             IF p \in CodePages THEN fr[p - NUM_PAG_KERNEL] ELSE tables[d][p]]]
        /\ PT' = [PT EXCEPT ![d] = [p \in DataPages |-> fr[NUM_PAG_CODE + p]]]
  BY Zenon DEF init_task1
<1>1. PICK n : n = NUM_PAG_CODE + NUM_PAG_DATA
  OBVIOUS
<1>2. n \in Nat /\ NUM_PAG_KERNEL + 2 * n <= TOTAL_PAGES
  BY <1>1
<1>3. d = 1
  <2>1. 1 \in Dirs /\ refs_DIR[1] = 0 /\ \A e \in Dirs : e < 1 => refs_DIR[e] # 0
    BY DEF AtIdle, Dirs, Tasks
  <2> QED
    BY <1>0, <2>1, FirstDirectory DEF Initialised
<1>4. FirstFree = init_task /\ (FreePCBs(NR_TASKS - 2))' /\ init_task \in Tasks /\ init_task # idle_task
  <2>1. NR_TASKS - 1 \in Nat \ {0} /\ NR_TASKS - 1 - 1 = NR_TASKS - 2
    OBVIOUS
  <2> QED
    BY <1>0, <2>1, TakeFromProper, SpecialTasks DEF Initialised, AtIdle, init_task
<1>5. phys_mem = KernelFrames
  BY DEF AtIdle, MemorySet
<1>6. \A k \in 0 .. n - 1 : fr[k] = BootFrame(k)
  BY <1>0, <1>1, <1>2, <1>5, FirstFrames
<1>7. MemoryInit'
  <2>1. phys_mem' = (0 .. NUM_PAG_KERNEL - 1) \cup {BootFrame(k) : k \in 0 .. n - 1}
    <3>1. Range(fr) = {BootFrame(k) : k \in 0 .. n - 1}
      BY <1>1, <1>6 DEF Range
    <3> QED
      BY <1>0, <1>5, <3>1 DEF KernelFrames
  <2>2. refs_DIR' = [e \in Dirs |-> IF e \in {0, 1} THEN 2 ELSE 0]
    <3>1. refs_DIR' = [refs_DIR EXCEPT ![1] = refs_DIR[1] + 2]
      BY <1>0, <1>3 DEF Initialised
    <3>2. refs_DIR = [e \in Dirs |-> IF e = 0 THEN 2 ELSE 0]
      BY DEF AtIdle
    <3>3. 1 \in Dirs /\ refs_DIR[1] + 2 = 2
      BY <3>2 DEF Dirs, Tasks
    <3> QED
      BY <3>1, <3>2, <3>3
  <2>3. n_directorio' = [t \in Tasks |-> IF t = init_task THEN 1 ELSE 0]
    BY <1>0, <1>3, <1>4 DEF Initialised, AtIdle, MemorySet
  <2>4. PT' = [e \in Dirs |-> [p \in DataPages |-> IF e = 1 THEN BootFrame(NUM_PAG_CODE + p) ELSE NoFrame]]
    <3>1. \A p \in DataPages : fr[NUM_PAG_CODE + p] = BootFrame(NUM_PAG_CODE + p)
      BY <1>1, <1>6 DEF DataPages
    <3>2. PT' = [PT EXCEPT ![1] = [p \in DataPages |-> BootFrame(NUM_PAG_CODE + p)]]
      BY <1>0, <1>3, <3>1
    <3> QED
      BY <3>2 DEF AtIdle, MemorySet
  <2> QED
    BY <1>1, <2>1, <2>2, <2>3, <2>4 DEF MemoryInit, BootFrame, Dirs, Tasks, init_task, DataPages, NoFrame
<1>8. tables' = [e \in Dirs |-> BootTable(e)]
  <2>1. \A p \in CodePages : fr[p - NUM_PAG_KERNEL] = BootFrame(p - NUM_PAG_KERNEL) /\ p \notin KernelPages
    BY <1>1, <1>6 DEF CodePages, DataPage, KernelPages
  <2>2. tables' = [tables EXCEPT ![1] = [p \in OtherPages |->
           IF p \in CodePages THEN BootFrame(p - NUM_PAG_KERNEL) ELSE tables[1][p]]]
    BY <1>0, <1>3, <2>1
  <2>3. tables = [e \in Dirs |-> [p \in OtherPages |-> IF p \in KernelPages THEN p ELSE NoFrame]]
    BY DEF AtIdle, MemorySet
  <2> QED
    BY <1>3, <2>1, <2>2, <2>3 DEF BootTable
<1>9. Untouched'
  <2>1. estado' = [t \in Tasks |-> "RUN"]
    BY <1>4 DEF AtIdle, Untouched, init_task1
  <2> QED
    BY <1>0, <2>1 DEF AtIdle, Untouched, Initialised, KeyboardInit, SemaphoresInit, kbVars, semVars, Tasks, Slots
<1>10. /\ PID' = [t \in Tasks |-> IF t = idle_task THEN 0 ELSE IF t = init_task THEN 1 ELSE -1]
       /\ quantum' = [t \in Tasks |-> IF t \in {idle_task, init_task} THEN DEFAULT_QUANTUM ELSE 0]
       /\ processBreak' = [t \in Tasks |-> IF t \in {idle_task, init_task} THEN HEAP_START ELSE 0]
  BY <1>0, <1>4 DEF Initialised, AtIdle
<1>11. tlb' = {}
  BY DEF init_task1
<1> QED
  BY <1>4, <1>7, <1>8, <1>9, <1>10, <1>11
     DEF AtTask1, Tasks, idle_task, init_task, Dirs, BootTable, OtherPages, KernelPages, CodePages,
         DataPage, DataPages, BootFrame, NoFrame, HEAP_START, HeapPage

\* A write leaves what some writes leave.
LEMMA KeyStored ==
  ASSUME KeyboardInit, keyboardBuff' = cirBuffWrite(keyboardBuff), UNCHANGED <<keyboardqueue, missingKeys>>
  PROVE  KeyboardInit'
<1>1. PICK b \in [writePos : 0 .. CIRBUFFER_SIZE - 1, readPos : {0}, full : BOOLEAN] : b = keyboardBuff
  BY DEF KeyboardInit
<1>2. PICK w : w = Wrapped(b.writePos + 1)
  OBVIOUS
<1>3. w \in 0 .. CIRBUFFER_SIZE - 1
  BY <1>2, Constants DEF Wrapped
<1>4. keyboardBuff' = IF b.full THEN b ELSE [b EXCEPT !.writePos = w, !.full = (w = b.readPos)]
  BY <1>1, <1>2 DEF cirBuffWrite
<1>5. CASE b.full
  BY <1>1, <1>4, <1>5 DEF KeyboardInit, Tasks
<1>6. CASE ~b.full
  <2> PICK f \in BOOLEAN : f <=> w = 0
    OBVIOUS
  <2>1. keyboardBuff' = [writePos |-> w, readPos |-> 0, full |-> f]
    BY <1>4, <1>6
  <2>2. keyboardBuff' \in [writePos : 0 .. CIRBUFFER_SIZE - 1, readPos : {0}, full : BOOLEAN]
    BY <1>3, <2>1
  <2>3. keyboardBuff'.full => keyboardBuff'.writePos = 0
    BY <2>1
  <2>4. keyboardqueue' = <<>> /\ missingKeys' = [t \in Tasks |-> -1]
    BY DEF KeyboardInit
  <2> QED
    BY <2>2, <2>3, <2>4 DEF KeyboardInit, Tasks
<1> QED
  BY <1>5, <1>6

\* Ticks and keys before return_gate leave it as main has made it.
LEMMA InterruptsStep ==
  ASSUME AtTask1, TurnBegun, enable_int \/ BootTick \/ BootKey
  PROVE  AtTask1' /\ TurnBegun'
<1>1. TurnBegun'
  BY Constants DEF enable_int, BootTick, BootKey, TurnBegun, TurnGoesOn, vars, schedVars
<1>2. UNCHANGED <<freequeue, freelinks, readyqueue, PID, estado, quantum, fault, incrementalPID>>
      /\ UNCHANGED <<keyboardqueue, missingKeys, semVars, memVars, spaceVars>>
  BY DEF enable_int, BootTick, BootKey, vars, schedVars, kbVars
<1>3. KeyboardInit'
  <2>1. KeyboardInit
    BY DEF AtTask1, Untouched
  <2>2. keyboardBuff' = keyboardBuff \/ keyboardBuff' = cirBuffWrite(keyboardBuff)
    BY DEF enable_int, BootTick, BootKey, vars, kbVars
  <2>3. CASE keyboardBuff' = keyboardBuff
    BY <1>2, <2>1, <2>3 DEF KeyboardInit, Tasks
  <2> QED
    BY <1>2, <2>1, <2>2, <2>3, KeyStored
<1>4. AtTask1'
  BY <1>2, <1>3 DEF AtTask1, Untouched, MemoryInit, FreePCBs, SemaphoresInit, semVars, memVars,
                    spaceVars, BootTable
<1> QED
  BY <1>1, <1>4

\* The last step enters user mode on init's stack.
LEMMA GateStep == AtTask1 /\ TurnBegun /\ return_gate => SpaceInit'
<1> SUFFICES ASSUME AtTask1, TurnBegun, return_gate PROVE SpaceInit'
  OBVIOUS
<1>1. /\ fault' = "none"
      /\ UNCHANGED <<freequeue, freelinks, readyqueue, PID, estado, quantum, qLeft, incrementalPID>>
      /\ UNCHANGED <<kbVars, semVars, memVars, spaceVars>>
  BY DEF return_gate
<1>2. current' = init_task
  <2>1. \A t \in Tasks : PID[t] = 1 => t = init_task
    BY DEF AtTask1
  <2> QED
    BY <2>1 DEF return_gate
<1>3. SchedInit'
  BY <1>1, <1>2 DEF AtTask1, Untouched, FreePCBs, SchedInit, FreeListInit, BootFreeQueue, Tasks, idle_task, init_task
<1>4. KeyboardInit' /\ SemaphoresInit' /\ MemoryInit' /\ incrementalPID' = 2 /\ TurnBegun'
  BY <1>1 DEF AtTask1, Untouched, KeyboardInit, SemaphoresInit, MemoryInit, kbVars, semVars, memVars, TurnBegun
<1>5. /\ tables' = [d \in Dirs |-> BootTable(d)] /\ tlb' = {}
      /\ processBreak' = [t \in Tasks |-> IF t \in {idle_task, init_task} THEN HEAP_START ELSE 0]
  BY <1>1 DEF AtTask1, spaceVars
<1> QED
  BY <1>3, <1>4, <1>5 DEF SpaceInit, Init, TurnBegun, BootTable

LEMMA BootStep == BootInd /\ [BootNext]_bootVars => BootInd'
<1> SUFFICES ASSUME BootInd, [BootNext]_bootVars PROVE BootInd'
  OBVIOUS
<1>1. CASE init_mm
  <2>1. stage = "setTSS" /\ stage' = "init_mm"
    BY <1>1 DEF init_mm, MainGoes
  <2> QED
    BY <1>1, <2>1, MMStep DEF BootInd
<1>2. CASE init_sched
  <2>1. stage = "init_mm" /\ stage' = "init_sched"
    BY <1>2 DEF init_sched, MainGoes
  <2> QED
    BY <1>2, <2>1, SchedMainStep DEF BootInd
<1>3. CASE init_idle
  <2>1. stage = "init_sched" /\ stage' = "init_idle"
    BY <1>3 DEF init_idle, MainGoes
  <2> QED
    BY <1>3, <2>1, IdleStep DEF BootInd
<1>4. CASE init_task1
  <2>1. stage = "init_idle" /\ stage' = "init_task1"
    BY <1>4 DEF init_task1, MainGoes
  <2> QED
    BY <1>4, <2>1, Task1Step DEF BootInd
<1>5. CASE enable_int \/ BootTick \/ BootKey
  <2>1. stage \in {"init_task1", "enable_int"} /\ stage' = "enable_int"
    BY <1>5 DEF enable_int, BootTick, BootKey, MainGoes
  <2> QED
    BY <1>5, <2>1, InterruptsStep DEF BootInd
<1>6. CASE return_gate
  <2>1. stage = "enable_int" /\ stage' = "return_gate"
    BY <1>6 DEF return_gate, MainGoes
  <2> QED
    BY <1>6, <2>1, GateStep DEF BootInd
<1>7. CASE Running
  <2>1. stage \in {"return_gate", "running"} /\ stage' = "running"
    BY <1>7 DEF Running
  <2>2. SpaceInd
    BY <2>1, SpaceIndInit DEF BootInd
  <2> QED
    BY <1>7, <2>1, <2>2, SpaceIndStep DEF BootInd, Running
<1>8. CASE UNCHANGED bootVars
  <2>1. UNCHANGED <<stage, vars, spaceVars>>
    BY <1>8 DEF bootVars
  <2>2. UNCHANGED <<freequeue, freelinks, readyqueue, PID, estado, quantum, current, qLeft, fault>>
        /\ UNCHANGED <<keyboardqueue, missingKeys, keyboardBuff, semaphores, blockedQueue, sem_ret>>
        /\ UNCHANGED <<phys_mem, refs_DIR, n_directorio, PT, incrementalPID, tables, tlb, processBreak>>
    BY <2>1 DEF vars, schedVars, kbVars, semVars, memVars, spaceVars
  <2>3. UNCHANGED <<Untouched, NoTask, MemorySet, AtLoaded, AtMM, TurnBegun>>
    BY <2>2 DEF Untouched, NoTask, MemorySet, AtLoaded, AtMM, TurnBegun, KeyboardInit, SemaphoresInit
  <2>4. UNCHANGED <<AtSched, AtIdle, AtTask1, SpaceInit>>
    BY <2>1, <2>2, <2>3 DEF AtSched, AtIdle, AtTask1, FreePCBs, MemoryInit, SpaceInit, Init,
         SchedInit, FreeListInit, KeyboardInit, SemaphoresInit
  <2>5. SpaceInd => SpaceInd'
    BY <2>1, SpaceIndStep
  <2> QED
    BY <2>1, <2>2, <2>3, <2>4, <2>5 DEF BootInd
<1> QED
  BY <1>1, <1>2, <1>3, <1>4, <1>5, <1>6, <1>7, <1>8 DEF BootNext, Main

LEMMA BootInvariant == BootSpec => []BootInd
  BY LoadedIsLoaded, BootStep, PTL DEF BootSpec

\* Before the kernel runs fault is "boot".
LEMMA RunsAfterBoot ==
  ASSUME BootInd
  PROVE  KernelRuns => SpaceInd
  BY SpaceIndInit DEF BootInd, AtLoaded, AtMM, AtSched, AtIdle, AtTask1, Untouched, KernelRuns

-----------------------------------------------------------------------------
\* main leaves behind the state every other module starts from, whatever ticks
\* and keys come between enable_int and return_gate.
THEOREM BootEstablishes == BootSpec => []BootEstablishesInit
<1>1. BootInd => BootEstablishesInit
  BY DEF BootInd, BootEstablishesInit
<1> QED
  BY <1>1, BootInvariant, PTL

\* Every process, however it came about, maps the kernel and init's code where
\* init did, and nothing else but its data.
THEOREM TablesStayInPlace == BootSpec => []TablesInPlace
<1>1. BootInd => TablesInPlace
  BY RunsAfterBoot, SpaceIndImplies DEF TablesInPlace
<1> QED
  BY <1>1, BootInvariant, PTL

\* cr3 is loaded whenever the processor could hold a translation that is not
\* the running process's.
THEOREM NoStaleTranslation == BootSpec => []TLBCoherent
<1>1. BootInd => TLBCoherent
  BY RunsAfterBoot, SpaceIndImplies DEF TLBCoherent
<1> QED
  BY <1>1, BootInvariant, PTL

\* No sum of increments takes a break out of the heap.
THEOREM BreaksInHeap == BootSpec => []BreakInRange
<1>1. BootInd => BreakInRange
  BY RunsAfterBoot, SpaceIndImplies DEF BreakInRange
<1> QED
  BY <1>1, BootInvariant, PTL

=============================================================================
