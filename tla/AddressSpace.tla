---------------------------- MODULE AddressSpace ----------------------------
(***************************************************************************)
(* The whole page tables of the kernel's processes, the translation buffer *)
(* (TLB) of the processor in front of them, and the program break: what    *)
(* fork and exit do to pages other than the data pages of module Memory,   *)
(* and sbrk.                                                               *)
(***************************************************************************)
EXTENDS KernelProperties

CONSTANTS
  PAGE_SIZE,
  Word,     \* processBreak is an unsigned long: arithmetic modulo Word
  Incrs     \* the increments passed to sbrk

ASSUME AddressSpaceAssumption ==
  /\ PAGE_SIZE \in Nat \ {0} /\ Word \in Nat /\ Incrs \subseteq Int
  /\ (TOTAL_PAGES + 1) * PAGE_SIZE <= Word

DataPage(i) == NUM_PAG_KERNEL + NUM_PAG_CODE + i
HeapPage(i) == DataPage(NUM_PAG_DATA) + i
HEAP_START  == HeapPage(0) * PAGE_SIZE

KernelPages == 1 .. NUM_PAG_KERNEL - 1       \* page 0 is nobody's
CodePages   == NUM_PAG_KERNEL .. DataPage(0) - 1
OtherPages  == (0 .. TOTAL_PAGES - 1) \ {DataPage(i) : i \in DataPages}

VARIABLES
  tables,         \* the frame each directory maps a page to, data pages aside
  tlb,            \* <<page, frame>> pairs the processor may have cached
  processBreak

spaceVars == <<tables, tlb, processBreak>>

BootTable(d) ==
  [p \in OtherPages |->
     IF p \in KernelPages THEN p
     ELSE IF p \in CodePages /\ d = 1 THEN BootFrame(p - NUM_PAG_KERNEL) ELSE NoFrame]

SpaceInit ==
  /\ Init
  /\ tables = [d \in Dirs |-> BootTable(d)]
  /\ tlb = {}
  /\ processBreak = [t \in Tasks |-> IF t \in {idle_task, init_task} THEN HEAP_START ELSE 0]

\* What the current table says of a page.
Translation(p) ==
  LET d == n_directorio[current]
  IN  IF p \in OtherPages THEN tables[d][p] ELSE PT[d][p - DataPage(0)]

-----------------------------------------------------------------------------
(* The processor, and the steps of the kernel.                             *)

\* A process touches one of its data pages.
Touch(i) ==
  /\ InUserProcess
  /\ tlb' = tlb \cup {<<DataPage(i), Translation(DataPage(i))>>}
  /\ UNCHANGED <<vars, tables, processBreak>>

\* task_switch loads cr3, also when the directory stays the same.
Reloaded == IF current' # current THEN {} ELSE tlb

\* Variants: the code pages are not copied; the parent keeps the mapping
\* through which it copied.
Inherited_NoCode == 1 .. NUM_PAG_KERNEL - 1
Unmapped_None    == {}

\* The entries fork copies, one more than the kernel has; and the parent's
\* heap pages through which it fills the child's data pages.
Inherited == (1 .. NUM_PAG_KERNEL) \cup CodePages
Scratch   == {HeapPage(i) : i \in DataPages}
Unmapped  == Scratch

\* The parent's table when fork returns, and the child's.
ForkTables(d) ==
  LET p == n_directorio[current]
  IN  tables' = [tables EXCEPT
        ![d] = [q \in OtherPages |-> IF q \in Inherited THEN tables[p][q] ELSE tables[d][q]],
        ![p] = [q \in OtherPages |->
                  CASE q \in Unmapped -> NoFrame
                    [] q \in Scratch \ Unmapped -> PT'[d][q - HeapPage(0)]
                    [] OTHER -> tables[p][q]]]

\* The translations fork leaves for the scratch pages it wrote to.
ForkCached(d) ==
  {<<HeapPage(i), PT'[d][i]>> : i \in {j \in DataPages : j < Cardinality(FreeFrames)}}

\* Variant: fork ends without loading cr3.
ForkEnds_NoFlush(d) == tlb' = tlb \cup ForkCached(d)

\* A fork that runs out of frames returns from the loop, before set_cr3.
ForkEnds(d) ==
  \/ incrementalPID' # incrementalPID /\ tlb' = {}
  \/ incrementalPID' = incrementalPID /\ tlb' = tlb \cup ForkCached(d)

Fork ==
  /\ sys_fork
  /\ \/ /\ fault' = "pagefault"
        /\ UNCHANGED spaceVars
     \/ /\ fault' # "pagefault"
        /\ processBreak' = [processBreak EXCEPT ![FirstFree] = processBreak[current]]
        /\ \/ NoDIR /\ UNCHANGED <<tables, tlb>>
           \/ /\ ~NoDIR
              /\ LET d == n_directorio'[FirstFree] IN ForkTables(d) /\ ForkEnds(d)

Clone ==
  /\ sys_clone
  /\ processBreak' = IF fault' = "pagefault" THEN processBreak
                     ELSE [processBreak EXCEPT ![FirstFree] = processBreak[current]]
  /\ UNCHANGED <<tables, tlb>>

OtherStep ==
  /\ SchedStep \/ NiceStep \/ SemaphoreStep \/ sys_exit
  /\ tlb' = Reloaded
  /\ UNCHANGED <<tables, processBreak>>

-----------------------------------------------------------------------------
(* sbrk.  Its loops act on present pages only and free frame 0 for the     *)
(* others, which free_frame ignores.  No heap page is ever present         *)
(* (TablesInPlace), so that only the break moves.                          *)

\* Variant: a sum below the heap is not taken up to its start.
NewBreak_NotClamped(b, incr) == (b + incr) % Word

\* The sum is unsigned: below zero it is a number beyond the table.
NewBreak(b, incr) ==
  LET sum == (b + incr) % Word
  IN  IF sum < HEAP_START THEN HEAP_START ELSE sum

\* The page after the last one still passes the test.
sys_sbrk(incr) ==
  LET old == processBreak[current]
      new == NewBreak(old, incr)
  IN  /\ InUserProcess
      /\ new \div PAGE_SIZE <= TOTAL_PAGES
      /\ processBreak' = [processBreak EXCEPT ![current] = new]
      /\ tlb' = IF new < old THEN {} ELSE tlb
      /\ UNCHANGED <<vars, tables>>

SpaceNext ==
  \/ Fork \/ Clone \/ OtherStep
  \/ \E i \in DataPages : Touch(i)
  \/ \E incr \in Incrs : sys_sbrk(incr)

SpaceSpec == SpaceInit /\ [][SpaceNext]_<<vars, spaceVars>>

-----------------------------------------------------------------------------
\* No copy has been left without a process: a fork that runs out of frames
\* half-way returns before set_cr3, its translations still there.
NoForkAbandoned == \A t \in Tasks : PID[t] # -1 => t \in Procs

\* No translation the processor may hold contradicts the tables of the running
\* process: deleting fork's scratch mappings, exits, directories taken again
\* and switches between threads are all followed by a load of cr3 in time.
TLBCoherent ==
  KernelRuns /\ NoForkAbandoned => \A e \in tlb : Translation(e[1]) = e[2]

\* Every process sees the kernel at its place, the code init was loaded with,
\* nothing at page 0, and nothing in the heap, through every order of forks,
\* clones, exits and directories taken again: fork's copy of the table is
\* whole, and its scratch mappings are gone.
TablesInPlace ==
  KernelRuns => \A t \in Procs \ {idle_task} : tables[n_directorio[t]] = BootTable(1)

\* Whatever increments are passed, the break of a process stays between the
\* start of the heap and the end of the page after the table.
BreakInRange ==
  KernelRuns => \A t \in Procs :
    HEAP_START <= processBreak[t] /\ processBreak[t] < (TOTAL_PAGES + 1) * PAGE_SIZE

\* What the documentation says of sbrk: the memory below the break is the
\* process's.  The code looks for pages that are there already.
HeapMapped ==
  KernelRuns => \A t \in Procs \ {idle_task}, p \in OtherPages :
    p >= HeapPage(0) /\ p * PAGE_SIZE < processBreak[t] => tables[n_directorio[t]][p] # NoFrame

=============================================================================
