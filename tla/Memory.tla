------------------------------- MODULE Memory -------------------------------
(***************************************************************************)
(* mm.c and allocate_DIR: the physical frames, the page directories with   *)
(* their reference counts, and the data pages each directory maps.  The    *)
(* kernel and code pages are the same in every directory and are left out, *)
(* and so is what the pages hold.  The code deletes fork's temporary       *)
(* mapping in the parent's heap pages before it returns.                   *)
(***************************************************************************)
EXTENDS Sched

CONSTANTS
  NUM_PAG_KERNEL, NUM_PAG_CODE, NUM_PAG_DATA, TOTAL_PAGES   \* mm_address.h:6-12

\* The image of the init process fits (set_user_pages does not check).
ASSUME MemoryAssumption ==
  /\ NUM_PAG_KERNEL \in Nat \ {0} /\ NUM_PAG_CODE \in Nat \ {0}
  /\ NUM_PAG_DATA \in Nat \ {0} /\ TOTAL_PAGES \in Nat
  /\ NUM_PAG_KERNEL + 2 * (NUM_PAG_CODE + NUM_PAG_DATA) <= TOTAL_PAGES

Dirs      == Tasks                     \* dir_pages[NR_TASKS]
DataPages == 0 .. NUM_PAG_DATA - 1     \* from PAG_LOG_INIT_DATA on
Frames    == 0 .. TOTAL_PAGES - 1
NoFrame   == 0                         \* a cleared page table entry

\* alloc_frame looks at every other frame only: the holes are intended.
Allocatable == {f \in NUM_PAG_KERNEL .. TOTAL_PAGES - 1 : (f - NUM_PAG_KERNEL) % 2 = 0}

VARIABLES
  phys_mem,       \* the frames marked USED_FRAME
  refs_DIR,       \* references to each directory
  n_directorio,   \* task_struct.n_directorio
  PT              \* the frame each directory maps a data page to

memVars == <<phys_mem, refs_DIR, n_directorio, PT>>

\* set_user_pages takes the first allocatable frames, code before data.
BootFrame(k) == NUM_PAG_KERNEL + 2 * k

\* init_idle and init_task1 count one reference more than allocate_DIR did.
MemoryInit ==
  /\ phys_mem = (0 .. NUM_PAG_KERNEL - 1)
                  \cup {BootFrame(k) : k \in 0 .. NUM_PAG_CODE + NUM_PAG_DATA - 1}
  /\ refs_DIR = [d \in Dirs |-> IF d \in {0, 1} THEN 2 ELSE 0]
  /\ n_directorio = [t \in Tasks |-> IF t = init_task THEN 1 ELSE 0]
  /\ PT = [d \in Dirs |-> [p \in DataPages |-> IF d = 1 THEN BootFrame(NUM_PAG_CODE + p) ELSE NoFrame]]

FreeFrames == Allocatable \ phys_mem

\* n calls of alloc_frame return fr[0], ..., fr[n-1]: the n lowest free ones.
AllocFrames(n, fr) ==
  /\ \A i, j \in 0 .. n - 1 : i < j => fr[i] < fr[j]
  /\ \A f \in FreeFrames, i \in 0 .. n - 1 : f < fr[i] => \E j \in 0 .. i - 1 : fr[j] = f

\* Variant: nothing is marked free.
free_frames_None(used, fs) == used

\* What free_frame makes of a frame: frames up to NUM_PAG_KERNEL stay used.
free_frames(used, fs) == used \ {f \in fs : f > NUM_PAG_KERNEL /\ f < TOTAL_PAGES}

\* allocate_DIR takes d: the first directory without references.
allocate_DIR(d) == refs_DIR[d] = 0 /\ \A e \in Dirs : e < d => refs_DIR[e] # 0
NoDIR           == \A d \in Dirs : refs_DIR[d] # 0

\* fork's part, for the PCB new: directory, frames, mappings.
ForkMemory(new) ==
  \E d \in Dirs, fr \in [DataPages -> FreeFrames] :
    /\ allocate_DIR(d)
    /\ AllocFrames(NUM_PAG_DATA, fr)
    /\ refs_DIR' = [refs_DIR EXCEPT ![d] = @ + 1]
    /\ n_directorio' = [n_directorio EXCEPT ![new] = d]
    /\ phys_mem' = phys_mem \cup {fr[p] : p \in DataPages}
    /\ PT' = [PT EXCEPT ![d] = fr]

\* Variant: the revert loop stops before the first frame.
RevertedFrames_FirstKept(fs) == phys_mem \cup {f \in fs : \A g \in fs : f <= g}

\* phys_mem after fs were allocated and the revert loop freed them.
RevertedFrames(fs) == free_frames(phys_mem \cup fs, fs)

\* The two ways fork fails: without a directory the PCB keeps its parent's;
\* without frames the ones it got are freed, the directory and what was
\* mapped in it are not given back.
ForkWithoutDIR(new) ==
  /\ NoDIR
  /\ n_directorio' = [n_directorio EXCEPT ![new] = n_directorio[current]]
  /\ UNCHANGED <<phys_mem, refs_DIR, PT>>

ForkWithoutFrames(new) ==
  \E d \in Dirs, n \in 0 .. NUM_PAG_DATA - 1 :
    /\ allocate_DIR(d)
    /\ n = Cardinality(FreeFrames)
    /\ refs_DIR' = [refs_DIR EXCEPT ![d] = @ + 1]
    /\ n_directorio' = [n_directorio EXCEPT ![new] = d]
    /\ phys_mem' = RevertedFrames(FreeFrames)
    /\ \E fr \in [0 .. n - 1 -> FreeFrames] :
         /\ AllocFrames(n, fr)
         /\ PT' = [PT EXCEPT ![d] = [p \in DataPages |-> IF p < n THEN fr[p] ELSE PT[d][p]]]

\* Variant: the thread is not counted.
CloneMemory_NotCounted(new) ==
  /\ n_directorio' = [n_directorio EXCEPT ![new] = n_directorio[current]]
  /\ UNCHANGED <<phys_mem, refs_DIR, PT>>

\* clone's part: the thread shares its creator's directory.
CloneMemory(new) ==
  /\ refs_DIR' = [refs_DIR EXCEPT ![n_directorio[current]] = @ + 1]
  /\ n_directorio' = [n_directorio EXCEPT ![new] = n_directorio[current]]
  /\ UNCHANGED <<phys_mem, PT>>

\* Variants: the directory goes with whoever exits; the count is looked at
\* before it is taken down.
LastOut_Anybody == TRUE
LastOut_OldCount == refs_DIR[n_directorio[current]] = 0

\* exit's part: the last one out frees the data frames.
LastOut == refs_DIR[n_directorio[current]] - 1 = 0

ExitMemory ==
  LET d == n_directorio[current]
  IN  /\ refs_DIR' = [refs_DIR EXCEPT ![d] = @ - 1]
      /\ \/ /\ LastOut
            /\ phys_mem' = free_frames(phys_mem, {PT[d][p] : p \in DataPages})
            /\ PT' = [PT EXCEPT ![d] = [p \in DataPages |-> NoFrame]]
         \/ /\ ~LastOut
            /\ UNCHANGED <<phys_mem, PT>>
      /\ UNCHANGED n_directorio

MemoryTypeOK ==
  /\ phys_mem \subseteq Frames
  /\ refs_DIR \in [Dirs -> Int]
  /\ n_directorio \in [Tasks -> Dirs]
  /\ PT \in [Dirs -> [DataPages -> Frames]]

=============================================================================
