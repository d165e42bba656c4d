# ZeOS in TLA+

Specifications of the ZeOS kernel of this repository (the teaching kernel of the
SO2 course, extended with processes, round-robin scheduling, threads,
semaphores, a keyboard read and a heap). The modules are checked with TLC on
small machines and, where stated, proved with TLAPS for machines of any size.

Line numbers refer to the files in `src/`.

## 1. The system

ZeOS is a monolithic kernel for one CPU. User code runs with interrupts
enabled; every entry to the kernel (system call through `int 0x80` or
`sysenter`, clock, keyboard) runs with interrupts off until it returns or
switches stacks. So **a handler is atomic up to the next context switch**, and
what interleaves is handlers: which interrupt or system call comes next, and for
which process. A process that blocks, blocks *inside* a handler; the second half
of that handler runs when it gets the CPU back.

### Components

| component | state | operations | correct when |
|---|---|---|---|
| Linked lists (`list.c`) | `next`, `prev` of list nodes | `list_add`, `list_add_tail`, `list_del`, `list_first`, `list_empty` | every queue is a ring through its head; a node is in one ring |
| Free PCB list (`sched.c:198`, `sys.c:58,140,171`) | `freequeue` | take the first, put one back | offers only PCBs of no process |
| Scheduler (`sched.c`) | `readyqueue`, `task[].PID/estado/quantum`, `qLeft`, the current stack | `schedule`, `needs_sched_rr`, `update_process_state_rr`, `sched_next_rr`, `exitRunCurrent`, `get_quantum`, `set_quantum` | FIFO, bounded turns, nobody starves, idle runs only when nobody else can |
| Interrupts (`interrupt.c`, `entry.S`) | | `clock_rutine`, `keyboard_rutine` | the turn advances; a reader is woken when its keys are there |
| Keyboard read (`devices.c`) | `keyboardqueue`, `requiredKeys`, `readKeys` | `sys_read_keyboard` | every reader gets its keys, first come first served |
| Circular buffer (`cirBuffer.c`) | `writePos`, `readPos`, `full` | write, read, length | a bounded FIFO |
| Semaphores (`sys.c:197-264`) | `semaphores[20]`, `sem_ret` | init, destroy, signal, wait | units and waiters exclude each other; waits are answered rightly; the owner's end releases the waiters |
| Processes (`sys.c:56,131,169`) | all of the above, `incrementalPID` | `sys_fork`, `sys_clone`, `sys_exit` | PIDs unique; a process that cannot be made leaves nothing behind |
| Memory (`mm.c`, `sched.c:46`) | `phys_mem[]`, `refs_DIR[]`, `dir_pages`, `n_directorio` | `alloc_frame`, `free_frame`, `allocate_DIR`, `set_ss_pag`, `del_ss_pag` | isolation; frames in use are those mapped; counts equal users |
| Heap (`sys.c:266`) | `processBreak`, heap mappings | `sys_sbrk` | the break stays in the heap; the tables are what boot and fork made them |
| Page tables in use (`mm.c:228-258`, `sys.c:66-91`) | directories, translations cached by the processor | `set_ss_pag`, `del_ss_pag`, `set_cr3`, fork's scratch mappings | no stale translation is used |
| Statistics (`sched.c`, `entry.S`, `sys.c:155`) | `estadisticas` | entry/leave hooks, switches, `sys_get_stats` | no tick is billed twice; user time is exact |
| User memory (`utils.c`, `sys.c:37,109,148-170`) | none of their own | `access_ok`, `check_fd`, `copy_data` and its copies, the pieces of `sys_write` | the user's own pages are accepted; the kernel's are never written; every byte is copied once |
| System call path (`wrappers.S`, `entry.S`, `sys_call_table.S`, `libc.c`) | registers, both stacks, `errno` | wrappers, `int 0x80`, `sysenter`, table, error convention | the caller's registers survive; the routine asked for is called with its arguments; `errno` tells the failure |
| Console (`io.c`, `sys_write_console`) | cursor `x`, `y`, screen | `printc`, `printc_xy`, `printk` | text stays where it was written, whatever keys are echoed |
| Boot (`system.c`, `mm.c`, `sched.c`, `hardware.c`) | everything | `main` | leads to the state the others start from |
| User program (`user.c`), boot sector, image builder | | | see section 8 |
| `libzeos.a`, `libauxjp.a` | external binaries | page fault handler, `sys_nice` | modelled only as the code in `src/` uses them |

### How they interact

Everything meets in the PCB (`union task_union`): its `list` field hangs it in
exactly one of `freequeue`, `readyqueue`, `keyboardqueue` or a semaphore's
`blockedQueue`, `estado` repeats which kind, `PID == -1` says it is free, and
`n_directorio` leads to memory that threads share. `update_process_state_rr`
decides from `estado` alone whether to unlink, so a state out of step with the
queues corrupts lists. `sys_exit` alone touches lists, semaphores, memory and
scheduler in one handler. The clock and keyboard handlers append to
`readyqueue` behind the back of whatever process is running.

### What is hard

* **Sequences of calls.** `sys_exit` puts its PCB into `freequeue` twice
  (`sys.c:140` and, through `update_process_state_rr`, `sys.c:144`). Nothing
  shows until a later allocation empties the list; then the head keeps pointing
  at a PCB in use.
* **Partial failure.** `sys_fork` takes and overwrites the PCB before it knows
  whether there is a directory or frames.
* **Two-part handlers.** `sem_wait` reads its answer after the switch back; a
  reader goes on in its loop when woken.
* **Counts that decide.** `refs_DIR` decides whether an exit frees the frames
  that a thread may still use.
* **Stale copies.** `fork` fills the child's pages through mappings in its own
  heap: the processor may keep their translations after they are deleted.
  The stack of the next entry is kept in the TSS and in a register. `errno` is
  read after another thread may have written it.
* **Agreement word by word.** Wrappers, the two handlers, the C frames of the
  routines and the stacks `fork` and `clone` make up have to fit.
* **Interrupts where they are not expected.** `cpu_idle` prints with interrupts
  enabled while the keyboard handler moves the same cursor; interrupts are on
  before `main` has left its stack.
* **Hooks.** Every way into and out of the kernel has its own place where ticks are
  billed, or none.
* **Boot order.** `init_mm` takes a directory that `init_sched` then forgets.
* **Liveness.** The end of a turn is found by `qLeft == 0` at a tick while
  somebody waits.

`PROJECT.json` lists each of these hazards at its line, with the properties
that would fail if it went wrong.

## 2. Modules

```
FreeList <-- Sched <-- Interrupts <-- Semaphores --+
               |       (+ CirBuffer)               +--> Kernel --> KernelProperties --> MCKernel
               +------ Memory ---------------------+       |             |
                                                           |             +--> AddressSpace --> Boot --> MCBoot
                                                           |                                    |
                                                           +--> KernelProofs                    +--> BootProofs
                                                                  --> ProcessProofs -----------^
Kernel (in KernelProperties)  ==implements==>  CountingSemaphores
KList <-- PCBLists  ==implements==>  PCBQueues --> FreeList
               PCBLists --> PCBListsProofs

CirBuffer <-- KeyBuffer  ==implements==>  BoundedQueue        Stats --> StatsProofs
              KeyBuffer <-- Console --> MCConsole, ConsoleProofs
                                                      SysCalls --> MCSysCalls, SysCallsProofs
UserMemory, CopyData <-- UserCopies --> MCUserCopies, UserCopiesProofs
```

Four groups, which share code but no variables: the kernel's processes
(`Kernel` and what builds on it), the time billed to them (`Stats`), the path of
a call (`SysCalls`, `UserCopies`), and the devices (`Console`, `KeyBuffer`). What
one group leaves out of a handler another one has: `Kernel` has the semaphore
calls but not how their parameters come through the registers, `SysCalls` the
registers but not the semaphores.

| module | models | notes |
|---|---|---|
| `KList` | `list.c` on a heap of `next`/`prev` pointers, null dereference as a `fault` flag | stores in the order of the code |
| `PCBLists` | the handlers' list operations with those pointers | implements `PCBQueues` |
| `PCBQueues` | the same handlers on sequences | abstract specification |
| `PCBListsProofs` | TLAPS proofs that the pointers form rings and that `PCBLists` implements `PCBQueues` | |
| `FreeList` | `freequeue` as a sequence, plus `freelinks`, the shape its links have after a double insertion | used by `PCBQueues` and by `Sched`, so what `PCBLists` shows of it carries over to the kernel model |
| `Sched` | PCB fields, ready queue, turns, `sched_next_rr` | parts of handlers, used by the next three |
| `CirBuffer` | `cirBuffer.c` | pure operators |
| `Interrupts` | clock, keyboard interrupt, `sys_read_keyboard` | |
| `Semaphores` | the semaphore calls | |
| `CountingSemaphores` | semaphores by name, with units, waiters and a process for an owner | abstract specification; `Kernel` implements it |
| `Memory` | frames, directories, data mappings | memory parts of fork, clone, exit |
| `Kernel` | the composition: `Init`, `sys_fork`, `sys_clone`, `sys_exit`, `Next`, `Spec`, `FairSpec`, `TypeOK` | one action per handler |
| `KernelProperties` | all properties of `Kernel` | |
| `MCKernel` | model for TLC (constants are all in the `.cfg` files) | |
| `KernelProofs` | TLAPS proofs of the types and of `QueueInv` | |
| `ProcessProofs` | what each step does to the set of processes; PIDs, semaphores, waits, readers, turns, order of the ready queue; directories, frames, failed forks | |
| `BootProofs` | the stages of `main`; tables, translations and breaks from then on | |
| `AddressSpace` | the whole page tables, the translation buffer, `sbrk` | extends the steps of `Kernel`: `Fork`, `Clone`, `OtherStep`, and `Touch`, a process using a page |
| `Boot` | `main` from `init_mm` to user mode, then `AddressSpace` | |
| `Stats`, `StatsProofs` | the tick counters, and the proof that none is billed twice | the scheduler reduced to where each process is |
| `SysCalls` | wrappers, both entries, table, stacks, `errno`, `perror` | three steps to a call: to the trap, the kernel, from the trap |
| `UserMemory` | `access_ok`, `check_fd`, the checks of four calls | addresses modulo `Word` |
| `CopyData` | the copy loops | one step per turn of a loop |
| `UserCopies` | the checks and the copies of `get_stats` and `write` in one memory | |
| `UserCopiesProofs` | TLAPS proofs about the three | |
| `SysCallsProofs` | TLAPS proofs about `SysCalls` | |
| `KeyBuffer` | `CirBuffer` with the characters | implements `BoundedQueue` for a lap |
| `BoundedQueue` | a bounded FIFO that drops keys when full | abstract specification |
| `Console` | cursor, screen, echo, the idle task's interruptible print | |
| `ConsoleProofs` | the text in its place, the key buffer's first lap | |
| `MCBoot`, `MCConsole`, `MCSysCalls`, `MCUserCopies` | values a `.cfg` file cannot write | |

Definitions ending in `_Something` with a comment that begins *Variant* (such as
`free_frames_None`) are deliberate mistakes used to make sure that the
properties notice them. No specification uses them.

### Correspondence with the code

* **A PCB** is its index in `task[]`. `idle_task` is `NR_TASKS-1` and `init_task`
  `NR_TASKS-2`, because `init_sched` pushes at the front of `freequeue`.
* **A queue** is the sequence a walk from its head meets. For `readyqueue`,
  `keyboardqueue` and `blockedQueue` this is exact as long as `QueueInv` holds.
  `freequeue` stops being a ring at the first exit: `freelinks` records which of
  five link shapes it has, and `PCBLists => PCBQueues` shows that the pointers
  behave like that (walks, insertions and deletions included).
* **`current`** is the PCB whose kernel stack is in use.
* **`missingKeys[t]`** is `requiredKeys - readKeys` while `t` sleeps in
  `sys_read_keyboard`, and -1 otherwise. When such a process is given the CPU,
  `Dispatch` performs the rest of its handler in the same step, as the code does.
* **Faults.** `fault` says why the machine stopped, or why the model does:
  `pagefault` (the kernel touched page 0, which is never mapped, and the page
  fault handler loops with interrupts off), `reused` (a fork or clone overwrote
  the PCB of a live process), `corrupt` (`sys_exit` wrote through a stale
  `freequeue` head into another queue), `oob` (`semaphores[-1]` was written).
  In `Boot` it starts as `boot`: nothing enters the kernel yet.
  After a fault nothing happens in the model, so every passing property speaks
  of runs up to the first fault.
* **Errors** that change nothing (`EBADF`, `EINVAL`, `EPERM`, `EBUSY`, `ENOMEM`
  with an empty `freequeue`) are no steps.
* **Memory.** `Memory` has the data pages; `AddressSpace` adds the kernel's, the
  code's and the heap's. Page contents are left out. `free_frame` never frees frames up to and including
  `NUM_PAG_KERNEL`, `alloc_frame` looks at every other frame: both as in the code.

* **The translation buffer** may hold any translation that was used since `cr3` was
  last loaded: data pages a process touched (`Touch`) and the scratch pages of
  `fork`. `set_cr3` empties it, in a switch, at the end of a fork that succeeds,
  and when `sbrk` shrinks the heap. Translations of the kernel's and the code's
  pages never change and are left out.
* **`sbrk`** looks for pages that are present; `TablesInPlace` says that none is, so
  that its loops do nothing and only the break moves. That is in the model
  because it is in the code, and is one of the disagreements of section 5.
* **Boot.** Variables the image does not initialise are zero; `main` runs on the
  stack in the page of some other PCB (`BootTask`). Between `enable_int`, which
  unmasks the timer and the keyboard, and the return to user mode there may be
  ticks (`BootTick`, up to the end of init's turn) and keys, pending ones included
  (`BootKey`). `Init` has what they leave: any part of a turn, and any state of
  the ring buffer that keys alone lead to. The stack the kernel is entered on is
  left out: `init_task1` and `inner_task_switch` write TSS and register side by side.
* **Ticks** in `Stats` pass whenever somebody runs, and inside the hooks between the
  samples of `get_ticks()` (`Late`). `blocked` and `ready` waiting are told
  apart, the reason for blocking only where the hooks differ.
* **Stacks** in `SysCalls` are sequences of words, the top first; an address in a stack
  is its height. A call is three steps because interrupts are off from the trap
  to the return, and a wrapper shares nothing but `errno`.
* **User memory.** `UserCopies` has one memory with the pages of the kernel and the
  program, and one call per behaviour. A copy that would touch an unmapped
  page does not start (the page fault handler does not return).
* **The keyboard** in `KeyBuffer` and `Console` goes on where the kernel halts with the
  first key delivered (`ReadReturns`): the buffer's laps are worth a look of
  their own. Once the idle task prints, nobody reads or writes.

## 3. Runs

The runs of `MCKernel` and `MCBoot` use NR_TASKS = 4 (idle, init and two more), `lists` 5.

| run | cfg | question | bounds |
|---|---|---|---|
| `lists` | `PCBLists` | do the pointers implement the sequences, double insertion included? | 5 PCBs, one wait queue, no counters |
| `processes` | `Processes` | queues, types, PIDs, counts, isolation, frame accounting, readers and turns under fork, clone, exit, reads and preemption; does every ready process run? | PIDs up to 4, frames for three processes, quanta 1 and 2, buffer of 2, reads of 0, 1 and 3 keys (less than, at most, and more than the buffer); fair clock |
| `semaphores` | `Semaphores` | exclusion, ownership, FIFO, answers of waits; do the slots implement the counting semaphores? | 2 slots, 2 names, values 0 and 1, count up to 2, 3 PIDs, a key buffer of 1 |
| `boot` | `Boot` | does `main` establish `Init`, with any ticks and keys before user mode? Then: tables, translations, breaks, and forks that fail in the middle | 16 frames of which 6 are taken by kernel and init, 2 code and 2 data pages, PIDs up to 4, increments of `sbrk` past the start, the end and zero |
| `statistics` | `Stats` | is a tick billed twice, is user time exact? | 3 processes, time up to 3, up to one tick inside a hook |
| `system_calls` | `SysCalls` | do registers, arguments, results and `errno` come through? | all wrappers, every result their routines have, two threads or parent and child, identifiers without a routine |
| `user_copies` | `UserCopies` | what do the checks let pass, and what do the copies do to it? | 128 addresses, pages of 4, every address and every `int` as a size |
| `console` | `Console` | does text stay in place under echoes; is the buffer a queue? | 3 columns, 2 rows, 7 characters, buffer of 3 followed to read position 4 |
| `pcb_reuse`, `idle_queued`, `many_semaphores`, `read_key` | | the first four disagreements of section 5 | as small as shows them |

**Why the bounds are enough.** Four PCBs give two user processes besides init,
the least with which one process can exit, its PCB be handed out again, and a
third be hit by it. The double insertion needs two exits and two creations to
show every link shape; `lists` has one more PCB so that longer free lists occur,
and it reaches all five shapes. `MaxPID` bounds how many processes are
ever created (`incrementalPID` grows for ever): 4 is enough for
two processes besides init, an exit, and a third that gets the PCB back. `MaxCounter` bounds how many units are counted: 2 are
enough to have more than one, use them one by one, and have none (1 where semaphores are not the question). `MinQLeft` stops `qLeft` from going
below zero, where the turn would only end after the integer wraps. In `boot` there
are frames for fewer processes than PCBs, so that forks fail with none and with
some frames taken, and frames come back by exits. Quantum 1 makes each tick a
possible preemption; `processes` has two different quanta, `semaphores` only
that one. In `user_copies` the kernel's area, the three user pages and the pages
after them are all there, a struct of two words makes one turn of the word loop
and four of the byte loop, and sizes go from negative to half the memory, so
that sums pass the last address. Lines of three characters are filled, ended by
a new line, and wrapped round the last row.

**Deadlock** is not checked: a kernel that has faulted is stopped, with bounded
counters a machine whose processes have all exited only renews idle's turn,
`UserCopies` stops after a call, `Console` and `Stats` when their bounds are reached.

**Fairness.**

* `processes`: `WF_vars(ClockStep)`: the timer keeps interrupting, and
  interrupts are enabled whenever no handler runs (`cpu_idle` executes `sti`, user
  code runs with the flag set, `entry.S` restores it). No fairness is assumed of
  processes: they may compute for ever, so `ReadyRuns` is really about preemption.
* `user_copies`: weak fairness of the handler once it is entered: interrupts are off, so
  it goes on. The program need not call.

## 4. Properties

Invariants of the kernel (of states in which it runs):

* `QueueInv`: every PCB is in at most one queue, once; its `estado` names that
  queue; dead PCBs are in none; the free list offers dead PCBs, or is exhausted.
* `UniquePIDs`, `SemaphoreInv` (units exclude waiters, owners are alive, names
  are in one slot), `ReadersWokenWithKeys`, `TurnBounded`.
* `DirectoryCounts`, `Isolation`, `FramesAccounted`, `ForkHasMemory`.
* `TablesInPlace`, `TLBCoherent` (until a fork runs out of frames half-way),
  `BreakInRange`, `BootEstablishesInit`.

Steps: `ReadyIsFIFO`, `WaitAnswers`, `FailedForkKeepsFrames`. Refinement:
`ImplementsQueues`, `ImplementsSemaphores` (up to the first fault). Liveness: `ReadyRuns`.
Types: `TypeOK`. `PCBLists`
has `LiveQueuesAreRings` besides.

Time: `NoTickTwice`, `UserTicksExact`. The path of a call: `CallerUnharmed`,
`RoutineReached`, `ResultConvention`, `ThreadStarts`, `ErrnoKept`. Memory passed by
programs: `OwnMemoryAccepted`, `WrittenNearby`, `KernelKept`, `TextPrinted`,
`CallsExact`, `CallsEnd`. Devices: `TextInPlace`, `FirstLapIsQueue` (a refinement of
`BoundedQueue`, up to the first lap).

## 5. Where the code and its documents disagree

Shown by runs; `PROJECT.json` ("findings") quotes the document or test each one
contradicts.

| run | property violated | what happens |
|---|---|---|
| `pcb_reuse` | `OnlyFreePCBsAllocated` | after an exit, the last PCB of the free list can be given out twice: a fork overwrites a live process where `-ENOMEM` is due |
| `idle_queued` | `IdleNeverQueued` | `schedule()` puts the idle task in `readyqueue` when its turn ends; it then takes turns with user processes |
| `many_semaphores` | `SemaphoreTableBounds` | the 21st semaphore is written at `semaphores[-1]` and reported as created |
| `read_key` | `ReadReturns` | `copy_to_user(key, ...)` uses the character as an address; the first key delivered stops the machine |

Met on the way. Each property stands in its module, in the part on what the
documents ask for, and TLC finds it violated when it is added to the `.cfg` named;
no run of the project repeats that.

| property, module | add to | what happens |
|---|---|---|
| `FullQuantumAfterSwitch`, `KernelProperties` | `Processes` | `get_quantum(t)` answers for `current()` (`sched.c:242`): the next process gets the quantum of the previous one |
| `ExitFreesFrames`, `KernelProperties` | `Processes` | the extra reference `init_task1` counts (`sched.c:174`) keeps init's data frames for ever |
| `OwnStatistics`, `KernelProperties` | `Processes` | after an abandoned fork, `get_stats` (`sys.c:160`) may find the copy, which has its parent's PID, first |
| `WokenReaderPreempts`, `KernelProperties` | `Processes` | `keyboard_rutine` (`interrupt.c:51`) puts the reader behind the ready processes; ZeOS.pdf p. 62 has it preempt |
| `HeapMapped`, `AddressSpace` | `Boot` | `sbrk` (`sys.c:281`) maps a page only if it is present: the break moves and nothing is mapped |
| `WaitsCounted`, `Stats` | `Statistics` | time spent ready goes to `system_ticks`, time blocked nowhere of its own (`sched.c:113`) |
| `StatsStartAtBirth`, `Stats` | `Statistics` | a new process is billed the ticks since power-on (`sys.c:96`, `sys.c:192`) |
| `AlwaysQueue`, `KeyBuffer` | `Console` | `readPos` is never wrapped (`cirBuffer.c:15`) and a read of a full buffer leaves `full` set |
| `OutOfRangeRefused`, `SysCalls` | `SysCalls` | `jg` (`entry.S:105`) lets identifier 36 through, one past the table |
| `ErrnoOfLastCall`, `SysCalls` | `SysCalls` | threads share `errno`: the error found may be another thread's |
| `PerrorTells`, `SysCalls` | `SysCalls` | `perror` (`libc.c:28`) says "No error" for ENOMEM, ESRCH, EBUSY and EPERM |
| `CodeNotWritten`, `UserMemory` | `UserCopies` | the case for writing in `access_ok` (`utils.c:76`) falls through to the one for reading |

Besides, a fork that runs out of frames returns before `set_cr3` (`sys.c:81`) and
leaves translations of the heap pages it copied through: `TLBCoherent` excepts
the time after it. `sys_write` checks its buffer for NULL only, where ZeOS.pdf
wants every user address checked: `UserCopies` follows it to any mapped page, the
kernel's own buffer included. That its copies are exact is therefore claimed only where
the two lie apart (`CallsExact`, `TextPrinted`); for `get_stats` it follows from its check.

## 6. Proofs

TLAPS proves, for every value of the constants:

| theorem | module | states |
|---|---|---|
| `TypeCorrect` | `KernelProofs` | `Spec => []TypeOK` |
| `QueuesCorrect` | `KernelProofs` | `Spec => []QueueInv` |
| `PIDsAreUnique` | `ProcessProofs` | `Spec => []UniquePIDs` |
| `ReadyServedInOrder` | `ProcessProofs` | `Spec => ReadyIsFIFO` |
| `SemaphoresConsistent` | `ProcessProofs` | `Spec => []SemaphoreInv` |
| `WaitersAnswered` | `ProcessProofs` | `Spec => WaitAnswers` |
| `ReadersFindTheirKeys` | `ProcessProofs` | `Spec => []ReadersWokenWithKeys` |
| `TurnsEnd` | `ProcessProofs` | `Spec => []TurnBounded`, if all quanta are positive |
| `FailedForkLosesNothing` | `ProcessProofs` | `Spec => FailedForkKeepsFrames` |
| `DirectoriesCounted` | `ProcessProofs` | `Spec => []DirectoryCounts`, if memory suffices |
| `ProcessesIsolated` | `ProcessProofs` | `Spec => []Isolation` |
| `NoFrameLeaks` | `ProcessProofs` | `Spec => []FramesAccounted`, if memory suffices |
| `ForksFindMemory` | `ProcessProofs` | `Spec => []ForkHasMemory`, if memory suffices |
| `BootEstablishes` | `BootProofs` | `BootSpec => []BootEstablishesInit` |
| `TablesStayInPlace` | `BootProofs` | `BootSpec => []TablesInPlace` |
| `NoStaleTranslation` | `BootProofs` | `BootSpec => []TLBCoherent` |
| `BreaksInHeap` | `BootProofs` | `BootSpec => []BreakInRange` |
| `NoTickBilledTwice` | `StatsProofs` | `Spec => []NoTickTwice` |
| `UserTimeExact` | `StatsProofs` | `Spec => []UserTicksExact` |
| `CallersAreUnharmed` | `SysCallsProofs` | `Spec => []CallerUnharmed` |
| `RoutinesReached` | `SysCallsProofs` | `Spec => []RoutineReached` |
| `ResultsSeen` | `SysCallsProofs` | `Spec => []ResultConvention` |
| `ThreadsStartRight` | `SysCallsProofs` | `Spec => []ThreadStarts` |
| `ErrnoIsKept` | `SysCallsProofs` | `Spec => ErrnoKept` |
| `CopiesExactly` | `UserCopiesProofs` | `Spec => []CopyExact` (`Spec` of `CopyData`) |
| `CallsCopyExactly` | `UserCopiesProofs` | `UserSpec => []CallsExact` |
| `KernelIsKept` | `UserCopiesProofs` | `UserSpec => []KernelKept` |
| `TextIsPrinted` | `UserCopiesProofs` | `UserSpec => []TextPrinted` |
| `OwnMemoryIsAccepted` | `UserCopiesProofs` | `UserSpec => []OwnMemoryAccepted` |
| `WritesStayNearby` | `UserCopiesProofs` | `UserSpec => []WrittenNearby` |
| `TextStaysInPlace` | `ConsoleProofs` | `Spec => []TextInPlace` |
| `FirstLapOfKeys` | `ConsoleProofs` | `Spec => FirstLapIsQueue` |
| `RingsStay` | `PCBListsProofs` | `Spec => []LiveQueuesAreRings` |
| `PointersImplementQueues` | `PCBListsProofs` | `Spec => ImplementsQueues` |

**Assumptions.** Only the named ASSUMEs of the modules (`Constants` in
`KernelProofs` collects them), such as "there are at least idle and init".
TLC evaluates them in every run.

**Types** (`TypeCorrect`) are inductive as they stand: one lemma per group of
handlers, which rest on what `list_del`, `list_first`, `sched_next_rr`, a switch
and a write to one semaphore do to the types.

**Queues** (`QueuesCorrect`). `QueueInv` is not inductive. The invariant is

    QueueInd == TypeOK /\ (KernelRuns => Core /\ Rest)

* `Core` says where each PCB is, *from its state*: READY if and only if in the ready
  queue, BLOCKED if and only if in the keyboard queue or in one semaphore's
  queue, and the process on the CPU is live and RUN. Written as
  equivalences, that two queues share no PCB follows from one state not being
  another, and the effect of a handler is a change of one state and one queue.
* `Rest` is what keeps `Core` true across creation: the free list offers
  only PCBs without a PID, or is exhausted with a live PCB at its head, in which
  case a fork or clone is the fault `reused`; `incrementalPID > 0`, because
  a PID of -1 would make the new process look free; and nobody waits in a free
  semaphore slot, because `sem_init` re-initialises that slot's queue.
* A fault ends the claim: the handler that sets `fault` may leave the queues in any
  state that has the right types.

The proof has one lemma per *queue update* (`QueueReady`, `QueueKeyboard`,
`QueueSemaphore`, `WakeReader`, `WakeWaiter`, `ReleaseWaiters`, `Dies`, `Copied`,
`Switched`), stated about arbitrary queues and states and not about the variables,
so that a handler that does three of them (`sys_exit` releases waiters,
dies and switches) is three lemmas one after the other. `FreeListTaken` and
`FreeListAdded` do the same for the free list, double insertion included.

**Processes** (`ProcessProofs`). Properties of processes quantify over `Procs`, the
PCBs in queues, on the CPU, and idle. `StepShape` sorts the steps by what they do
to that set: most move PCBs between queues and CPU and leave it alone (`Stays`);
fork and clone add one PCB (`Creates`) or, when memory fails, write to one and leave it
outside (`Abandons`); exit takes one away (`Exits`). Given `QueueInd`, these four
cases are all that the next proofs need of a step:

* `PIDsAreUnique`: every PID of a process lies below `incrementalPID`, and a new one is
  `incrementalPID` before it is raised. Abandoned copies have their parent's PID
  and are not in `Procs`: that is what makes the claim true.
* `SemaphoresConsistent`: split into `Owners` (a used slot belongs to a live user
  process), `WaitersInUse` and `OneSlotPerName`. An exit destroys the semaphores
  of its owner and nobody else's, because PIDs are unique; so this proof needs
  the one before.
* `WaitersAnswered` needs `AnswersPending`: who waits has `sem_ret` 0,
  which `sem_wait` sets before it blocks and only `sem_destroy` changes.
* `ReadersFindTheirKeys` needs `ReadersInd`: a reader that has been woken has its keys in the
  buffer, and at most one reader is woken at a time whose keys are not taken yet.
  It speaks of the time before the first read that delivers a key, which is
  where the kernel stops (`ReadReturns`).
* `TurnsEnd` needs `TurnInd`, that all `quantum` fields are positive: its hypothesis is that
  nobody passes 0 or less to `set_quantum`; nothing in the code forbids that, and
  `ReadyRuns` is checked under the same condition.

**Memory** (`ProcessProofs`). `FailedForkLosesNothing` and `ProcessesIsolated` hold for
every memory. The others assume

    MemorySuffices == NUM_PAG_KERNEL + 2*(NUM_PAG_CODE + (NR_TASKS-1)*NUM_PAG_DATA) <= TOTAL_PAGES

which in the code is 256 + 2*(8 + 14*20) = 832 <= 1024 (`mm_address.h:6-12`, `sched.h:16`).
The factor 2 is how the proof counts: `alloc_frame` hands out every other frame. Without
it a fork can fail half-way, and then it leaves a directory counted that nobody
uses, and in its table frames that may be another's by now; `Boot.cfg` has such
machines. The invariant under the assumption is `MemoryInd`: idle keeps its
directory to itself, every directory is counted, the directories in use have
different frames of their own, and nothing else is taken. `DirectoryHasFrames`
is the counting argument that a fork with a free PCB finds a directory and
frames, so that under `MemorySuffices` every fork succeeds and the abandoned
copies never come about.

Isolation does not need that. Its invariant, `ApartInd`, speaks only of the
directories processes run in (`Homes`): they have references enough for their
processes (`Covered`, an inequality, where `MemoryInd` has equality), and their frames are
used and different. A failed fork adds to neither `Procs` nor `Homes`, and the
frames it gives back were free before.

**Boot and address spaces** (`BootProofs`). `BootInd` is a disjunction over the stages
of `main`, with what holds after each: one lemma per step. That `set_user_pages`
gets exactly the frames `BootFrame(k)` (`FirstFrames`) is a counting argument: as many frames lie before the one number k as
are handed out before it. The ticks and keys after `enable_int` are steps of the same
disjunct: a tick leaves a part of the turn (`TurnBegun`), a key a buffer nothing was read
from (`KeyStored`). From `return_gate` on the invariant is `SpaceInd`:
`QueueInd`, `ApartInd`, and

* `InOrder`: the table of a home is `BootTable(1)`, and *no* directory maps a page
  that `fork` does not fill. The second is what makes a directory good to be
  taken again: `fork` copies into whatever its last owner left. The directory
  it takes is nobody's home, because homes have references (`HomesTaken`).
* `Cached`: the buffer holds translations of the running process's data pages, or a
  fork was abandoned. That an exit always switches, and so loads `cr3`, is from
  `ExitShape`.
* `BreaksInd`: the bounds of the breaks, where the test on pages becomes one on bytes.

Each step of `AddressSpace` is a step of `Kernel` (`SpaceStepIsStep`), so that the lemmas
about `Kernel` apply to it. `SpaceInit` asks of the turn and the buffer
only what the boot leaves, so that it serves both specifications.

**Time** (`NoTickBilledTwice`, `UserTimeExact`). The first property and the types together are inductive: every
hook adds the difference to the last billing to one counter and moves that
moment forward by at least as much. What has to be shown is that each hook
does both with the same sample or a later one, in every way it is written.
`UserTicksExact` speaks of the process that runs; `UserInd` adds which one that is:
`current` and nobody else, unless `sched_next_rr` is still to choose.

**Copies** (`CopiesExactly`). `CopyExact` speaks of the end of the loops. The invariant is
`CopyInv`: what lies before the moving pointers has come over, all else is as
it was, and the pointers are where the bytes left say. A turn preserves it because
the bytes it reads lie outside of what has been written, which is where the
assumption comes in that the areas do not overlap; that the word loop stops at
four bytes or fewer keeps the count from going below zero.

**The kernel's pages** (`KernelIsKept`). What is inductive is where a running
loop may write: `write` inside of its buffer, whose piece is at most `TAMWRITE`,
`get_stats` from the first page of the user on. The second is what the check of
`get_stats` gives: with `USER_FIRST_PAGE <= st / PAGE_SIZE` no byte of the block
lies below, as the loop only goes up. The proof assumes that the kernel's copies
of counters and text lie apart in its own pages and that the pages mapped end in
the lower half of the addresses, as `UserCopiesAssumption` and `UserMemoryAssumption` say.

**Blocks** (`OwnMemoryIsAccepted`, `WritesStayNearby`). The two properties come from one
block (`BlockChecked`): refused, it has a byte outside of the pages
(`BlockRefused`), passed, it lies in them or in the one behind (`BlockPassed`). The
point is the sum of address and size modulo `Word`. A sum that wraps ends at least half
the addresses before its start, because sizes are `int`s; to pass, its end would
have to be in the same page; so a page must be no larger than half the addresses,
which `UserMemoryAssumption` says of the whole layout. The calls check the pointer, then the
size, then the block, and a `NULL` is in no page of the user's (`NullRefused`).

**What write prints** (`TextIsPrinted`, `CallsCopyExactly`). The invariant is `TextInv`: the shape
of the copy under way (`CopyShape`), `CopyInv` if its two areas are apart (`Separate`), and between two
pieces `WriteInv`, that what is printed, what is being copied and what is left make up the user's
buffer, which no earlier copy has written to; the last as long as that buffer is apart
from the kernel's (`OffBuffer`), which `sys_write` does not ask. A copy of `get_stats` is always
between areas apart: the counters lie in the kernel's pages, and what the check lets
pass does not (`TextStats`). `PieceBegins` shows that the next piece satisfies what the copy loops ask for,
also the empty one that follows a text of whole pieces: its address is
one behind the buffer, but still in the memory. `TextContinues` puts
the pieces together. `CallsExact` falls out of the same invariant.

**The path of a call** (`SysCallsProofs`). All five theorems rest on `DispatchInv`, which
says of each thread what its stacks and registers are where it stands: in the
program, at the trap with the words its wrapper has pushed (`WrapperTrap`, a function of
the call only), on the way back with the same stack, `ebx` as the wrapper left it, and the result in
`eax`. The rest are lemmas about sequences of words. `FrameShape` and `TrapShape` say
what a wrapper has on the stack and in the registers at the trap, for each number of
arguments and both entries; `KernelFrame` where `SAVE_ALL` and the result are on the kernel's
stack, from which follow that the routine finds its arguments (`ArgumentsFound`) and
the program its registers (`KernelLeaves`); `FrameTakenOff` that
the wrapper's pops undo its pushes. A fork's child is a thread whose stacks are its parent's
with 0 for the result (`DispatchFork`); a thread of clone has the two words replaced
(`WordReplaced`, `ThreadFrameShape`). The proof takes from the
constants that every call has a wrapper, and that the identifiers trapped with
by hand are without a routine (`SysCallsAssumption`).

**Text in its place** (`TextStaysInPlace`). `InPlace(c, w)` says that the characters of `w` since
its last new line stand left of the cursor of `c`, but for the echo's cell. `printc` keeps it
(`CharacterPrinted`, where a line goes over the end of a row by `Remainder`), and so does anything that
changes that cell only (`CornerExempt`, `Echoed`). The invariant, `ConsoleInv`, adds what
holds in the middle of the idle task's `printc`: the address it has computed is the
cursor's, and once the cursor has moved the store to come puts the character in its place,
also if keys are echoed before it (`EchoBeforeStore`). A text written at once is a fold of
`printc` over a sequence. Its induction (`TextWritten`) is one over a *set* of
numbers, which the library's `WFMin` gives without a predicate as parameter
(`NatSetInduction`), and `CharacterByCharacter` opens the fold with it. The theorem takes from the constants that
texts are sequences and that `cpu_idle`'s has no new line.

**The key buffer** (`FirstLapOfKeys`). A refinement, step by step, for every size of the
buffer: a key that finds room is `Put` (`KeyPut`), a read is `Get` (`KeyTaken`), a key
without room and all other steps change nothing. `KeysBetween` is why no key overwrites
another: the cell written is not among those between the two positions. Beyond the first lap it is false
(`AlwaysQueue`, section 5).

**Lists** (`RingsStay`, `PointersImplementQueues`). The two rest on one invariant, `PCBInv`:
there *are* a free list, a ready queue and a wait queue, sequences, that the links fit
(`Fits`). The live queues fit as rings without a PCB twice, share none, lie within the PCBs in use,
and the PCBs in use that hang in neither run and have null links
(`Live`). The free list fits in one of the five ways of `FreeList`
(`Free`): a ring; a chain whose last PCB is its own successor, with two choices for the
first one's `prev`; a head that points at a PCB handed out already, backwards too or not. That a
free list in ruins harms nobody follows from where its stores go: of
the live PCBs' links only those of the one that dies are written (`FreeApart`, `FreeAdd`), save for
the exit that `Die` stops short at (`WouldCorrupt`).
The argument has four layers: what the stores of `list_add` and `list_del` leave (`InsertLinks`,
`DeleteLinks`, which allow the neighbours to be one node, or the new node itself); what that does to a
ring (`AddTail`, `TakeOut`), a chain inserted into twice (`AddToChain`) and an exhausted list
(`FreeTake`, `FreeAdd`); what joining and leaving a queue does to both queues and the states (`Join`,
`Leave`); one lemma per handler (`SpawnStep` to `WakeStep`), which says that the step
keeps `PCBInv` and is a step of `PCBQueues`. `Reads` connects them: where links fit
sequences, walks along `next` from the heads find these sequences (`WalkIs`, an
induction along the walk), and `FreeShape` the shape. `init_sched`'s loop is `PushedFits`, by
induction on the tasks pushed. Two definitions were changed for the proof: `FreeShape`'s
alternatives for a ring and a loop overlapped for an empty ring, where `CASE` leaves the choice open; and
`Without` now speaks of places in the queue.

**Only model-checked**: `ReadyRuns` and `CallsEnd`, which are liveness and out of
the prover's reach, and `ImplementsSemaphores`.

## 7. Plan

Done: the process kernel with its address spaces and its boot, the statistics,
the path of a call, user memory, console and key buffer; the proofs of section 6,
which cover every property the runs check but for the two liveness properties and
`ImplementsSemaphores`. Next: a proof of the latter, and the abstract specification of a
round-robin scheduler, with `Kernel` implementing it.

## 8. What is not modelled

* `itoa`, `strlen` (`libc.c`): work on the caller's own strings. `user.c`: a test driver;
  the model lets processes make any call at any time instead.
* The boot sector and `build.c`, which make and load the image; segments, GDT, IDT, TSS
  and the interrupt controller: set once, before anything else runs, by straight-line
  code, but for the stack pointer in the TSS (section 2).
* `libzeos.a`, `libauxjp.a`: binaries. Of the first only that its page fault handler
  never returns, of the second only that `sys_nice` calls `set_quantum`, and that
  its tests trap with identifiers that have no routine.
* The contents of pages, except in `UserCopies`; `zeos_ticks`; `total_trans` and
  `remaining_ticks`, but for the copy of `qLeft` in the answer of `get_stats`;
  the clock on the screen; colours.
* Negative quanta: a turn of 0 ticks ends after 2^32 of them.
